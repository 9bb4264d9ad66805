--------------------------- MODULE OglRepoProofs ---------------------------
(***************************************************************************)
(* What a repository keeps, for trees of any width and depth and for any   *)
(* number of edits, failures and crashes: what is clean is stored, what    *)
(* root-ref names was written, and OglRepo implements OglStore.            *)
(***************************************************************************)
EXTENDS OglRepo, InductionFacts, FiniteSetTheorems

-----------------------------------------------------------------------------
(* Paths.                                                                  *)

LEMMA IsPath ==
    ASSUME NEW p \in Seq(Names), Len(p) <= Depth
    PROVE  p \in Paths
<1>1. Depth \in Nat
  BY TreeAssumption
<1>2. p \in [1 .. Len(p) -> Names] /\ Len(p) \in 0 .. Depth
  BY <1>1
<1>. QED  BY <1>2 DEF Paths

LEMMA PathType ==
    ASSUME NEW p \in Paths
    PROVE  p \in Seq(Names) /\ Len(p) \in Nat /\ Len(p) <= Depth /\ Depth \in Nat
<1>1. Depth \in Nat
  BY TreeAssumption
<1>2. PICK d \in 0 .. Depth : p \in [1 .. d -> Names]
  BY DEF Paths
<1>. QED  BY <1>1, <1>2

LEMMA RootPath == Root \in Paths /\ Len(Root) = 0
<1>1. Depth \in Nat
  BY TreeAssumption
<1>2. Root \in Seq(Names) /\ Len(Root) = 0
  BY DEF Root
<1>3. Len(Root) <= Depth
  BY <1>1, <1>2
<1>. QED  BY <1>2, <1>3, IsPath

LEMMA PrefixPath ==
    ASSUME NEW p \in Paths, NEW i \in 0 .. Len(p)
    PROVE  /\ Prefix(p, i) \in Paths /\ Len(Prefix(p, i)) = i
           /\ \A k \in 1 .. i : Prefix(p, i)[k] = p[k]
<1>1. p \in Seq(Names) /\ Len(p) <= Depth /\ Depth \in Nat
  BY PathType, TreeAssumption
<1>2. /\ SubSeq(p, 1, i) \in Seq(Names) /\ Len(SubSeq(p, 1, i)) = i
      /\ \A k \in 1 .. i : SubSeq(p, 1, i)[k] = p[k]
  BY <1>1
<1>3. SubSeq(p, 1, i) \in Paths
  <2>1. i <= Depth
    BY <1>1
  <2>. QED  BY <1>2, <2>1, IsPath
<1>. QED  BY <1>2, <1>3 DEF Prefix

LEMMA PathEqual ==
    ASSUME NEW p \in Paths, NEW q \in Paths, Len(p) = Len(q), \A i \in 1 .. Len(p) : p[i] = q[i]
    PROVE  p = q
<1>1. p \in Seq(Names) /\ q \in Seq(Names)
  BY PathType
<1>. QED  BY <1>1

LEMMA BelowMeans ==
    ASSUME NEW p \in Paths, NEW q \in Paths
    PROVE  Below(q, p) <=> Len(q) > Len(p) /\ \A i \in 1 .. Len(p) : q[i] = p[i]
<1>1. p \in Seq(Names) /\ q \in Seq(Names) /\ Len(p) \in Nat /\ Len(q) \in Nat
  BY PathType
<1>2. CASE Len(q) > Len(p)
  <2>1. /\ Prefix(q, Len(p)) \in Paths /\ Len(Prefix(q, Len(p))) = Len(p)
        /\ \A k \in 1 .. Len(p) : Prefix(q, Len(p))[k] = q[k]
    BY <1>1, <1>2, PrefixPath
  <2>2. Prefix(q, Len(p)) = p <=> \A i \in 1 .. Len(p) : q[i] = p[i]
    BY <2>1, PathEqual
  <2>. QED  BY <1>2, <2>2 DEF Below
<1>3. CASE ~ (Len(q) > Len(p))
  BY <1>3 DEF Below
<1>. QED  BY <1>2, <1>3

LEMMA PathLen == \A p \in Paths : Len(p) \in Nat /\ Len(p) <= Depth /\ Depth \in Nat
BY PathType

LEMMA BelowTrans ==
    ASSUME NEW p \in Paths, NEW q \in Paths, NEW r \in Paths, Below(q, p), Below(r, q)
    PROVE  Below(r, p)
BY BelowMeans, PathLen

LEMMA BelowOther ==
    ASSUME NEW p \in Paths, NEW q \in Paths, Below(q, p)
    PROVE  p # q /\ ~ Below(p, q) /\ q # Root
BY BelowMeans, PathLen, RootPath

LEMMA BelowRoot ==
    ASSUME NEW p \in Paths
    PROVE  p = Root \/ Below(p, Root)
<1>1. CASE Len(p) = 0
  BY <1>1, RootPath, PathEqual
<1>2. CASE Len(p) # 0
  BY <1>2, RootPath, PathLen, BelowMeans
<1>. QED  BY <1>1, <1>2

\* What lies below both p and r makes them comparable.
LEMMA BelowChain ==
    ASSUME NEW p \in Paths, NEW q \in Paths, NEW r \in Paths, Below(q, p), Below(q, r)
    PROVE  p = r \/ Below(p, r) \/ Below(r, p)
<1>1. /\ Len(q) > Len(p) /\ \A i \in 1 .. Len(p) : q[i] = p[i]
      /\ Len(q) > Len(r) /\ \A i \in 1 .. Len(r) : q[i] = r[i]
  BY BelowMeans
<1>2. Len(p) \in Nat /\ Len(r) \in Nat
  BY PathLen
<1>3. CASE Len(p) = Len(r)
  BY <1>1, <1>3, PathEqual
<1>4. CASE Len(p) < Len(r)
  BY <1>1, <1>2, <1>4, BelowMeans
<1>5. CASE Len(p) > Len(r)
  BY <1>1, <1>2, <1>5, BelowMeans
<1>. QED  BY <1>2, <1>3, <1>4, <1>5

-----------------------------------------------------------------------------
(* Children and parents.                                                   *)

Child(p, n) == Append(p, n)

LEMMA ChildPath ==
    ASSUME NEW p \in Paths, NEW n \in Names, Len(p) # Depth
    PROVE  /\ Child(p, n) \in Paths /\ Len(Child(p, n)) = Len(p) + 1
           /\ Child(p, n)[Len(p) + 1] = n
           /\ Below(Child(p, n), p) /\ Parent(Child(p, n)) = p
           /\ Child(p, n) # Root
<1>1. p \in Seq(Names) /\ Len(p) \in Nat /\ Len(p) <= Depth /\ Depth \in Nat
  BY PathType, PathLen
<1>2. /\ Append(p, n) \in Seq(Names) /\ Len(Append(p, n)) = Len(p) + 1
      /\ Append(p, n)[Len(p) + 1] = n /\ \A i \in 1 .. Len(p) : Append(p, n)[i] = p[i]
  BY <1>1
<1>3. Append(p, n) \in Paths
  <2>1. Len(Append(p, n)) <= Depth
    BY <1>1, <1>2
  <2>. QED  BY <1>2, <2>1, IsPath
<1>4. Below(Append(p, n), p)
  <2>1. PICK q \in Paths : q = Append(p, n)
    BY <1>3
  <2>2. Len(q) > Len(p) /\ \A i \in 1 .. Len(p) : q[i] = p[i]
    BY <1>1, <1>2, <2>1
  <2>. QED  BY <2>1, <2>2, BelowMeans
<1>5. Parent(Append(p, n)) = p
  <2>1. (Len(p) + 1) - 1 = Len(p)
    BY <1>1
  <2>. QED  BY <1>2, <1>4, <2>1 DEF Parent, Below
<1>6. Append(p, n) # Root
  BY <1>3, <1>4, BelowOther
<1>. QED  BY <1>2, <1>3, <1>4, <1>5, <1>6 DEF Child

\* A path below p is a child of p or below one.
LEMMA ChildAbove ==
    ASSUME NEW p \in Paths, NEW q \in Paths, Below(q, p)
    PROVE  /\ Len(p) # Depth /\ q[Len(p) + 1] \in Names
           /\ IF Len(q) = Len(p) + 1 THEN q = Child(p, q[Len(p) + 1])
              ELSE Below(q, Child(p, q[Len(p) + 1]))
<1>1. p \in Seq(Names) /\ q \in Seq(Names) /\ Len(p) \in Nat /\ Len(q) \in Nat /\ Len(q) <= Depth
      /\ Depth \in Nat
  BY PathType, PathLen
<1>2. Len(q) > Len(p) /\ \A i \in 1 .. Len(p) : q[i] = p[i]
  BY BelowMeans
<1>3. Len(p) # Depth /\ q[Len(p) + 1] \in Names
  BY <1>1, <1>2
<1>4. PICK n \in Names : n = q[Len(p) + 1]
  BY <1>3
<1>5. /\ Child(p, n) \in Paths /\ Len(Child(p, n)) = Len(p) + 1
      /\ \A i \in 1 .. (Len(p) + 1) : Child(p, n)[i] = q[i]
  <2>1. Child(p, n) \in Paths /\ Len(Child(p, n)) = Len(p) + 1
    BY <1>3, ChildPath
  <2>2. \A i \in 1 .. (Len(p) + 1) : Append(p, n)[i] = q[i]
    BY <1>1, <1>2, <1>4
  <2>. QED  BY <2>1, <2>2 DEF Child
<1>6. CASE Len(q) = Len(p) + 1
  BY <1>3, <1>4, <1>5, <1>6, PathEqual
<1>7. CASE Len(q) # Len(p) + 1
  <2>1. Len(q) > Len(Child(p, n))
    BY <1>1, <1>2, <1>5, <1>7
  <2>2. Below(q, Child(p, n))
    BY <1>5, <2>1, BelowMeans
  <2>. QED  BY <1>3, <1>4, <1>7, <2>2
<1>. QED  BY <1>6, <1>7

LEMMA ParentPath ==
    ASSUME NEW p \in Paths, p # Root
    PROVE  /\ Parent(p) \in Paths /\ Len(Parent(p)) = Len(p) - 1 /\ Len(p) \in Nat \ {0}
           /\ Below(p, Parent(p)) /\ Len(Parent(p)) # Depth
           /\ p[Len(p)] \in Names /\ p = Child(Parent(p), p[Len(p)])
           /\ \A q \in Paths : Below(p, q) <=> q = Parent(p) \/ Below(Parent(p), q)
<1>1. Len(p) \in Nat /\ Len(p) # 0
  BY PathLen, RootPath, PathEqual
<1>2. /\ Parent(p) \in Paths /\ Len(Parent(p)) = Len(p) - 1
      /\ \A k \in 1 .. (Len(p) - 1) : Parent(p)[k] = p[k]
  BY <1>1, PrefixPath DEF Parent
<1>3. Below(p, Parent(p))
  BY <1>1, <1>2, BelowMeans
<1>4. Len(Parent(p)) # Depth /\ p[Len(p)] \in Names /\ p = Child(Parent(p), p[Len(p)])
  <2>1. Len(Parent(p)) + 1 = Len(p)
    BY <1>1, <1>2
  <2>. QED  BY <1>2, <1>3, <2>1, ChildAbove
<1>5. ASSUME NEW q \in Paths, Below(p, q) PROVE q = Parent(p) \/ Below(Parent(p), q)
  <2>1. ~ Below(q, Parent(p))
    <3>1. Len(q) \in Nat /\ Len(p) > Len(q)
      BY <1>5, PathLen, BelowMeans
    <3>. QED  BY <1>1, <1>2, <3>1, BelowMeans
  <2>. QED  BY <1>2, <1>3, <1>5, <2>1, BelowChain
<1>6. ASSUME NEW q \in Paths, q = Parent(p) \/ Below(Parent(p), q) PROVE Below(p, q)
  BY <1>2, <1>3, <1>6, BelowTrans
<1>. QED  BY <1>1, <1>2, <1>3, <1>4, <1>5, <1>6

-----------------------------------------------------------------------------
(* The invariant.  K stands for the objects that are stored, or should     *)
(* have been.                                                              *)

\* What an entry of a directory object may be.
DentryOK(d, K) ==
    /\ d = Dentry(d.kind, d.hash)
    /\ d.kind \in Kinds \ {"removed"}
    /\ d.kind \in {"none", "local", "nonexistent"} => d.hash = NoHash
    /\ d.kind # "dir" => d.hash.type # "DIR"
    /\ d.kind = "symlink" => d.hash \in K

\* h is the object of a directory at depth d, and R has those of its directories.
ObjAt(h, d, R, K) ==
    /\ h = Hash("DIR", [n \in Names |-> h.ents[n]], 0)
    /\ h \in K
    /\ \A n \in Names :
        /\ DentryOK(h.ents[n], K)
        /\ d = Depth => h.ents[n] = NoDentry
        /\ h.ents[n].kind = "dir" => <<h.ents[n].hash, d + 1>> \in R

\* h is the object of a directory at depth d, and so are all those below it: they
\* are well formed, in K, and no deeper than a path can be.
DirAt(h, d, K) ==
    \E R : <<h, d>> \in R /\ \A x \in R : ObjAt(x[1], x[2], R, K)

\* What an entry in memory may be.
EntryOK(e, K) ==
    /\ e = Entry(e.kind, e.hash, e.modified, e.loaded)
    /\ e.kind \in Kinds /\ e.modified \in BOOLEAN /\ e.loaded \in BOOLEAN
    /\ e.kind = "none" => e = None
    /\ e.modified => e.kind \in {"file", "symlink", "dir"}
    /\ IF e.kind = "dir" THEN e.hash.data = 0 ELSE e.hash.type # "DIR"
    /\ e.kind \in {"local", "nonexistent"} => e.hash = NoHash
    /\ e.kind = "symlink" /\ ~ e.modified => e.hash \in K
    /\ e.kind = "dir" /\ ~ e.loaded => ~ e.modified

\* Nothing is below an entry that is not a directory that has been read; what is
\* modified is below what is modified; and a directory that is not modified has the
\* hash of an object, and that of its entries.
TreeOK(m, K) ==
    /\ m = [p \in Paths |-> m[p]]
    /\ Is(m, Root, "dir")
    /\ \A p \in Paths : EntryOK(m[p], K)
    /\ \A p, q \in Paths : Below(q, p) /\ lookup(m, q) => Is(m, p, "dir") /\ m[p].loaded
    /\ \A p, q \in Paths : Below(q, p) /\ m[q].modified => m[p].modified
    /\ \A p \in Paths : Is(m, p, "dir") /\ ~ m[p].modified =>
        /\ DirAt(m[p].hash, Len(p), K)
        /\ m[p].loaded => m[p].hash = DirObj(m, p)

Known == objects \cup unwritten

DiskInv ==
    /\ objects \cap cut = {} /\ cut \subseteq unwritten
    /\ NoHash \notin objects
    /\ rootRef = NoHash \/ DirAt(rootRef, 0, Known)

\* After a crash the root may name no object.
MemInv ==
    /\ pc \in {"idle", "down"} \cup Committing \cup Aborts
    /\ pc \in {"idle"} \cup Committing => TreeOK(mem, Known)
    /\ pc = "down" => mem = Opened(rootRef)
    /\ pc \in Aborts => TreeOK(mem, Known) \/ mem = Opened(rootRef)

Occurs(s, q) == \E i \in 1 .. Len(s) : s[i] = q
Covers(s, q) == \E i \in 1 .. Len(s) : s[i] = q \/ Below(q, s[i])

\* The stack holds entries none of which is below another, and no directory to dump
\* is one of them or below one.
StackInv ==
    /\ \A i, j \in 1 .. Len(todumps) :
        i # j => todumps[i] # todumps[j] /\ ~ Below(todumps[i], todumps[j])
    /\ \A i \in 1 .. Len(dirs), j \in 1 .. Len(todumps) :
        dirs[i] # todumps[j] /\ ~ Below(dirs[i], todumps[j])

\* The directories to dump are modified, and each one comes before those below it.
DirsInv ==
    /\ \A i \in 1 .. Len(dirs) :
        Is(mem, dirs[i], "dir") /\ mem[dirs[i]].loaded /\ mem[dirs[i]].modified
    /\ \A i, j \in 1 .. Len(dirs) : i < j => dirs[i] # dirs[j] /\ ~ Below(dirs[i], dirs[j])

\* What is modified will be dumped.
CoverInv ==
    pc \in {"collect", "dump"} =>
        \A q \in Paths : mem[q].modified => Occurs(dirs, q) \/ Covers(todumps, q)

\* The root is dumped last.
PhaseInv ==
    /\ pc \in {"idle", "down", "truncate", "write"} => dirs = <<>>
    /\ pc \in {"idle", "down", "dump", "truncate", "write"} => todumps = <<>>
    /\ pc = "collect" => mem[Root].modified
    /\ pc = "dump" /\ dirs # <<>> => mem[Root].modified
    /\ pc \in {"truncate", "write"} => ~ mem[Root].modified

CommitInv ==
    /\ todumps \in Seq(Paths) /\ dirs \in Seq(Paths)
    /\ StackInv /\ DirsInv /\ CoverInv /\ PhaseInv

RefInv == pc = "idle" /\ ~ mem[Root].modified /\ ~ refFailed => rootRef = mem[Root].hash

RepoInv ==
    /\ DiskInv /\ MemInv /\ CommitInv /\ RefInv
    /\ refFailed \in BOOLEAN /\ nEvents \in 0 .. MaxEvents

-----------------------------------------------------------------------------
(* Objects.                                                                *)

LEMMA DirAtParts ==
    ASSUME NEW h, NEW d \in Nat, NEW K, DirAt(h, d, K)
    PROVE  /\ h = Hash("DIR", [n \in Names |-> h.ents[n]], 0)
           /\ h \in K
           /\ \A n \in Names :
                /\ DentryOK(h.ents[n], K)
                /\ d = Depth => h.ents[n] = NoDentry
                /\ h.ents[n].kind = "dir" => DirAt(h.ents[n].hash, d + 1, K)
<1>1. PICK R : <<h, d>> \in R /\ \A x \in R : ObjAt(x[1], x[2], R, K)
  BY DEF DirAt
<1>2. ObjAt(h, d, R, K)
  <2>1. ObjAt(<<h, d>>[1], <<h, d>>[2], R, K)
    BY <1>1
  <2>. QED  BY <2>1
<1>3. ASSUME NEW n \in Names, h.ents[n].kind = "dir" PROVE DirAt(h.ents[n].hash, d + 1, K)
  <2>1. <<h.ents[n].hash, d + 1>> \in R
    BY <1>2, <1>3 DEF ObjAt
  <2>. QED  BY <1>1, <2>1 DEF DirAt
<1>4. /\ h = Hash("DIR", [n \in Names |-> h.ents[n]], 0)
      /\ h \in K
      /\ \A n \in Names : DentryOK(h.ents[n], K) /\ (d = Depth => h.ents[n] = NoDentry)
  BY <1>2 DEF ObjAt
<1>. QED  BY <1>3, <1>4

LEMMA DirAtMade ==
    ASSUME NEW h, NEW d \in Nat, NEW K,
           h = Hash("DIR", [n \in Names |-> h.ents[n]], 0), h \in K,
           \A n \in Names :
                /\ DentryOK(h.ents[n], K)
                /\ d = Depth => h.ents[n] = NoDentry
                /\ h.ents[n].kind = "dir" => DirAt(h.ents[n].hash, d + 1, K)
    PROVE  DirAt(h, d, K)
<1> DEFINE Good(n, R) == <<h.ents[n].hash, d + 1>> \in R /\ \A x \in R : ObjAt(x[1], x[2], R, K)
           D == {n \in Names : h.ents[n].kind = "dir"}
           S(n) == CHOOSE R : Good(n, R)
           R == {<<h, d>>} \cup UNION {S(n) : n \in D}
<1>1. ASSUME NEW n \in D PROVE Good(n, S(n))
  <2>1. DirAt(h.ents[n].hash, d + 1, K)
    OBVIOUS
  <2>2. \E Q : Good(n, Q)
    BY <2>1 DEF DirAt
  <2> HIDE DEF Good
  <2>. QED  BY <2>2
<1>2. ASSUME NEW g, NEW e, NEW Q, Q \subseteq R, ObjAt(g, e, Q, K) PROVE ObjAt(g, e, R, K)
  <2> HIDE DEF R
  <2>. QED  BY <1>2 DEF ObjAt
<1>3. ObjAt(h, d, R, K)
  <2>1. ASSUME NEW n \in Names, h.ents[n].kind = "dir" PROVE <<h.ents[n].hash, d + 1>> \in R
    <3>1. n \in D
      BY <2>1
    <3> HIDE DEF D
    <3>2. <<h.ents[n].hash, d + 1>> \in S(n)
      BY <1>1, <3>1
    <3> HIDE DEF S, Good
    <3>. QED  BY <3>1, <3>2
  <2> HIDE DEF R
  <2>. QED  BY <2>1 DEF ObjAt
<1>4. ASSUME NEW x \in R PROVE ObjAt(x[1], x[2], R, K)
  <2>1. CASE x = <<h, d>>
    <3>1. x[1] = h /\ x[2] = d
      BY <2>1
    <3> HIDE DEF R
    <3>. QED  BY <1>3, <3>1
  <2>2. CASE x # <<h, d>>
    <3> HIDE DEF S, D
    <3>1. PICK n \in D : x \in S(n)
      BY <2>2
    <3>2. S(n) \subseteq R
      OBVIOUS
    <3>3. ObjAt(x[1], x[2], S(n), K)
      BY <1>1, <3>1
    <3> HIDE DEF R, Good
    <3>. QED  BY <1>2, <3>2, <3>3
  <2>. QED  BY <2>1, <2>2
<1>5. <<h, d>> \in R
  OBVIOUS
<1> HIDE DEF R
<1>. QED  BY <1>4, <1>5 DEF DirAt

LEMMA DirAtData ==
    ASSUME NEW h, NEW d \in Nat, NEW K, DirAt(h, d, K)
    PROVE  h.type = "DIR" /\ h.data = 0
<1>1. h = Hash("DIR", [n \in Names |-> h.ents[n]], 0)
  BY DirAtParts
<1>. QED  BY <1>1 DEF Hash

LEMMA DirAtGrows ==
    ASSUME NEW h, NEW d, NEW K, NEW L, K \subseteq L, DirAt(h, d, K)
    PROVE  DirAt(h, d, L)
<1>1. PICK R : <<h, d>> \in R /\ \A x \in R : ObjAt(x[1], x[2], R, K)
  BY DEF DirAt
<1>2. ASSUME NEW g, NEW e, ObjAt(g, e, R, K) PROVE ObjAt(g, e, R, L)
  BY <1>2 DEF ObjAt, DentryOK
<1>3. \A x \in R : ObjAt(x[1], x[2], R, L)
  BY <1>1, <1>2
<1>. QED  BY <1>1, <1>3 DEF DirAt

-----------------------------------------------------------------------------
(* Trees.                                                                  *)

LEMMA TreeParts ==
    ASSUME NEW m, NEW K, TreeOK(m, K)
    PROVE  /\ m = [p \in Paths |-> m[p]]
           /\ Is(m, Root, "dir")
           /\ \A p \in Paths : EntryOK(m[p], K)
           /\ \A p, q \in Paths : Below(q, p) /\ lookup(m, q) => Is(m, p, "dir") /\ m[p].loaded
           /\ \A p, q \in Paths : Below(q, p) /\ m[q].modified => m[p].modified
           /\ \A p \in Paths : Is(m, p, "dir") /\ ~ m[p].modified =>
                /\ DirAt(m[p].hash, Len(p), K)
                /\ m[p].loaded => m[p].hash = DirObj(m, p)
BY DEF TreeOK

LEMMA EntryFields ==
    ASSUME NEW k, NEW h, NEW f, NEW l
    PROVE  /\ Entry(k, h, f, l).kind = k /\ Entry(k, h, f, l).hash = h
           /\ Entry(k, h, f, l).modified = f /\ Entry(k, h, f, l).loaded = l
BY DEF Entry

LEMMA EntryMarked ==
    ASSUME NEW k, NEW h, NEW f, NEW l, NEW v
    PROVE  [Entry(k, h, f, l) EXCEPT !.modified = v] = Entry(k, h, v, l)
<1> DEFINE D == {"kind", "hash", "modified", "loaded"}
<1>1. PICK x : x = Entry(k, h, f, l)
  OBVIOUS
<1>2. PICK y : y = Entry(k, h, v, l)
  OBVIOUS
<1>3. PICK z : z = [x EXCEPT !.modified = v]
  OBVIOUS
<1>4. \A i \in D : z[i] = y[i]
  BY <1>1, <1>2, <1>3 DEF Entry
<1>5. z = [i \in D |-> z[i]]
  BY <1>1, <1>3 DEF Entry
<1>6. y = [i \in D |-> y[i]]
  BY <1>2 DEF Entry
<1>. QED  BY <1>1, <1>2, <1>3, <1>4, <1>5, <1>6

LEMMA EntrySet ==
    ASSUME NEW e, e = Entry(e.kind, e.hash, e.modified, e.loaded)
    PROVE  /\ [e EXCEPT !.modified = TRUE] = Entry(e.kind, e.hash, TRUE, e.loaded)
           /\ [e EXCEPT !.modified = FALSE] = Entry(e.kind, e.hash, FALSE, e.loaded)
<1>1. PICK v, u : v = TRUE /\ u = FALSE
  OBVIOUS
<1>2. PICK k, h, f, l : e = Entry(k, h, f, l) /\ k = e.kind /\ h = e.hash /\ f = e.modified /\ l = e.loaded
  OBVIOUS
<1>3. [Entry(k, h, f, l) EXCEPT !.modified = v] = Entry(k, h, v, l)
  BY EntryMarked
<1>4. [Entry(k, h, f, l) EXCEPT !.modified = u] = Entry(k, h, u, l)
  BY EntryMarked
<1>. QED  BY <1>1, <1>2, <1>3, <1>4

LEMMA HashFields ==
    ASSUME NEW t, NEW e, NEW d
    PROVE  Hash(t, e, d).type = t /\ Hash(t, e, d).ents = e /\ Hash(t, e, d).data = d
BY DEF Hash

LEMMA DentryFields ==
    ASSUME NEW k, NEW h
    PROVE  Dentry(k, h).kind = k /\ Dentry(k, h).hash = h
BY DEF Dentry

LEMMA NoneFields ==
    /\ None.kind = "none" /\ None.hash = NoHash /\ None.modified = FALSE /\ None.loaded = FALSE
    /\ NoHash.type = "INVALID" /\ NoHash.data = 0 /\ NoDentry.kind = "none" /\ NoDentry.hash = NoHash
<1>1. /\ None = [kind |-> "none", hash |-> NoHash, modified |-> FALSE, loaded |-> FALSE]
      /\ NoDentry = [kind |-> "none", hash |-> NoHash]
  BY DEF None, Entry, NoDentry, Dentry
<1>2. NoHash.type = "INVALID" /\ NoHash.data = 0
  BY DEF NoHash, Hash
<1>. QED  BY <1>1, <1>2

LEMMA NoneOK == \A K : EntryOK(None, K)
<1>1. None = Entry(None.kind, None.hash, None.modified, None.loaded)
  BY NoneFields DEF None
<1>2. NoHash.type # "DIR"
  BY NoneFields
<1>. QED  BY <1>1, <1>2, NoneFields DEF EntryOK, Kinds

LEMMA TreeGrows ==
    ASSUME NEW m, NEW K, NEW L, K \subseteq L, TreeOK(m, K)
    PROVE  TreeOK(m, L)
<1>1. \A p \in Paths : EntryOK(m[p], L)
  BY TreeParts DEF EntryOK
<1>2. \A p \in Paths : Is(m, p, "dir") /\ ~ m[p].modified => DirAt(m[p].hash, Len(p), L)
  BY TreeParts, DirAtGrows
<1>. QED  BY <1>1, <1>2, TreeParts DEF TreeOK

\* The entry of name n in the object of p.
DentryOf(m, p, n) ==
    IF Len(p) = Depth \/ m[Child(p, n)].kind \in {"none", "removed"} THEN NoDentry
    ELSE Dentry(m[Child(p, n)].kind,
                IF m[Child(p, n)].kind \in {"local", "nonexistent"} THEN NoHash ELSE m[Child(p, n)].hash)

LEMMA DirObjIs ==
    ASSUME NEW m, NEW p
    PROVE  /\ DirObj(m, p) = Hash("DIR", [n \in Names |-> DentryOf(m, p, n)], 0)
           /\ DirObj(m, p).type = "DIR"
           /\ \A n \in Names : DirObj(m, p).ents[n] = DentryOf(m, p, n)
<1>1. DirObj(m, p) = Hash("DIR", [n \in Names |-> DentryOf(m, p, n)], 0)
  BY DEF DirObj, DentryOf, Child
<1>. QED  BY <1>1, HashFields

LEMMA DirObjSame ==
    ASSUME NEW m, NEW w, NEW p \in Paths,
           \A n \in Names : Len(p) # Depth =>
                m[Child(p, n)].kind = w[Child(p, n)].kind /\ m[Child(p, n)].hash = w[Child(p, n)].hash
    PROVE  DirObj(m, p) = DirObj(w, p)
<1>1. \A n \in Names : DentryOf(m, p, n) = DentryOf(w, p, n)
  BY DEF DentryOf
<1>2. [n \in Names |-> DentryOf(m, p, n)] = [n \in Names |-> DentryOf(w, p, n)]
  BY <1>1
<1>3. /\ DirObj(m, p) = Hash("DIR", [n \in Names |-> DentryOf(m, p, n)], 0)
      /\ DirObj(w, p) = Hash("DIR", [n \in Names |-> DentryOf(w, p, n)], 0)
  BY DirObjIs
<1>. QED  BY <1>2, <1>3

\* The object of a directory none of whose children is modified.
LEMMA DirObjStored ==
    ASSUME NEW m, NEW K, TreeOK(m, K), NEW p \in Paths, NEW L, K \subseteq L, DirObj(m, p) \in L,
           \A q \in Paths : Below(q, p) => ~ m[q].modified
    PROVE  DirAt(DirObj(m, p), Len(p), L)
<1>1. PICK h : h = DirObj(m, p)
  OBVIOUS
<1>2. Len(p) \in Nat
  BY PathLen
<1>3. h = Hash("DIR", [n \in Names |-> h.ents[n]], 0)
  <2>1. \A n \in Names : h.ents[n] = DentryOf(m, p, n)
    BY <1>1, DirObjIs
  <2>2. [n \in Names |-> h.ents[n]] = [n \in Names |-> DentryOf(m, p, n)]
    BY <2>1
  <2>. QED  BY <1>1, <2>2, DirObjIs
<1>4. ASSUME NEW n \in Names
      PROVE  /\ DentryOK(h.ents[n], L)
             /\ Len(p) = Depth => h.ents[n] = NoDentry
             /\ h.ents[n].kind = "dir" => DirAt(h.ents[n].hash, Len(p) + 1, L)
  <2>1. h.ents[n] = DentryOf(m, p, n)
    BY <1>1, DirObjIs
  <2>2. CASE h.ents[n] = NoDentry
    BY <2>2, NoneFields DEF DentryOK, NoDentry, Kinds
  <2>3. CASE h.ents[n] # NoDentry
    <3>1. Len(p) # Depth /\ m[Child(p, n)].kind \notin {"none", "removed"}
      BY <2>1, <2>3 DEF DentryOf
    <3>2. PICK c \in Paths : c = Child(p, n) /\ Below(c, p) /\ Len(c) = Len(p) + 1
      BY <3>1, ChildPath
    <3>3. EntryOK(m[c], K) /\ ~ m[c].modified
      BY <3>2, TreeParts
    <3>4. h.ents[n] = Dentry(m[c].kind, IF m[c].kind \in {"local", "nonexistent"} THEN NoHash ELSE m[c].hash)
      BY <2>1, <3>1, <3>2 DEF DentryOf
    <3>5. DentryOK(h.ents[n], L)
      BY <3>1, <3>2, <3>3, <3>4, DentryFields, NoneFields DEF DentryOK, EntryOK
    <3>6. ASSUME h.ents[n].kind = "dir" PROVE DirAt(h.ents[n].hash, Len(p) + 1, L)
      <4>1. m[c].kind = "dir" /\ h.ents[n].hash = m[c].hash
        BY <3>4, <3>6, DentryFields
      <4>2. DirAt(m[c].hash, Len(c), K)
        BY <3>3, <4>1, TreeParts DEF Is
      <4>. QED  BY <3>2, <4>1, <4>2, DirAtGrows
    <3>. QED  BY <3>1, <3>5, <3>6
  <2>. QED  BY <2>2, <2>3
<1>. QED  BY <1>1, <1>2, <1>3, <1>4, DirAtMade

-----------------------------------------------------------------------------
(* A tree after an edit of entry p: whatever was below p is gone, and all  *)
(* that is above it is modified.                                           *)

Edited(m, p, e) ==
    [q \in Paths |->
        IF q = p THEN e
        ELSE IF Below(q, p) THEN None
        ELSE IF Below(p, q) THEN [m[q] EXCEPT !.modified = TRUE]
        ELSE m[q]]

LEMMA EditedTree ==
    ASSUME NEW m, NEW K, TreeOK(m, K), NEW p \in Paths, p # Root, NEW e,
           EntryOK(e, K), e.kind = "dir" => e.modified,
           Is(m, Parent(p), "dir"), m[Parent(p)].loaded
    PROVE  TreeOK(Edited(m, p, e), K) /\ Edited(m, p, e)[Root].modified
<1>1. PICK w : w = Edited(m, p, e)
  OBVIOUS
<1>2. /\ w = [q \in Paths |-> w[q]] /\ w[p] = e
      /\ \A q \in Paths : Below(q, p) => w[q] = None
      /\ \A q \in Paths : Below(p, q) => w[q] = [m[q] EXCEPT !.modified = TRUE]
      /\ \A q \in Paths : q # p /\ ~ Below(q, p) /\ ~ Below(p, q) => w[q] = m[q]
  BY <1>1, BelowOther DEF Edited
<1>3. ASSUME NEW q \in Paths, Below(p, q)
      PROVE  /\ m[q].kind = "dir" /\ m[q].loaded
             /\ w[q] = Entry("dir", m[q].hash, TRUE, TRUE)
             /\ w[q].kind = "dir" /\ w[q].hash = m[q].hash /\ m[q].hash.data = 0
             /\ w[q].modified = TRUE /\ w[q].loaded = TRUE
  <2>1. m[q].kind = "dir" /\ m[q].loaded
    <3>1. q = Parent(p) \/ Below(Parent(p), q)
      BY <1>3, ParentPath
    <3>2. lookup(m, Parent(p)) /\ Parent(p) \in Paths
      BY ParentPath DEF lookup, Is
    <3>. QED  BY <3>1, <3>2, TreeParts DEF Is
  <2>2. EntryOK(m[q], K)
    BY TreeParts
  <2>3. w[q] = Entry("dir", m[q].hash, TRUE, TRUE)
    BY <1>2, <1>3, <2>1, <2>2 DEF EntryOK, Entry
  <2>4. w[q].kind = "dir" /\ w[q].hash = m[q].hash
    BY <2>3 DEF Entry
  <2>5. w[q].modified = TRUE /\ w[q].loaded = TRUE
    BY <2>3 DEF Entry
  <2>6. m[q].hash.data = 0
    BY <2>1, <2>2 DEF EntryOK
  <2>. QED  BY <2>1, <2>3, <2>4, <2>5, <2>6
<1>4. w[Root].kind = "dir" /\ w[Root].modified
  <2>1. Below(p, Root) /\ Root \in Paths
    BY RootPath, BelowRoot
  <2>. QED  BY <1>3, <2>1
<1>5. ASSUME NEW q \in Paths PROVE EntryOK(w[q], K)
  <2>1. CASE q = p
    BY <1>2, <2>1
  <2>2. CASE Below(q, p)
    BY <1>2, <2>2, NoneOK
  <2>3. CASE Below(p, q)
    BY <1>3, <2>3 DEF EntryOK, Kinds
  <2>4. CASE q # p /\ ~ Below(q, p) /\ ~ Below(p, q)
    BY <1>2, <2>4, TreeParts
  <2>. QED  BY <2>1, <2>2, <2>3, <2>4
<1>6. ASSUME NEW r \in Paths, NEW q \in Paths, Below(q, r)
      PROVE  /\ lookup(w, q) => Is(w, r, "dir") /\ w[r].loaded
             /\ w[q].modified => w[r].modified
  <2>1. CASE Below(q, p)
    BY <1>2, <2>1, NoneFields DEF lookup
  <2>2. CASE Below(p, r)
    BY <1>3, <2>2 DEF Is
  <2>3. CASE ~ Below(q, p) /\ ~ Below(p, r)
    <3>1. q # p
      BY <1>6, <2>3
    <3>2. r # p /\ ~ Below(r, p)
      BY <1>6, <2>3, BelowTrans
    <3>3. w[r] = m[r]
      BY <1>2, <2>3, <3>2
    <3>4. ~ Below(p, q)
      BY <1>6, <2>3, BelowTrans
    <3>5. w[q] = m[q]
      BY <1>2, <2>3, <3>1, <3>4
    <3>. QED  BY <1>6, <3>3, <3>5, TreeParts DEF lookup, Is
  <2>. QED  BY <2>1, <2>2, <2>3
<1>7. ASSUME NEW r \in Paths, Is(w, r, "dir"), ~ w[r].modified
      PROVE  DirAt(w[r].hash, Len(r), K) /\ (w[r].loaded => w[r].hash = DirObj(w, r))
  <2>1. r # p /\ ~ Below(r, p) /\ ~ Below(p, r)
    BY <1>2, <1>3, <1>7, NoneFields DEF Is
  <2>2. w[r] = m[r]
    BY <1>2, <2>1
  <2>3. DirObj(w, r) = DirObj(m, r)
    <3>1. ASSUME NEW n \in Names, Len(r) # Depth PROVE w[Child(r, n)] = m[Child(r, n)]
      <4>1. PICK c \in Paths : c = Child(r, n) /\ Below(c, r)
        BY <3>1, ChildPath
      <4>2. c # p /\ ~ Below(p, c)
        BY <2>1, <4>1, BelowTrans
      <4>3. ~ Below(c, p)
        BY <2>1, <4>1, BelowChain
      <4>. QED  BY <1>2, <4>1, <4>2, <4>3
    <3>. QED  BY <3>1, DirObjSame
  <2>. QED  BY <1>7, <2>2, <2>3, TreeParts DEF Is
<1>8. TreeOK(w, K)
  BY <1>2, <1>4, <1>5, <1>6, <1>7 DEF TreeOK, Is
<1>. QED  BY <1>1, <1>4, <1>8

-----------------------------------------------------------------------------
(* A tree after entry p, which was modified, has got a hash.               *)

Rehashed(m, p, h, f) ==
    [q \in Paths |-> IF q = p THEN Entry(m[p].kind, h, f, m[p].loaded) ELSE m[q]]

LEMMA RehashedTree ==
    ASSUME NEW m, NEW K, TreeOK(m, K), NEW p \in Paths, m[p].modified, NEW h, NEW f \in BOOLEAN,
           m[p].kind # "dir" => h.type # "DIR", m[p].kind = "dir" => h.data = 0,
           m[p].kind = "symlink" => h \in K,
           ~ f => \A q \in Paths : Below(q, p) => ~ m[q].modified,
           ~ f /\ m[p].kind = "dir" => h = DirObj(m, p) /\ DirAt(h, Len(p), K)
    PROVE  TreeOK(Rehashed(m, p, h, f), K)
<1>1. PICK w : w = Rehashed(m, p, h, f)
  OBVIOUS
<1>2. /\ w = [q \in Paths |-> w[q]] /\ w[p] = Entry(m[p].kind, h, f, m[p].loaded)
      /\ \A q \in Paths : q # p => w[q] = m[q]
  BY <1>1 DEF Rehashed
<1>3. w[p].kind = m[p].kind /\ w[p].hash = h /\ w[p].modified = f /\ w[p].loaded = m[p].loaded
  BY <1>2 DEF Entry
<1>4. \A q \in Paths : w[q].kind = m[q].kind /\ w[q].loaded = m[q].loaded
  BY <1>2, <1>3
<1>5. EntryOK(m[p], K) /\ m[p].kind \in {"file", "symlink", "dir"}
  BY TreeParts DEF EntryOK
<1>6. EntryOK(w[p], K)
  <2>1. w[p] = Entry(w[p].kind, w[p].hash, w[p].modified, w[p].loaded)
    BY <1>2, <1>3
  <2>2. w[p].kind \in Kinds /\ w[p].modified \in BOOLEAN /\ w[p].loaded \in BOOLEAN
    BY <1>3, <1>5 DEF EntryOK
  <2>3. w[p].kind # "none" /\ w[p].kind \in {"file", "symlink", "dir"}
    BY <1>3, <1>5
  <2>4. /\ IF w[p].kind = "dir" THEN w[p].hash.data = 0 ELSE w[p].hash.type # "DIR"
        /\ w[p].kind = "symlink" => w[p].hash \in K
    BY <1>3
  <2>5. w[p].kind = "dir" => w[p].loaded
    BY <1>3, <1>5 DEF EntryOK
  <2>. QED  BY <2>1, <2>2, <2>3, <2>4, <2>5 DEF EntryOK
<1>7. \A q \in Paths : EntryOK(w[q], K)
  BY <1>2, <1>6, TreeParts
<1>8. ASSUME NEW r \in Paths, NEW q \in Paths, Below(q, r)
      PROVE  /\ lookup(w, q) => Is(w, r, "dir") /\ w[r].loaded
             /\ w[q].modified => w[r].modified
  <2>1. lookup(w, q) => Is(w, r, "dir") /\ w[r].loaded
    BY <1>4, <1>8, TreeParts DEF lookup, Is
  <2>2. CASE r = p
    <3>1. q # p /\ w[q] = m[q]
      BY <1>2, <1>8, <2>2, BelowOther
    <3>. QED  BY <1>3, <1>8, <2>1, <2>2, <3>1
  <2>3. CASE r # p
    BY <1>2, <1>3, <1>8, <2>1, <2>3, TreeParts
  <2>. QED  BY <2>2, <2>3
<1>9. ASSUME NEW r \in Paths, Is(w, r, "dir"), ~ w[r].modified
      PROVE  DirAt(w[r].hash, Len(r), K) /\ (w[r].loaded => w[r].hash = DirObj(w, r))
  <2>1. ~ Below(p, r)
    <3>1. ASSUME Below(p, r) PROVE FALSE
      <4>1. m[r].modified /\ r # p
        BY <3>1, TreeParts, BelowOther
      <4>. QED  BY <1>2, <1>9, <4>1
    <3>. QED  BY <3>1
  <2>2. DirObj(w, r) = DirObj(m, r)
    <3>1. ASSUME NEW n \in Names, Len(r) # Depth PROVE w[Child(r, n)] = m[Child(r, n)]
      <4>1. PICK c \in Paths : c = Child(r, n) /\ Below(c, r)
        BY <3>1, ChildPath
      <4>2. c # p
        BY <2>1, <4>1
      <4>. QED  BY <1>2, <4>1, <4>2
    <3>. QED  BY <3>1, DirObjSame
  <2>3. CASE r = p
    BY <1>3, <1>9, <2>2, <2>3 DEF Is
  <2>4. CASE r # p
    BY <1>2, <1>9, <2>2, <2>4, TreeParts DEF Is
  <2>. QED  BY <2>3, <2>4
<1>10. Is(w, Root, "dir")
  BY <1>4, RootPath, TreeParts DEF Is
<1>. QED  BY <1>1, <1>2, <1>7, <1>8, <1>9, <1>10 DEF TreeOK

-----------------------------------------------------------------------------
(* A tree after a directory has been read.                                 *)

LEMMA LoadIs ==
    ASSUME NEW m, NEW K, TreeOK(m, K), NEW p \in Paths, NeedsLoad(m, p)
    PROVE  /\ load(m, p) = [q \in Paths |-> load(m, p)[q]]
           /\ load(m, p)[p] = Entry("dir", m[p].hash, FALSE, TRUE)
           /\ \A n \in Names : Len(p) # Depth =>
                load(m, p)[Child(p, n)] = Entry(m[p].hash.ents[n].kind, m[p].hash.ents[n].hash, FALSE, FALSE)
           /\ \A q \in Paths : Below(q, p) /\ Len(q) # Len(p) + 1 => load(m, p)[q] = None
           /\ \A q \in Paths : q # p /\ ~ Below(q, p) => load(m, p)[q] = m[q]
<1>1. Is(m, p, "dir") /\ ~ m[p].loaded /\ ~ m[p].modified /\ EntryOK(m[p], K)
  BY TreeParts DEF NeedsLoad, Is, EntryOK
<1>2. DirAt(m[p].hash, Len(p), K) /\ Len(p) \in Nat
  BY <1>1, TreeParts, PathLen
<1>3. \A n \in Names : DentryOK(m[p].hash.ents[n], K)
  BY <1>2, DirAtParts
<1>4. ASSUME NEW q \in Paths, Below(q, p) PROVE m[q] = None
  <2>1. ~ lookup(m, q)
    BY <1>1, <1>4, TreeParts
  <2>. QED  BY <2>1, TreeParts DEF lookup, EntryOK
<1> DEFINE ents == m[p].hash.ents
           Reread(q) == Below(q, p) /\ ents[q[Len(p) + 1]].kind # "none"
           FromDentry(d) == Entry(d.kind, d.hash, FALSE, FALSE)
           L == [q \in Paths |->
                    IF q = p THEN [m[p] EXCEPT !.modified = FALSE, !.loaded = TRUE]
                    ELSE IF ~ Reread(q) THEN m[q]
                    ELSE IF Len(q) = Len(p) + 1 THEN FromDentry(ents[q[Len(q)]]) ELSE None]
<1>5. load(m, p) = L
  BY DEF load
<1>6. L[p] = Entry("dir", m[p].hash, FALSE, TRUE)
  BY <1>1 DEF EntryOK, Entry, Is
<1>7. ASSUME NEW n \in Names, Len(p) # Depth PROVE L[Child(p, n)] = Entry(ents[n].kind, ents[n].hash, FALSE, FALSE)
  <2>1. PICK c \in Paths : /\ c = Child(p, n) /\ Below(c, p) /\ Len(c) = Len(p) + 1
                           /\ c[Len(p) + 1] = n
    BY <1>7, ChildPath
  <2>2. c # p /\ c[Len(c)] = n
    BY <2>1, BelowOther
  <2>3. CASE ents[n].kind # "none"
    <3> HIDE DEF ents
    <3>. QED  BY <2>1, <2>2, <2>3
  <2>4. CASE ents[n].kind = "none"
    <3>1. L[c] = None
      <4>1. m[c] = None
        BY <1>4, <2>1
      <4>. QED  BY <2>1, <2>2, <2>4, <4>1
    <3>2. ents[n].hash = NoHash
      BY <1>3, <2>4 DEF DentryOK
    <3>. QED  BY <2>1, <2>4, <3>1, <3>2 DEF None
  <2>. QED  BY <2>3, <2>4
<1>8. ASSUME NEW q \in Paths, Below(q, p), Len(q) # Len(p) + 1 PROVE L[q] = None
  BY <1>4, <1>8, BelowOther
<1>9. ASSUME NEW q \in Paths, q # p, ~ Below(q, p) PROVE L[q] = m[q]
  BY <1>9
<1>10. L = [q \in Paths |-> L[q]]
  OBVIOUS
<1> HIDE DEF L
<1>. QED  BY <1>5, <1>6, <1>7, <1>8, <1>9, <1>10

LEMMA LoadedTree ==
    ASSUME NEW m, NEW K, TreeOK(m, K), NEW p \in Paths, NeedsLoad(m, p)
    PROVE  /\ TreeOK(load(m, p), K)
           /\ load(m, p)[Root].hash = m[Root].hash
           /\ load(m, p)[Root].modified = m[Root].modified
<1>1. PICK w : w = load(m, p)
  OBVIOUS
<1>2. PICK h : h = m[p].hash
  OBVIOUS
<1>3. /\ w = [q \in Paths |-> w[q]]
      /\ w[p] = Entry("dir", h, FALSE, TRUE)
      /\ \A n \in Names : Len(p) # Depth =>
            w[Child(p, n)] = Entry(h.ents[n].kind, h.ents[n].hash, FALSE, FALSE)
      /\ \A q \in Paths : Below(q, p) /\ Len(q) # Len(p) + 1 => w[q] = None
      /\ \A q \in Paths : q # p /\ ~ Below(q, p) => w[q] = m[q]
  BY <1>1, <1>2, LoadIs
<1>4. Is(m, p, "dir") /\ ~ m[p].loaded /\ m[p].modified = FALSE
  BY TreeParts DEF NeedsLoad, Is, EntryOK
<1>5. DirAt(h, Len(p), K) /\ Len(p) \in Nat
  BY <1>2, <1>4, TreeParts, PathLen
<1>6. /\ h = Hash("DIR", [n \in Names |-> h.ents[n]], 0)
      /\ \A n \in Names :
            /\ DentryOK(h.ents[n], K)
            /\ Len(p) = Depth => h.ents[n] = NoDentry
            /\ h.ents[n].kind = "dir" => DirAt(h.ents[n].hash, Len(p) + 1, K)
  BY <1>5, DirAtParts
<1>7. w[p].kind = "dir" /\ w[p].hash = h /\ w[p].modified = FALSE /\ w[p].loaded = TRUE
  BY <1>3 DEF Entry
\* what is below p: a child as the object has it, or nothing
<1>8. ASSUME NEW q \in Paths, Below(q, p)
      PROVE  /\ EntryOK(w[q], K) /\ w[q].modified = FALSE /\ w[q].loaded = FALSE
             /\ w[q].kind # "none" => Len(q) = Len(p) + 1
             /\ w[q].kind = "dir" => DirAt(w[q].hash, Len(q), K)
  <2>1. CASE Len(q) # Len(p) + 1
    <3>1. w[q] = None
      BY <1>3, <1>8, <2>1
    <3>. QED  BY <3>1, NoneFields, NoneOK
  <2>2. CASE Len(q) = Len(p) + 1
    <3>1. PICK n \in Names : Len(p) # Depth /\ q = Child(p, n)
      BY <1>8, <2>2, ChildAbove
    <3>2. w[q] = Entry(h.ents[n].kind, h.ents[n].hash, FALSE, FALSE)
      BY <1>3, <3>1
    <3>3. /\ w[q].kind = h.ents[n].kind /\ w[q].hash = h.ents[n].hash
          /\ w[q].modified = FALSE /\ w[q].loaded = FALSE
      BY <3>2 DEF Entry
    <3>4. DentryOK(h.ents[n], K)
      BY <1>6
    <3>5. EntryOK(w[q], K)
      <4>1. w[q] = Entry(w[q].kind, w[q].hash, w[q].modified, w[q].loaded)
        BY <3>2, <3>3
      <4>2. w[q].kind \in Kinds /\ (w[q].kind = "none" => w[q] = None)
        BY <3>2, <3>3, <3>4 DEF DentryOK, None
      <4>3. (w[q].kind # "dir" => w[q].hash.type # "DIR") /\ (w[q].kind = "symlink" => w[q].hash \in K)
        BY <3>3, <3>4 DEF DentryOK
      <4>4. w[q].kind \in {"local", "nonexistent"} => w[q].hash = NoHash
        BY <3>3, <3>4 DEF DentryOK
      <4>5. w[q].kind = "dir" => w[q].hash.data = 0
        <5>1. Len(p) + 1 \in Nat
          BY <1>5
        <5>2. h.ents[n].kind = "dir" => DirAt(h.ents[n].hash, Len(p) + 1, K)
          BY <1>6
        <5>. QED  BY <3>3, <5>1, <5>2, DirAtData
      <4>. QED  BY <3>3, <4>1, <4>2, <4>3, <4>4, <4>5 DEF EntryOK
    <3>6. w[q].kind = "dir" => DirAt(w[q].hash, Len(q), K)
      BY <1>6, <2>2, <3>3
    <3>. QED  BY <2>2, <3>3, <3>5, <3>6
  <2>. QED  BY <2>1, <2>2
<1>9. EntryOK(w[p], K)
  <2>1. w[p] = Entry(w[p].kind, w[p].hash, w[p].modified, w[p].loaded)
    BY <1>3, <1>7
  <2>2. h.data = 0
    BY <1>5, DirAtData
  <2>. QED  BY <1>7, <2>1, <2>2 DEF EntryOK, Kinds
<1>10. \A q \in Paths : EntryOK(w[q], K)
  BY <1>3, <1>8, <1>9, TreeParts
<1>11. ASSUME NEW r \in Paths, NEW q \in Paths, Below(q, r)
       PROVE  /\ lookup(w, q) => Is(w, r, "dir") /\ w[r].loaded
              /\ w[q].modified => w[r].modified
  <2>1. CASE r = p
    BY <1>7, <1>8, <1>11, <2>1 DEF Is
  <2>2. CASE Below(r, p)
    <3>1. Below(q, p)
      BY <1>11, <2>2, BelowTrans
    <3>2. Len(q) # Len(p) + 1
      BY <1>11, <2>2, BelowMeans, PathLen
    <3>. QED  BY <1>8, <3>1, <3>2 DEF lookup
  <2>3. CASE r # p /\ ~ Below(r, p)
    <3>1. w[r] = m[r]
      BY <1>3, <2>3
    <3>2. CASE q # p /\ ~ Below(q, p)
      <4>1. w[q] = m[q]
        BY <1>3, <3>2
      <4>. QED  BY <1>11, <3>1, <4>1, TreeParts DEF lookup, Is
    <3>3. CASE q = p \/ Below(q, p)
      <4>1. Below(p, r)
        BY <1>11, <2>3, <3>3, BelowChain
      <4>2. Is(m, r, "dir") /\ m[r].loaded
        BY <1>4, <4>1, TreeParts DEF lookup, Is
      <4>3. w[q].modified = FALSE
        BY <1>7, <1>8, <3>3
      <4>. QED  BY <3>1, <4>2, <4>3 DEF Is
    <3>. QED  BY <3>2, <3>3
  <2>. QED  BY <2>1, <2>2, <2>3
<1>12. h = DirObj(w, p)
  <2>1. ASSUME NEW n \in Names PROVE h.ents[n] = DentryOf(w, p, n)
    <3>1. DentryOK(h.ents[n], K)
      BY <1>6
    <3>2. CASE Len(p) = Depth
      BY <1>6, <3>2 DEF DentryOf
    <3>3. CASE Len(p) # Depth
      <4>1. w[Child(p, n)] = Entry(h.ents[n].kind, h.ents[n].hash, FALSE, FALSE)
        BY <1>3, <3>3
      <4>2. w[Child(p, n)].kind = h.ents[n].kind /\ w[Child(p, n)].hash = h.ents[n].hash
        BY <4>1 DEF Entry
      <4>3. CASE h.ents[n].kind = "none"
        BY <3>1, <4>2, <4>3 DEF DentryOf, DentryOK, NoDentry
      <4>4. CASE h.ents[n].kind # "none"
        BY <3>1, <3>3, <4>2, <4>4 DEF DentryOf, DentryOK
      <4>. QED  BY <4>3, <4>4
    <3>. QED  BY <3>2, <3>3
  <2>2. [n \in Names |-> h.ents[n]] = [n \in Names |-> DentryOf(w, p, n)]
    BY <2>1
  <2>3. DirObj(w, p) = Hash("DIR", [n \in Names |-> DentryOf(w, p, n)], 0)
    BY DirObjIs
  <2>. QED  BY <1>6, <2>2, <2>3
<1>13. ASSUME NEW r \in Paths, Is(w, r, "dir"), ~ w[r].modified
       PROVE  DirAt(w[r].hash, Len(r), K) /\ (w[r].loaded => w[r].hash = DirObj(w, r))
  <2>1. CASE r = p
    BY <1>5, <1>7, <1>12, <2>1
  <2>2. CASE Below(r, p)
    BY <1>8, <1>13, <2>2 DEF Is
  <2>3. CASE r # p /\ ~ Below(r, p)
    <3>1. w[r] = m[r]
      BY <1>3, <2>3
    <3>2. ASSUME NEW n \in Names, Len(r) # Depth
          PROVE  /\ w[Child(r, n)].kind = m[Child(r, n)].kind
                 /\ w[Child(r, n)].hash = m[Child(r, n)].hash
      <4>1. PICK c \in Paths : c = Child(r, n) /\ Below(c, r) /\ Len(c) = Len(r) + 1
        BY <3>2, ChildPath
      <4>2. CASE c = p
        BY <1>2, <1>4, <1>7, <4>1, <4>2 DEF Is
      <4>3. CASE c # p
        <5>1. ~ Below(c, p)
          <6>1. ASSUME Below(c, p) PROVE FALSE
            <7>1. Below(p, r)
              BY <2>3, <4>1, <6>1, BelowChain
            <7>2. Len(p) > Len(r) /\ Len(c) > Len(p) /\ Len(r) \in Nat /\ Len(p) \in Nat
              BY <6>1, <7>1, BelowMeans, PathLen
            <7>. QED  BY <4>1, <7>2
          <6>. QED  BY <6>1
        <5>. QED  BY <1>3, <4>1, <4>3, <5>1
      <4>. QED  BY <4>2, <4>3
    <3>3. DirObj(w, r) = DirObj(m, r)
      BY <3>2, DirObjSame
    <3>. QED  BY <1>13, <3>1, <3>3, TreeParts DEF Is
  <2>. QED  BY <2>1, <2>2, <2>3
<1>14. w[Root].hash = m[Root].hash /\ w[Root].modified = m[Root].modified
  <2>1. ~ Below(Root, p)
    BY RootPath, BelowOther
  <2>2. CASE Root = p
    BY <1>2, <1>4, <1>7, <2>2
  <2>3. CASE Root # p
    BY <1>3, <2>1, <2>3, RootPath
  <2>. QED  BY <2>2, <2>3
<1>15. Is(w, Root, "dir")
  <2>1. ~ Below(Root, p)
    BY RootPath, BelowOther
  <2>. QED  BY <1>3, <1>7, <2>1, RootPath, TreeParts DEF Is
<1>16. TreeOK(w, K)
  BY <1>3, <1>10, <1>11, <1>13, <1>15 DEF TreeOK
<1>. QED  BY <1>1, <1>14, <1>16

-----------------------------------------------------------------------------
(* find.                                                                   *)

\* One step of find's way down.
Pass(m, p, i) ==
    IF NeedsLoad(m, Prefix(p, i - 1)) THEN load(m, Prefix(p, i - 1)) ELSE m

Walked(m, p, n, w) == w = [i \in 0 .. n |-> IF i = 0 THEN m ELSE Pass(w[i - 1], p, i)]

LEMMA WalkExists ==
    ASSUME NEW m, NEW p
    PROVE  \A n \in Nat : \E w : Walked(m, p, n, w)
<1> DEFINE S == {n \in Nat : \E w : Walked(m, p, n, w)}
<1>1. 0 \in S
  <2> DEFINE w == [i \in 0 .. 0 |-> m]
  <2>1. w = [i \in 0 .. 0 |-> IF i = 0 THEN m ELSE Pass(w[i - 1], p, i)]
    OBVIOUS
  <2> HIDE DEF w
  <2>. QED  BY <2>1 DEF Walked
<1>2. ASSUME NEW n \in Nat, n \in S PROVE n + 1 \in S
  <2>1. PICK w : Walked(m, p, n, w)
    BY <1>2
  <2> DEFINE u == [i \in 0 .. (n + 1) |-> IF i <= n THEN w[i] ELSE Pass(w[n], p, n + 1)]
  <2>2. ASSUME NEW i \in 0 .. (n + 1) PROVE u[i] = IF i = 0 THEN m ELSE Pass(u[i - 1], p, i)
    <3>1. CASE i = 0
      BY <2>1, <3>1 DEF Walked
    <3>2. CASE i \in 1 .. n
      <4>1. u[i] = w[i] /\ u[i - 1] = w[i - 1]
        BY <3>2
      <4>2. w[i] = Pass(w[i - 1], p, i)
        BY <2>1, <3>2 DEF Walked
      <4> HIDE DEF u
      <4>. QED  BY <3>2, <4>1, <4>2
    <3>3. CASE i = n + 1
      <4>1. u[i] = Pass(w[n], p, i) /\ u[i - 1] = w[n]
        BY <3>3
      <4> HIDE DEF u
      <4>. QED  BY <3>3, <4>1
    <3>. QED  BY <3>1, <3>2, <3>3
  <2>3. u = [i \in 0 .. (n + 1) |-> u[i]]
    OBVIOUS
  <2> HIDE DEF u
  <2>4. Walked(m, p, n + 1, u)
    BY <2>2, <2>3 DEF Walked
  <2>. QED  BY <2>4
<1>3. \A k \in Nat : k \in S
  <2> HIDE DEF S
  <2>. QED  BY <1>1, <1>2, Induction
<1>. QED  BY <1>3

LEMMA WalkIs ==
    ASSUME NEW m, NEW p \in Paths
    PROVE  walk(m, p)[0] = m /\ \A i \in 1 .. Len(p) : walk(m, p)[i] = Pass(walk(m, p)[i - 1], p, i)
<1>1. Len(p) \in Nat
  BY PathLen
<1> DEFINE T(w) == w = [i \in 0 .. Len(p) |->
                IF i = 0 THEN m
                ELSE IF NeedsLoad(w[i - 1], Prefix(p, i - 1)) THEN load(w[i - 1], Prefix(p, i - 1))
                ELSE w[i - 1]]
           u == CHOOSE w : T(w)
<1>2. \E w : T(w)
  <2>1. PICK w : Walked(m, p, Len(p), w)
    BY <1>1, WalkExists
  <2>2. T(w)
    BY <2>1 DEF Walked, Pass
  <2>. QED  BY <2>2
<1>3. T(u)
  <2> HIDE DEF T
  <2>. QED  BY <1>2
<1>4. walk(m, p) = u
  BY DEF walk
<1> HIDE DEF u
<1>. QED  BY <1>1, <1>3, <1>4 DEF Pass

LEMMA FoundTree ==
    ASSUME NEW m, NEW K, TreeOK(m, K), NEW p \in Paths
    PROVE  /\ TreeOK(find(m, p), K)
           /\ find(m, p)[Root].hash = m[Root].hash
           /\ find(m, p)[Root].modified = m[Root].modified
<1>1. PICK w : w = walk(m, p)
  OBVIOUS
<1>2. w[0] = m /\ \A i \in 1 .. Len(p) : w[i] = Pass(w[i - 1], p, i)
  BY <1>1, WalkIs
<1>3. Len(p) \in Nat
  BY PathLen
<1> DEFINE Good(x) == TreeOK(x, K) /\ x[Root].hash = m[Root].hash /\ x[Root].modified = m[Root].modified
           S == {i \in Nat : i <= Len(p) => Good(w[i])}
<1>4. 0 \in S
  BY <1>2
<1>5. ASSUME NEW i \in Nat, i \in S PROVE i + 1 \in S
  <2> SUFFICES ASSUME i + 1 <= Len(p) PROVE Good(w[i + 1])
    OBVIOUS
  <2>1. Good(w[i])
    BY <1>3, <1>5
  <2>2. w[i + 1] = Pass(w[i], p, i + 1)
    <3>1. i + 1 \in 1 .. Len(p) /\ (i + 1) - 1 = i
      BY <1>3
    <3>. QED  BY <1>2, <3>1
  <2>3. PICK q \in Paths : q = Prefix(p, i)
    BY <1>3, PrefixPath
  <2>4. w[i + 1] = IF NeedsLoad(w[i], q) THEN load(w[i], q) ELSE w[i]
    <3>1. (i + 1) - 1 = i
      OBVIOUS
    <3>. QED  BY <2>2, <2>3, <3>1 DEF Pass
  <2>5. CASE NeedsLoad(w[i], q)
    BY <2>1, <2>4, <2>5, LoadedTree
  <2>6. CASE ~ NeedsLoad(w[i], q)
    BY <2>1, <2>4, <2>6
  <2>. QED  BY <2>5, <2>6
<1>6. \A k \in Nat : k \in S
  <2> HIDE DEF S
  <2>. QED  BY <1>4, <1>5, Induction
<1>7. Good(w[Len(p)])
  BY <1>3, <1>6
<1>. QED  BY <1>1, <1>7 DEF find

-----------------------------------------------------------------------------
(* Parts of a step.                                                        *)

LEMMA InvParts ==
    ASSUME RepoInv
    PROVE  /\ DiskInv /\ MemInv /\ CommitInv /\ RefInv
           /\ StackInv /\ DirsInv /\ CoverInv /\ PhaseInv
           /\ todumps \in Seq(Paths) /\ dirs \in Seq(Paths)
           /\ refFailed \in BOOLEAN /\ nEvents \in 0 .. MaxEvents
BY DEF RepoInv, CommitInv

\* Commit has returned, or has not begun.
LEMMA IdleStep ==
    ASSUME pc' = "idle", todumps' = <<>>, dirs' = <<>>,
           TreeOK(mem', Known'), DiskInv', RefInv',
           refFailed' \in BOOLEAN, nEvents' \in 0 .. MaxEvents
    PROVE  RepoInv'
<1>1. MemInv'
  BY DEF MemInv, Committing, Aborts
<1>2. todumps' \in Seq(Paths) /\ dirs' \in Seq(Paths) /\ Len(todumps') = 0 /\ Len(dirs') = 0
  OBVIOUS
<1>3. CommitInv'
  BY <1>2 DEF CommitInv, StackInv, DirsInv, CoverInv, PhaseInv
<1>. QED  BY <1>1, <1>3 DEF RepoInv

LEMMA AbortStep ==
    ASSUME RepoInv, pc' \in Aborts, UNCHANGED <<mem, todumps, dirs, objects, cut, rootRef, unwritten, refFailed>>,
           nEvents' \in 0 .. MaxEvents
    PROVE  RepoInv'
<1>1. DiskInv'
  BY InvParts DEF DiskInv, Known
<1>2. MemInv'
  BY InvParts DEF MemInv, Known, Committing, Aborts
<1>3. CommitInv'
  <2>1. StackInv'
    BY InvParts DEF StackInv
  <2>2. DirsInv'
    BY InvParts DEF DirsInv, Is
  <2>3. CoverInv' /\ PhaseInv'
    BY DEF CoverInv, PhaseInv, Aborts
  <2>. QED  BY <2>1, <2>2, <2>3, InvParts DEF CommitInv
<1>4. RefInv'
  BY DEF RefInv, Aborts
<1>. QED  BY <1>1, <1>2, <1>3, <1>4, InvParts DEF RepoInv

LEMMA StoredDisk ==
    ASSUME RepoInv, NEW obj, obj # NoHash,
           objects' = IF obj \in cut THEN objects ELSE objects \cup {obj},
           UNCHANGED <<cut, rootRef, unwritten>>
    PROVE  DiskInv' /\ Known \subseteq Known' /\ obj \in Known'
<1>1. Known \subseteq Known' /\ obj \in Known'
  BY InvParts DEF Known, DiskInv
<1>2. rootRef' = NoHash \/ DirAt(rootRef', 0, Known')
  BY <1>1, InvParts, DirAtGrows DEF DiskInv
<1>3. objects' \cap cut' = {} /\ cut' \subseteq unwritten' /\ NoHash \notin objects'
  BY InvParts DEF DiskInv
<1>. QED  BY <1>1, <1>2, <1>3 DEF DiskInv

LEMMA FailedDisk ==
    ASSUME RepoInv, NEW obj, StoreFails(obj)
    PROVE  /\ DiskInv' /\ Known \subseteq Known' /\ obj \in Known'
           /\ nEvents' \in 0 .. MaxEvents /\ refFailed' \in BOOLEAN
<1>1. Known \subseteq Known' /\ obj \in Known'
  BY DEF Known, StoreFails
<1>2. rootRef' = NoHash \/ DirAt(rootRef', 0, Known')
  BY <1>1, InvParts, DirAtGrows DEF DiskInv, StoreFails
<1>3. objects' \cap cut' = {} /\ cut' \subseteq unwritten' /\ NoHash \notin objects'
  BY InvParts DEF DiskInv, StoreFails
<1>4. nEvents' \in 0 .. MaxEvents /\ refFailed' \in BOOLEAN
  BY InvParts, RepoAssumption DEF StoreFails
<1>. QED  BY <1>1, <1>2, <1>3, <1>4 DEF DiskInv

LEMMA SameDisk ==
    ASSUME RepoInv, UNCHANGED disk
    PROVE  DiskInv' /\ Known' = Known /\ refFailed' \in BOOLEAN
BY InvParts DEF disk, DiskInv, Known

LEMMA ObjFacts ==
    /\ \A c : /\ LinkObj(c) # NoHash /\ LinkObj(c).type = "SYMLINK"
              /\ FileHash(c).type = "FILE"
    /\ \A m, p : DirObj(m, p) # NoHash /\ DirObj(m, p).data = 0
<1>1. \A c : LinkObj(c).type = "SYMLINK" /\ FileHash(c).type = "FILE"
  BY DEF LinkObj, FileHash, Hash
<1>2. \A m, p : DirObj(m, p).type = "DIR"
  BY DirObjIs
<1>3. \A m, p : DirObj(m, p).data = 0
  BY DEF DirObj, Hash
<1>. QED  BY <1>1, <1>2, <1>3, NoneFields

LEMMA RunningTree ==
    ASSUME RepoInv, pc \in {"idle"} \cup Committing
    PROVE  TreeOK(mem, Known)
BY InvParts DEF MemInv

-----------------------------------------------------------------------------
(* Looking up and editing.                                                 *)

LEMMA FindInv ==
    ASSUME RepoInv, NEW p \in Paths, Find(p)
    PROVE  RepoInv'
<1>1. /\ pc = "idle" /\ mem' = find(mem, p)
      /\ UNCHANGED <<pc, todumps, dirs, objects, cut, rootRef, unwritten, refFailed, nEvents>>
  BY DEF Find, commitVars, disk
<1>2. /\ TreeOK(mem', Known)
      /\ mem'[Root].hash = mem[Root].hash /\ mem'[Root].modified = mem[Root].modified
  BY <1>1, RunningTree, FoundTree
<1>3. DiskInv' /\ Known' = Known /\ refFailed' \in BOOLEAN
  BY <1>1, SameDisk DEF disk
<1>4. todumps' = <<>> /\ dirs' = <<>> /\ nEvents' \in 0 .. MaxEvents
  BY <1>1, InvParts DEF PhaseInv
<1>5. RefInv'
  BY <1>1, <1>2, InvParts DEF RefInv
<1>. QED  BY <1>1, <1>2, <1>3, <1>4, <1>5, IdleStep

LEMMA FindAbortsInv ==
    ASSUME RepoInv, NEW p \in Paths, FindAborts(p)
    PROVE  RepoInv'
<1>1. /\ pc' = "no object"
      /\ UNCHANGED <<mem, todumps, dirs, objects, cut, rootRef, unwritten, refFailed, nEvents>>
  BY DEF FindAborts, abort, commitVars, disk
<1>. QED  BY <1>1, InvParts, AbortStep DEF Aborts

\* An edit leaves the tree in order and the root modified.
LEMMA EditStep ==
    ASSUME RepoInv, pc = "idle", TreeOK(mem', Known), mem'[Root].modified,
           nEvents < MaxEvents, nEvents' = nEvents + 1, UNCHANGED <<pc, commitVars, disk>>
    PROVE  RepoInv'
<1>1. DiskInv' /\ Known' = Known /\ refFailed' \in BOOLEAN
  BY SameDisk
<1>2. todumps' = <<>> /\ dirs' = <<>> /\ nEvents' \in 0 .. MaxEvents
  BY InvParts, RepoAssumption DEF PhaseInv, commitVars
<1>3. RefInv'
  BY DEF RefInv
<1>. QED  BY <1>1, <1>2, <1>3, IdleStep

\* What is marked above p.
LEMMA MarkIs ==
    ASSUME NEW m, NEW K, TreeOK(m, K), NEW p \in Paths, p # Root, NEW e, EntryOK(e, K)
    PROVE  /\ mark_modified(Put(m, p, e), Parent(p)) = Edited(m, p, e)
           /\ e.modified = TRUE => mark_modified(Put(m, p, e), p) = Edited(m, p, e)
           /\ (\A q \in Paths : Below(q, p) => m[q] = None) =>
                mark_modified([m EXCEPT ![p] = e], Parent(p)) = Edited(m, p, e)
<1>1. ASSUME NEW q \in Paths
      PROVE  /\ q = Parent(p) \/ Below(Parent(p), q) <=> Below(p, q)
             /\ Below(p, q) => q # p /\ ~ Below(q, p)
  BY ParentPath, BelowOther
<1>2. mark_modified(Put(m, p, e), Parent(p)) = Edited(m, p, e)
  BY <1>1 DEF mark_modified, Put, Edited
<1>3. ASSUME e.modified = TRUE PROVE mark_modified(Put(m, p, e), p) = Edited(m, p, e)
  <2>1. [e EXCEPT !.modified = TRUE] = e
    BY <1>3 DEF EntryOK, Entry
  <2>. QED  BY <1>1, <2>1 DEF mark_modified, Put, Edited
<1>4. ASSUME \A q \in Paths : Below(q, p) => m[q] = None
      PROVE  mark_modified([m EXCEPT ![p] = e], Parent(p)) = Edited(m, p, e)
  <2>1. DOMAIN m = Paths
    BY TreeParts
  <2>2. PICK w : w = [m EXCEPT ![p] = e]
    OBVIOUS
  <2>3. \A q \in Paths : w[q] = IF q = p THEN e ELSE m[q]
    BY <2>1, <2>2
  <2>4. mark_modified(w, Parent(p)) = Edited(m, p, e)
    BY <1>1, <1>4, <2>3 DEF mark_modified, Edited
  <2>. QED  BY <2>2, <2>4
<1>. QED  BY <1>2, <1>3, <1>4

LEMMA EditFacts ==
    ASSUME RepoInv, Careful, NEW p \in Paths \ {Root}, Edit(p)
    PROVE  /\ TreeOK(find(mem, Parent(p)), Known)
           /\ Is(find(mem, Parent(p)), Parent(p), "dir") /\ find(mem, Parent(p))[Parent(p)].loaded
           /\ pc = "idle" /\ nEvents < MaxEvents /\ nEvents' = nEvents + 1
           /\ UNCHANGED <<pc, commitVars, disk>>
<1>1. pc = "idle"
  BY DEF Edit
<1>2. TreeOK(find(mem, Parent(p)), Known)
  BY <1>1, RunningTree, FoundTree, ParentPath
<1>. QED  BY <1>1, <1>2 DEF Edit

LEMMA NewOK ==
    ASSUME NEW K, NEW k \in {"nonexistent", "file", "symlink", "local", "removed"}
    PROVE  EntryOK(New(k), K) /\ New(k).kind # "dir"
<1>1. CASE k \in {"file", "symlink"}
  <2>1. New(k) = Entry(k, NoHash, TRUE, FALSE)
    BY <1>1 DEF New
  <2>2. New(k).kind = k /\ New(k).hash = NoHash /\ New(k).modified = TRUE /\ New(k).loaded = FALSE
    BY <2>1 DEF Entry
  <2>3. New(k) = Entry(New(k).kind, New(k).hash, New(k).modified, New(k).loaded)
    BY <2>1, <2>2
  <2>. QED  BY <1>1, <2>2, <2>3, NoneFields DEF EntryOK, Kinds
<1>2. CASE k \notin {"file", "symlink"}
  <2>1. New(k) = Entry(k, NoHash, FALSE, FALSE)
    <3>1. (k \in {"file", "symlink"}) = FALSE
      BY <1>2
    <3>. QED  BY <3>1 DEF New
  <2>2. New(k).kind = k /\ New(k).hash = NoHash /\ New(k).modified = FALSE /\ New(k).loaded = FALSE
    BY <2>1 DEF Entry
  <2>3. New(k) = Entry(New(k).kind, New(k).hash, New(k).modified, New(k).loaded)
    BY <2>1, <2>2
  <2>. QED  BY <1>2, <2>2, <2>3, NoneFields DEF EntryOK, Kinds
<1>. QED  BY <1>1, <1>2

LEMMA SetInv ==
    ASSUME RepoInv, Careful, NEW p \in Paths \ {Root}, Edit(p), NEW e,
           EntryOK(e, Known), e.kind # "dir", Set(p, e)
    PROVE  RepoInv'
<1>1. PICK m : m = find(mem, Parent(p))
  OBVIOUS
<1>2. TreeOK(m, Known) /\ Is(m, Parent(p), "dir") /\ m[Parent(p)].loaded
  BY <1>1, EditFacts
<1>3. mem' = Edited(m, p, e)
  BY <1>1, <1>2, MarkIs DEF Set
<1>4. TreeOK(mem', Known) /\ mem'[Root].modified
  BY <1>2, <1>3, EditedTree
<1>. QED  BY <1>4, EditFacts, EditStep

LEMMA AddInv ==
    ASSUME RepoInv, Careful, NEW p \in Paths \ {Root}, NEW kind \in Leaves, Add(p, kind)
    PROVE  RepoInv'
<1>1. kind \in {"nonexistent", "file", "symlink", "local", "removed"}
  BY TreeAssumption
<1>2. EntryOK(New(kind), Known) /\ New(kind).kind # "dir"
  BY <1>1, NewOK
<1>. QED  BY <1>2, SetInv DEF Add

LEMMA RemoveInv ==
    ASSUME RepoInv, Careful, NEW p \in Paths \ {Root}, Remove(p)
    PROVE  RepoInv'
<1>1. EntryOK(None, Known) /\ None.kind # "dir"
  BY NoneOK, NoneFields
<1>. QED  BY <1>1, SetInv DEF Remove

LEMMA MarkRemovedInv ==
    ASSUME RepoInv, Careful, NEW p \in Paths \ {Root}, MarkRemoved(p)
    PROVE  RepoInv'
<1>1. EntryOK(New("removed"), Known) /\ New("removed").kind # "dir"
  BY NewOK
<1>. QED  BY <1>1, SetInv DEF MarkRemoved

LEMMA AddDirInv ==
    ASSUME RepoInv, Careful, NEW p \in Paths \ {Root}, AddDir(p)
    PROVE  RepoInv'
<1>1. PICK m : m = find(mem, Parent(p))
  OBVIOUS
<1>2. PICK e : e = Entry("dir", NoHash, TRUE, TRUE)
  OBVIOUS
<1>3. Edit(p) /\ mem' = mark_modified(Put(m, p, e), p)
  BY <1>1, <1>2 DEF AddDir
<1>4. TreeOK(m, Known) /\ Is(m, Parent(p), "dir") /\ m[Parent(p)].loaded
  BY <1>1, <1>3, EditFacts
<1>5. e.kind = "dir" /\ e.hash = NoHash /\ e.modified = TRUE /\ e.loaded = TRUE
  BY <1>2 DEF Entry
<1>6. EntryOK(e, Known)
  <2>1. e = Entry(e.kind, e.hash, e.modified, e.loaded)
    BY <1>2, <1>5
  <2>. QED  BY <1>5, <2>1, NoneFields DEF EntryOK, Kinds
<1>7. mem' = Edited(m, p, e)
  BY <1>3, <1>4, <1>5, <1>6, MarkIs
<1>8. TreeOK(mem', Known) /\ mem'[Root].modified
  BY <1>4, <1>5, <1>6, <1>7, EditedTree
<1>. QED  BY <1>3, <1>8, EditFacts, EditStep

LEMMA MarkModifiedFacts ==
    ASSUME RepoInv, NEW p \in Paths \ {Root}, MarkModified(p)
    PROVE  /\ find(mem, p)[p].kind \in {"file", "symlink"} /\ TreeOK(find(mem, p), Known)
           /\ Is(find(mem, p), Parent(p), "dir") /\ find(mem, p)[Parent(p)].loaded
           /\ \E e : /\ e.kind = find(mem, p)[p].kind /\ e.modified = TRUE /\ EntryOK(e, Known)
                    /\ mem' = Edited(find(mem, p), p, e)
<1>1. PICK m : m = find(mem, p)
  OBVIOUS
<1>2. /\ pc = "idle" /\ nEvents < MaxEvents /\ nEvents' = nEvents + 1
      /\ m[p].kind \in {"file", "symlink"}
      /\ mem' = mark_modified([m EXCEPT ![p].modified = TRUE], Parent(p))
      /\ UNCHANGED <<pc, commitVars, disk>>
  BY <1>1 DEF MarkModified
<1>3. TreeOK(m, Known)
  BY <1>1, <1>2, RunningTree, FoundTree
<1>4. EntryOK(m[p], Known)
  BY <1>3, TreeParts
<1>5. PICK e : e = Entry(m[p].kind, m[p].hash, TRUE, m[p].loaded)
  OBVIOUS
<1>6. [m EXCEPT ![p].modified = TRUE] = [m EXCEPT ![p] = e]
  <2>1. [m[p] EXCEPT !.modified = TRUE] = e
    BY <1>4, <1>5, EntrySet DEF EntryOK
  <2>2. [m EXCEPT ![p].modified = TRUE] = [m EXCEPT ![p] = [m[p] EXCEPT !.modified = TRUE]]
    OBVIOUS
  <2>. QED  BY <2>1, <2>2
<1>7. e.kind = m[p].kind /\ e.hash = m[p].hash /\ e.modified = TRUE /\ e.loaded = m[p].loaded
  BY <1>5 DEF Entry
<1>8. EntryOK(e, Known)
  <2>1. e = Entry(e.kind, e.hash, e.modified, e.loaded)
    BY <1>5, <1>7
  <2>. QED  BY <1>2, <1>4, <1>7, <2>1 DEF EntryOK
<1>9. ASSUME NEW q \in Paths, Below(q, p) PROVE m[q] = None
  <2>1. ~ lookup(m, q)
    BY <1>2, <1>3, <1>9, TreeParts DEF Is
  <2>. QED  BY <1>3, <2>1, TreeParts DEF lookup, EntryOK
<1>10. mem' = Edited(m, p, e)
  <2>1. p \in Paths /\ p # Root
    OBVIOUS
  <2>2. mark_modified([m EXCEPT ![p] = e], Parent(p)) = Edited(m, p, e)
    BY <1>3, <1>8, <1>9, <2>1, MarkIs
  <2>. QED  BY <1>2, <1>6, <2>2
<1>11. Is(m, Parent(p), "dir") /\ m[Parent(p)].loaded
  BY <1>2, <1>3, ParentPath, TreeParts DEF lookup
<1>. QED  BY <1>1, <1>2, <1>3, <1>7, <1>8, <1>10, <1>11

LEMMA MarkModifiedInv ==
    ASSUME RepoInv, NEW p \in Paths \ {Root}, MarkModified(p)
    PROVE  RepoInv'
<1>1. PICK m : m = find(mem, p)
  OBVIOUS
<1>2. PICK e : e.kind = m[p].kind /\ EntryOK(e, Known) /\ mem' = Edited(m, p, e)
  BY <1>1, MarkModifiedFacts
<1>3. /\ m[p].kind \in {"file", "symlink"} /\ TreeOK(m, Known)
      /\ Is(m, Parent(p), "dir") /\ m[Parent(p)].loaded
  BY <1>1, MarkModifiedFacts
<1>4. TreeOK(mem', Known) /\ mem'[Root].modified
  BY <1>2, <1>3, EditedTree
<1>. QED  BY <1>4, EditStep DEF MarkModified

-----------------------------------------------------------------------------
(* Collecting.                                                             *)

LEMMA EntryRehashed ==
    ASSUME NEW k, NEW g, NEW f, NEW l, NEW h
    PROVE  [Entry(k, g, f, l) EXCEPT !.hash = h] = Entry(k, h, f, l)
<1> DEFINE D == {"kind", "hash", "modified", "loaded"}
<1>1. PICK x : x = Entry(k, g, f, l)
  OBVIOUS
<1>2. PICK y : y = Entry(k, h, f, l)
  OBVIOUS
<1>3. PICK z : z = [x EXCEPT !.hash = h]
  OBVIOUS
<1>4. \A i \in D : z[i] = y[i]
  BY <1>1, <1>2, <1>3 DEF Entry
<1>5. z = [i \in D |-> z[i]]
  BY <1>1, <1>3 DEF Entry
<1>6. y = [i \in D |-> y[i]]
  BY <1>2 DEF Entry
<1>. QED  BY <1>1, <1>2, <1>3, <1>4, <1>5, <1>6

LEMMA RehashIs ==
    ASSUME NEW m, NEW K, TreeOK(m, K), NEW p \in Paths, NEW h
    PROVE  /\ [m EXCEPT ![p].hash = h, ![p].modified = FALSE] = Rehashed(m, p, h, FALSE)
           /\ m[p].modified => [m EXCEPT ![p].hash = h] = Rehashed(m, p, h, TRUE)
<1>1. m = [q \in Paths |-> m[q]] /\ EntryOK(m[p], K)
  BY TreeParts
<1>2. PICK k, g, f, l : m[p] = Entry(k, g, f, l) /\ k = m[p].kind /\ f = m[p].modified /\ l = m[p].loaded
  BY <1>1 DEF EntryOK
<1>3. [m[p] EXCEPT !.hash = h] = Entry(k, h, f, l)
  <2>1. [Entry(k, g, f, l) EXCEPT !.hash = h] = Entry(k, h, f, l)
    BY EntryRehashed
  <2>. QED  BY <1>2, <2>1
<1>4. PICK w : w = [m EXCEPT ![p].hash = h]
  OBVIOUS
<1>5. /\ w = [q \in Paths |-> w[q]] /\ w[p] = Entry(k, h, f, l)
      /\ \A q \in Paths : q # p => w[q] = m[q]
  BY <1>1, <1>3, <1>4
<1>6. ASSUME m[p].modified PROVE w = Rehashed(m, p, h, TRUE)
  <2>1. f = TRUE
    BY <1>1, <1>2, <1>6 DEF EntryOK
  <2>. QED  BY <1>2, <1>5, <2>1 DEF Rehashed
<1>7. [w[p] EXCEPT !.modified = FALSE] = Entry(k, h, FALSE, l)
  <2>1. PICK v : v = FALSE
    OBVIOUS
  <2>2. [Entry(k, h, f, l) EXCEPT !.modified = v] = Entry(k, h, v, l)
    BY EntryMarked
  <2>. QED  BY <1>5, <2>1, <2>2
<1>8. PICK u : u = [w EXCEPT ![p].modified = FALSE]
  OBVIOUS
<1>9. /\ u = [q \in Paths |-> u[q]] /\ u[p] = Entry(k, h, FALSE, l)
      /\ \A q \in Paths : q # p => u[q] = m[q]
  BY <1>5, <1>7, <1>8
<1>10. u = Rehashed(m, p, h, FALSE)
  BY <1>2, <1>9 DEF Rehashed
<1>. QED  BY <1>4, <1>6, <1>8, <1>10

LEMMA PopFacts ==
    ASSUME RepoInv, todumps # <<>>
    PROVE  /\ Len(todumps) \in Nat \ {0} /\ Top = todumps[Len(todumps)] /\ Top \in Paths
           /\ Pop \in Seq(Paths) /\ Len(Pop) = Len(todumps) - 1
           /\ \A i \in 1 .. (Len(todumps) - 1) : Pop[i] = todumps[i]
<1>1. todumps \in Seq(Paths)
  BY InvParts
<1>2. Len(todumps) \in Nat \ {0}
  BY <1>1
<1>3. PICK n \in Nat \ {0} : n = Len(todumps)
  BY <1>2
<1>4. /\ SubSeq(todumps, 1, n - 1) \in Seq(Paths) /\ Len(SubSeq(todumps, 1, n - 1)) = n - 1
      /\ \A i \in 1 .. (n - 1) : SubSeq(todumps, 1, n - 1)[i] = todumps[i]
  BY <1>1, <1>3
<1>5. todumps[n] \in Paths
  BY <1>1, <1>3
<1>. QED  BY <1>2, <1>3, <1>4, <1>5 DEF Top, Pop, Prefix

\* An entry that needs no dump, or no longer does, is taken from the stack.
LEMMA CollectStep ==
    ASSUME RepoInv, pc = "collect", pc' = "collect", todumps # <<>>, todumps' = Pop, dirs' = dirs,
           Top # Root, TreeOK(mem', Known'), DiskInv',
           \A q \in Paths : q # Top => mem'[q] = mem[q],
           \A q \in Paths : q = Top \/ Below(q, Top) => ~ mem'[q].modified,
           refFailed' \in BOOLEAN, nEvents' \in 0 .. MaxEvents
    PROVE  RepoInv'
<1>1. /\ Len(todumps) \in Nat \ {0} /\ Top = todumps[Len(todumps)] /\ Top \in Paths
      /\ todumps' \in Seq(Paths) /\ Len(todumps') = Len(todumps) - 1
      /\ \A i \in 1 .. (Len(todumps) - 1) : todumps'[i] = todumps[i]
  BY PopFacts
<1>2. StackInv'
  <2>1. \A i, j \in 1 .. Len(todumps') :
            i # j => todumps'[i] # todumps'[j] /\ ~ Below(todumps'[i], todumps'[j])
    <3>1. ASSUME NEW i \in 1 .. Len(todumps') PROVE i \in 1 .. Len(todumps) /\ todumps'[i] = todumps[i]
      BY <1>1
    <3>2. \A i, j \in 1 .. Len(todumps) : i # j => todumps[i] # todumps[j] /\ ~ Below(todumps[i], todumps[j])
      BY InvParts DEF StackInv
    <3>. QED  BY <3>1, <3>2
  <2>2. \A i \in 1 .. Len(dirs'), j \in 1 .. Len(todumps') :
            dirs'[i] # todumps'[j] /\ ~ Below(dirs'[i], todumps'[j])
    BY <1>1, InvParts DEF StackInv
  <2>. QED  BY <2>1, <2>2 DEF StackInv
<1>3. DirsInv'
  <2>1. ASSUME NEW i \in 1 .. Len(dirs) PROVE mem'[dirs[i]] = mem[dirs[i]]
    <3>1. dirs[i] # Top
      BY <1>1, InvParts DEF StackInv
    <3>2. dirs[i] \in Paths
      BY InvParts
    <3>. QED  BY <3>1, <3>2
  <2>. QED  BY <2>1, InvParts DEF DirsInv, Is
<1>4. CoverInv'
  <2>1. ASSUME NEW q \in Paths, mem'[q].modified PROVE Occurs(dirs, q) \/ Covers(todumps', q)
    <3>1. q # Top /\ ~ Below(q, Top) /\ mem[q].modified
      BY <2>1
    <3>2. Occurs(dirs, q) \/ Covers(todumps, q)
      BY <3>1, InvParts DEF CoverInv
    <3>3. ASSUME Covers(todumps, q) PROVE Covers(todumps', q)
      <4>1. PICK i \in 1 .. Len(todumps) : todumps[i] = q \/ Below(q, todumps[i])
        BY <3>3 DEF Covers
      <4>2. i # Len(todumps)
        BY <1>1, <3>1, <4>1
      <4>3. i \in 1 .. Len(todumps') /\ todumps'[i] = todumps[i]
        BY <1>1, <4>2
      <4>. QED  BY <4>1, <4>3 DEF Covers
    <3>. QED  BY <3>2, <3>3
  <2>2. \A q \in Paths : mem'[q].modified => Occurs(dirs', q) \/ Covers(todumps', q)
    BY <2>1
  <2>. QED  BY <2>2 DEF CoverInv, Occurs, Covers
<1>5. PhaseInv'
  BY RootPath, InvParts DEF PhaseInv
<1>6. CommitInv'
  BY <1>1, <1>2, <1>3, <1>4, <1>5, InvParts DEF CommitInv
<1>7. MemInv' /\ RefInv'
  BY DEF MemInv, RefInv, Committing, Aborts
<1>. QED  BY <1>6, <1>7 DEF RepoInv

LEMMA CommitBeginInv ==
    ASSUME RepoInv, CommitBegin
    PROVE  RepoInv'
<1>1. /\ pc = "idle" /\ mem[Root].modified /\ pc' = "collect" /\ todumps' = <<Root>> /\ dirs' = <<>>
      /\ UNCHANGED <<mem, objects, cut, rootRef, unwritten, refFailed, nEvents>>
  BY DEF CommitBegin, disk
<1>2. DiskInv' /\ Known' = Known /\ refFailed' \in BOOLEAN
  BY <1>1, SameDisk DEF disk
<1>3. TreeOK(mem', Known')
  BY <1>1, <1>2, RunningTree
<1>4. /\ todumps' \in Seq(Paths) /\ dirs' \in Seq(Paths)
      /\ Len(todumps') = 1 /\ todumps'[1] = Root /\ Len(dirs') = 0
  BY <1>1, RootPath
<1>5. StackInv' /\ DirsInv'
  BY <1>4 DEF StackInv, DirsInv
<1>6. CoverInv'
  <2>1. ASSUME NEW q \in Paths PROVE Covers(todumps', q)
    <3>1. 1 \in 1 .. Len(todumps') /\ (todumps'[1] = q \/ Below(q, todumps'[1]))
      BY <1>4, BelowRoot
    <3>. QED  BY <3>1 DEF Covers
  <2>. QED  BY <2>1 DEF CoverInv, Covers
<1>7. PhaseInv'
  BY <1>1 DEF PhaseInv
<1>8. CommitInv'
  BY <1>4, <1>5, <1>6, <1>7 DEF CommitInv
<1>9. MemInv' /\ RefInv'
  BY <1>1, <1>3 DEF MemInv, RefInv, Committing, Aborts
<1>. QED  BY <1>1, <1>2, <1>8, <1>9, InvParts DEF RepoInv

LEMMA SkipInv ==
    ASSUME RepoInv, Skip
    PROVE  RepoInv'
<1>1. /\ pc = "collect" /\ todumps # <<>> /\ pc' = "collect" /\ todumps' = Pop
      /\ \/ mem[Top].kind \in {"nonexistent", "local", "removed"}
         \/ ~ mem[Top].modified
      /\ UNCHANGED <<mem, dirs, objects, cut, rootRef, unwritten, refFailed, nEvents>>
  BY DEF Skip, Collecting, disk
<1>2. DiskInv' /\ Known' = Known /\ refFailed' \in BOOLEAN
  BY <1>1, SameDisk DEF disk
<1>3. TreeOK(mem, Known)
  BY <1>1, RunningTree DEF Committing
<1>4. Top \in Paths
  BY <1>1, PopFacts
<1>5. ~ mem[Top].modified
  BY <1>1, <1>3, <1>4, TreeParts DEF EntryOK
<1>6. Top # Root
  BY <1>1, <1>5, InvParts DEF PhaseInv
<1>7. \A q \in Paths : q = Top \/ Below(q, Top) => ~ mem'[q].modified
  BY <1>1, <1>3, <1>4, <1>5, TreeParts
<1>. QED  BY <1>1, <1>2, <1>3, <1>6, <1>7, InvParts, CollectStep

\* A file or a link gets the hash of what it is now.
LEMMA LeafFacts ==
    ASSUME RepoInv, Collecting({"file", "symlink"}), mem[Top].modified, NEW h, h.type # "DIR",
           NEW L, Known \subseteq L, mem[Top].kind = "symlink" => h \in L, SetHash(Top, h)
    PROVE  /\ pc = "collect" /\ todumps # <<>> /\ Top \in Paths /\ Top # Root
           /\ mem[Root].modified /\ mem'[Root].modified
           /\ TreeOK(mem', L)
           /\ \A q \in Paths : q # Top => mem'[q] = mem[q]
           /\ \A q \in Paths : q = Top \/ Below(q, Top) => ~ mem'[q].modified
<1>1. pc = "collect" /\ todumps # <<>> /\ mem[Top].kind \in {"file", "symlink"}
  BY DEF Collecting
<1>2. TreeOK(mem, Known) /\ TreeOK(mem, L)
  BY <1>1, RunningTree, TreeGrows DEF Committing
<1>3. Top \in Paths
  BY <1>1, PopFacts
<1>4. Top # Root
  BY <1>1, <1>2, TreeParts DEF Is
<1>5. ASSUME NEW q \in Paths, Below(q, Top) PROVE ~ mem[q].modified
  <2>1. ~ lookup(mem, q)
    BY <1>1, <1>2, <1>3, <1>5, TreeParts DEF Is
  <2>. QED  BY <1>2, <2>1, TreeParts DEF lookup, EntryOK
<1>6. mem' = Rehashed(mem, Top, h, FALSE)
  BY <1>2, <1>3, RehashIs DEF SetHash
<1>7. TreeOK(mem', L)
  <2>1. PICK p \in Paths : p = Top
    BY <1>3
  <2>2. TreeOK(Rehashed(mem, p, h, FALSE), L)
    BY <1>1, <1>2, <1>5, <2>1, RehashedTree
  <2>. QED  BY <1>6, <2>1, <2>2
<1>8. /\ mem'[Top] = Entry(mem[Top].kind, h, FALSE, mem[Top].loaded)
      /\ \A q \in Paths : q # Top => mem'[q] = mem[q]
  BY <1>3, <1>6 DEF Rehashed
<1>9. ~ mem'[Top].modified
  BY <1>8 DEF Entry
<1>10. \A q \in Paths : Below(q, Top) => q # Top
  BY <1>3, BelowOther
<1>11. mem[Root].modified
  BY <1>1, InvParts DEF PhaseInv
<1>. QED  BY <1>1, <1>3, <1>4, <1>5, <1>7, <1>8, <1>9, <1>10, <1>11, RootPath

LEMMA HashFileInv ==
    ASSUME RepoInv, NEW c \in Contents, HashFile(c)
    PROVE  RepoInv'
<1>1. /\ Collecting({"file"}) /\ mem[Top].modified /\ SetHash(Top, FileHash(c)) /\ todumps' = Pop
      /\ UNCHANGED <<pc, dirs, objects, cut, rootRef, unwritten, refFailed, nEvents>>
  BY DEF HashFile, disk
<1>2. DiskInv' /\ Known' = Known /\ refFailed' \in BOOLEAN
  BY <1>1, SameDisk DEF disk
<1>3. Collecting({"file", "symlink"}) /\ mem[Top].kind # "symlink"
  BY <1>1 DEF Collecting
<1>4. FileHash(c).type # "DIR"
  BY ObjFacts
<1>5. /\ pc = "collect" /\ todumps # <<>> /\ Top # Root
      /\ TreeOK(mem', Known)
      /\ \A q \in Paths : q # Top => mem'[q] = mem[q]
      /\ \A q \in Paths : q = Top \/ Below(q, Top) => ~ mem'[q].modified
  BY <1>1, <1>3, <1>4, LeafFacts
<1>. QED  BY <1>1, <1>2, <1>5, InvParts, CollectStep

LEMMA DumpLinkInv ==
    ASSUME RepoInv, NEW c \in Contents, DumpLink(c)
    PROVE  RepoInv'
<1>1. /\ Collecting({"symlink"}) /\ mem[Top].modified /\ SetHash(Top, LinkObj(c)) /\ todumps' = Pop
      /\ objects' = IF LinkObj(c) \in cut THEN objects ELSE objects \cup {LinkObj(c)}
      /\ UNCHANGED <<pc, dirs, cut, rootRef, unwritten, refFailed, nEvents>>
  BY DEF DumpLink, Stores
<1>2. LinkObj(c).type # "DIR" /\ LinkObj(c) # NoHash
  BY ObjFacts
<1>3. DiskInv' /\ Known \subseteq Known' /\ LinkObj(c) \in Known'
  BY <1>1, <1>2, StoredDisk
<1>4. Collecting({"file", "symlink"})
  BY <1>1 DEF Collecting
<1>5. /\ pc = "collect" /\ todumps # <<>> /\ Top # Root
      /\ TreeOK(mem', Known')
      /\ \A q \in Paths : q # Top => mem'[q] = mem[q]
      /\ \A q \in Paths : q = Top \/ Below(q, Top) => ~ mem'[q].modified
  BY <1>1, <1>2, <1>3, <1>4, LeafFacts
<1>6. refFailed' \in BOOLEAN /\ nEvents' \in 0 .. MaxEvents
  BY <1>1, InvParts
<1>. QED  BY <1>1, <1>3, <1>5, <1>6, CollectStep

LEMMA HashFileFailsInv ==
    ASSUME RepoInv, NEW c \in Contents, HashFileFails(c)
    PROVE  RepoInv'
<1>1. /\ Collecting({"file"}) /\ mem[Top].modified
      /\ mem' = mem \/ SetHash(Top, FileHash(c))
      /\ pc' = "idle" /\ todumps' = <<>> /\ dirs' = <<>>
      /\ nEvents < MaxEvents /\ nEvents' = nEvents + 1
      /\ UNCHANGED disk
  BY DEF HashFileFails, Fails, Return
<1>2. DiskInv' /\ Known' = Known /\ refFailed' \in BOOLEAN
  BY <1>1, SameDisk
<1>3. nEvents' \in 0 .. MaxEvents
  BY <1>1, InvParts, RepoAssumption
<1>4. Collecting({"file", "symlink"}) /\ mem[Top].kind # "symlink" /\ pc = "collect"
  BY <1>1 DEF Collecting
<1>5. FileHash(c).type # "DIR"
  BY ObjFacts
<1>6. TreeOK(mem', Known) /\ mem'[Root].modified
  <2>1. CASE mem' = mem
    BY <1>4, <2>1, RunningTree, InvParts DEF PhaseInv, Committing
  <2>2. CASE SetHash(Top, FileHash(c))
    BY <1>1, <1>4, <1>5, <2>2, LeafFacts
  <2>. QED  BY <1>1, <2>1, <2>2
<1>7. RefInv'
  BY <1>6 DEF RefInv
<1>. QED  BY <1>1, <1>2, <1>3, <1>6, <1>7, IdleStep

LEMMA DumpLinkFailsInv ==
    ASSUME RepoInv, NEW c \in Contents, DumpLinkFails(c)
    PROVE  RepoInv'
<1>1. Collecting({"symlink"}) /\ mem[Top].modified
  BY DEF DumpLinkFails
<1>2. Collecting({"file", "symlink"}) /\ pc = "collect"
  BY <1>1 DEF Collecting
<1>3. LinkObj(c).type # "DIR" /\ LinkObj(c) # NoHash
  BY ObjFacts
<1>4. TreeOK(mem, Known) /\ mem[Root].modified
  BY <1>2, RunningTree, InvParts DEF PhaseInv, Committing
<1>5. CASE StoreFails(LinkObj(c)) /\ Return /\ UNCHANGED mem
  <2>1. /\ DiskInv' /\ Known \subseteq Known'
        /\ nEvents' \in 0 .. MaxEvents /\ refFailed' \in BOOLEAN
    BY <1>5, FailedDisk
  <2>2. TreeOK(mem', Known') /\ RefInv'
    BY <1>4, <1>5, <2>1, TreeGrows DEF RefInv
  <2>. QED  BY <1>5, <2>1, <2>2, IdleStep DEF Return
<1>6. CASE Fails /\ pc' = "no link" /\ UNCHANGED <<mem, commitVars>>
  <2>1. nEvents' \in 0 .. MaxEvents
    <3>1. nEvents < MaxEvents /\ nEvents' = nEvents + 1
      BY <1>6 DEF Fails
    <3>. QED  BY <3>1, InvParts, RepoAssumption
  <2>. QED  BY <1>6, <2>1, AbortStep DEF Fails, commitVars, disk, Aborts
<1>7. CASE /\ nEvents < MaxEvents /\ nEvents' = nEvents + 1
           /\ objects' = IF LinkObj(c) \in cut THEN objects ELSE objects \cup {LinkObj(c)}
           /\ SetHash(Top, LinkObj(c)) /\ Return
           /\ UNCHANGED <<cut, rootRef, unwritten, refFailed>>
  <2>1. DiskInv' /\ Known \subseteq Known' /\ LinkObj(c) \in Known'
    BY <1>3, <1>7, StoredDisk
  <2>2. nEvents' \in 0 .. MaxEvents /\ refFailed' \in BOOLEAN
    BY <1>7, InvParts, RepoAssumption
  <2>3. TreeOK(mem', Known') /\ mem'[Root].modified
    BY <1>1, <1>2, <1>3, <1>7, <2>1, LeafFacts
  <2>4. RefInv'
    BY <2>3 DEF RefInv
  <2>. QED  BY <1>7, <2>1, <2>2, <2>3, <2>4, IdleStep DEF Return
<1>. QED  BY <1>5, <1>6, <1>7 DEF DumpLinkFails

LEMMA CollectEndInv ==
    ASSUME RepoInv, CollectEnd
    PROVE  RepoInv'
<1>1. /\ pc = "collect" /\ todumps = <<>> /\ pc' = "dump"
      /\ UNCHANGED <<mem, todumps, dirs, objects, cut, rootRef, unwritten, refFailed, nEvents>>
  BY DEF CollectEnd, commitVars, disk
<1>2. DiskInv' /\ Known' = Known /\ refFailed' \in BOOLEAN
  BY <1>1, SameDisk DEF disk
<1>3. MemInv' /\ RefInv'
  BY <1>1, <1>2, InvParts DEF MemInv, RefInv, Committing, Aborts
<1>4. StackInv'
  BY <1>1, InvParts DEF StackInv
<1>5. DirsInv'
  BY <1>1, InvParts DEF DirsInv, Is
<1>6. CoverInv'
  BY <1>1, InvParts DEF CoverInv, Occurs, Covers
<1>7. PhaseInv'
  BY <1>1, InvParts DEF PhaseInv
<1>. QED  BY <1>1, <1>2, <1>3, <1>4, <1>5, <1>6, <1>7, InvParts DEF RepoInv, CommitInv

\* The children of a directory, as they are put on the stack.
Kids(p, s) == [i \in 1 .. Len(s) |-> Append(p, s[i])]

LEMMA KidsFacts ==
    ASSUME NEW p \in Paths, NEW s \in InOrder(ChildNames(p))
    PROVE  /\ Kids(p, s) \in Seq(Paths) /\ Len(Kids(p, s)) \in Nat
           /\ \A i \in 1 .. Len(Kids(p, s)) :
                Below(Kids(p, s)[i], p) /\ Len(Kids(p, s)[i]) = Len(p) + 1
           /\ \A i, j \in 1 .. Len(Kids(p, s)) :
                i # j => Kids(p, s)[i] # Kids(p, s)[j]
           /\ \A n \in Names : Len(p) # Depth /\ lookup(mem, Child(p, n)) =>
                \E i \in 1 .. Len(Kids(p, s)) : Kids(p, s)[i] = Child(p, n)
<1>1. PICK names : names = ChildNames(p)
  OBVIOUS
<1>2. names \subseteq Names /\ names \subseteq Nat /\ (Len(p) = Depth => names = {})
  BY <1>1, TreeAssumption DEF ChildNames
<1>3. IsFiniteSet(names) /\ Cardinality(names) \in Nat
  BY <1>2, TreeAssumption, FS_Subset, FS_CardinalityType
<1>4. PICK k \in Nat : k = Cardinality(names)
  BY <1>3
<1>5. /\ s \in [1 .. k -> names]
      /\ \A i, j \in DOMAIN s : i < j => s[i] < s[j]
      /\ \A n \in names : \E i \in DOMAIN s : s[i] = n
  BY <1>1, <1>4 DEF InOrder
<1>6. Len(s) = k /\ DOMAIN s = 1 .. k
  BY <1>5
<1>7. \A i \in 1 .. k : s[i] \in Names /\ s[i] \in Nat /\ Len(p) # Depth
  BY <1>2, <1>5
<1>8. PICK kids : kids = Kids(p, s)
  OBVIOUS
<1>9. kids = [i \in 1 .. k |-> Child(p, s[i])]
  BY <1>6, <1>8 DEF Kids, Child
<1>10. ASSUME NEW i \in 1 .. k
       PROVE  /\ kids[i] \in Paths /\ Below(kids[i], p) /\ Len(kids[i]) = Len(p) + 1
              /\ kids[i][Len(p) + 1] = s[i]
  BY <1>7, <1>9, ChildPath
<1>11. kids \in Seq(Paths) /\ Len(kids) = k
  BY <1>9, <1>10
<1>12. ASSUME NEW i \in 1 .. k, NEW j \in 1 .. k, i # j PROVE kids[i] # kids[j]
  <2>1. s[i] # s[j]
    <3>1. i < j \/ j < i
      BY <1>12
    <3>2. s[i] < s[j] \/ s[j] < s[i]
      BY <1>5, <1>6, <3>1
    <3>. QED  BY <1>7, <3>2
  <2>. QED  BY <1>10, <2>1
<1>13. ASSUME NEW n \in Names, Len(p) # Depth, lookup(mem, Child(p, n))
       PROVE  \E i \in 1 .. k : kids[i] = Child(p, n)
  <2>1. n \in names
    BY <1>1, <1>13 DEF ChildNames, Child
  <2>2. PICK i \in 1 .. k : s[i] = n
    BY <1>5, <1>6, <2>1
  <2>. QED  BY <1>9, <2>2
<1>. QED  BY <1>8, <1>10, <1>11, <1>12, <1>13

LEMMA CollectDirInv ==
    ASSUME RepoInv, CollectDir
    PROVE  RepoInv'
<1>1. /\ pc = "collect" /\ todumps # <<>> /\ mem[Top].kind = "dir" /\ mem[Top].modified /\ mem[Top].loaded
      /\ dirs' = Append(dirs, Top)
      /\ \E s \in InOrder(ChildNames(Top)) : todumps' = Pop \o Kids(Top, s)
      /\ UNCHANGED <<mem, pc, objects, cut, rootRef, unwritten, refFailed, nEvents>>
  BY DEF CollectDir, Collecting, Kids, disk
<1>2. DiskInv' /\ Known' = Known /\ refFailed' \in BOOLEAN
  BY <1>1, SameDisk DEF disk
<1>3. /\ Len(todumps) \in Nat \ {0} /\ Top = todumps[Len(todumps)] /\ Top \in Paths
      /\ Pop \in Seq(Paths) /\ Len(Pop) = Len(todumps) - 1
      /\ \A i \in 1 .. (Len(todumps) - 1) : Pop[i] = todumps[i]
  BY <1>1, PopFacts
<1>4. PICK t \in Paths : t = Top
  BY <1>3
<1>5. PICK s \in InOrder(ChildNames(t)) : todumps' = Pop \o Kids(t, s)
  BY <1>1, <1>4
<1>6. PICK kids : kids = Kids(t, s)
  OBVIOUS
<1>7. /\ kids \in Seq(Paths) /\ Len(kids) \in Nat
      /\ \A i \in 1 .. Len(kids) : Below(kids[i], t) /\ Len(kids[i]) = Len(t) + 1
      /\ \A i, j \in 1 .. Len(kids) : i # j => kids[i] # kids[j]
      /\ \A n \in Names : Len(t) # Depth /\ lookup(mem, Child(t, n)) =>
            \E i \in 1 .. Len(kids) : kids[i] = Child(t, n)
  BY <1>6, KidsFacts
<1>8. PICK n \in Nat : n + 1 = Len(todumps)
  BY <1>3
<1>9. /\ todumps' \in Seq(Paths) /\ Len(todumps') = n + Len(kids)
      /\ \A i \in 1 .. n : todumps'[i] = todumps[i]
      /\ \A i \in 1 .. Len(kids) : todumps'[n + i] = kids[i]
  <2>1. todumps' = Pop \o kids /\ Len(Pop) = n
    BY <1>3, <1>5, <1>6, <1>8
  <2>2. todumps' \in Seq(Paths) /\ Len(todumps') = n + Len(kids)
    <3>1. PICK u \in Seq(Paths) : u = Pop /\ Len(u) = n
      BY <1>3, <2>1
    <3>2. u \o kids \in Seq(Paths) /\ Len(u \o kids) = Len(u) + Len(kids)
      BY <1>7
    <3>. QED  BY <2>1, <3>1, <3>2
  <2>3. \A i \in 1 .. n : todumps'[i] = Pop[i]
    BY <1>3, <1>7, <2>1
  <2>4. \A i \in 1 .. Len(kids) : todumps'[n + i] = kids[i]
    BY <1>3, <1>7, <2>1
  <2>5. \A i \in 1 .. n : Pop[i] = todumps[i]
    BY <1>3, <1>8
  <2>. QED  BY <2>2, <2>3, <2>4, <2>5
\* the stack: what was below the top, or one of its children
<1>10. ASSUME NEW i \in 1 .. Len(todumps')
       PROVE  \/ i \in 1 .. n /\ todumps'[i] = todumps[i] /\ i \in 1 .. Len(todumps)
              \/ i - n \in 1 .. Len(kids) /\ todumps'[i] = kids[i - n]
  <2>1. i \in 1 .. n \/ i - n \in 1 .. Len(kids)
    BY <1>7, <1>9
  <2>2. n + (i - n) = i
    OBVIOUS
  <2>. QED  BY <1>8, <1>9, <2>1, <2>2
\* what stays on the stack is apart from the top
<1>11. ASSUME NEW i \in 1 .. n
       PROVE  todumps[i] \in Paths /\ todumps[i] # t /\ ~ Below(todumps[i], t) /\ ~ Below(t, todumps[i])
  <2>1. i \in 1 .. Len(todumps) /\ i # Len(todumps) /\ Len(todumps) \in 1 .. Len(todumps)
    BY <1>8
  <2>. QED  BY <1>3, <1>4, <2>1, InvParts DEF StackInv
<1>12. ASSUME NEW i \in 1 .. Len(kids), NEW q \in Paths, q # t, ~ Below(q, t), ~ Below(t, q)
       PROVE  kids[i] # q /\ ~ Below(kids[i], q) /\ ~ Below(q, kids[i])
  <2>1. kids[i] \in Paths /\ Below(kids[i], t)
    BY <1>7
  <2>. QED  BY <1>12, <2>1, BelowTrans, BelowChain
<1>13. ASSUME NEW i \in 1 .. Len(kids), NEW j \in 1 .. Len(kids) PROVE ~ Below(kids[i], kids[j])
  <2>1. kids[i] \in Paths /\ kids[j] \in Paths /\ Len(kids[i]) = Len(kids[j]) /\ Len(kids[i]) \in Nat
    BY <1>7, PathLen
  <2>. QED  BY <2>1, BelowMeans
<1>14. ASSUME NEW i \in 1 .. Len(todumps'), NEW j \in 1 .. Len(todumps'), i # j
       PROVE  todumps'[i] # todumps'[j] /\ ~ Below(todumps'[i], todumps'[j])
  <2>1. CASE /\ i \in 1 .. n /\ todumps'[i] = todumps[i] /\ i \in 1 .. Len(todumps)
             /\ j \in 1 .. n /\ todumps'[j] = todumps[j] /\ j \in 1 .. Len(todumps)
    BY <1>14, <2>1, InvParts DEF StackInv
  <2>2. CASE /\ i \in 1 .. n /\ todumps'[i] = todumps[i]
             /\ j - n \in 1 .. Len(kids) /\ todumps'[j] = kids[j - n]
    BY <1>11, <1>12, <2>2
  <2>3. CASE /\ i - n \in 1 .. Len(kids) /\ todumps'[i] = kids[i - n]
             /\ j \in 1 .. n /\ todumps'[j] = todumps[j]
    BY <1>11, <1>12, <2>3
  <2>4. CASE /\ i - n \in 1 .. Len(kids) /\ todumps'[i] = kids[i - n]
             /\ j - n \in 1 .. Len(kids) /\ todumps'[j] = kids[j - n]
    <3>1. i - n # j - n
      BY <1>14
    <3>. QED  BY <1>7, <1>13, <2>4, <3>1
  <2>. QED  BY <1>10, <2>1, <2>2, <2>3, <2>4
<1>15. /\ dirs' \in Seq(Paths) /\ Len(dirs') = Len(dirs) + 1 /\ Len(dirs) \in Nat
       /\ dirs'[Len(dirs) + 1] = t /\ \A i \in 1 .. Len(dirs) : dirs'[i] = dirs[i]
  BY <1>1, <1>4, InvParts
<1>16. ASSUME NEW i \in 1 .. Len(dirs)
       PROVE  dirs[i] \in Paths /\ dirs[i] # t /\ ~ Below(dirs[i], t)
  <2>1. Len(todumps) \in 1 .. Len(todumps)
    BY <1>8
  <2>. QED  BY <1>3, <1>4, <2>1, InvParts DEF StackInv
<1>17. ASSUME NEW i \in 1 .. Len(dirs'), NEW j \in 1 .. Len(todumps')
       PROVE  dirs'[i] # todumps'[j] /\ ~ Below(dirs'[i], todumps'[j])
  <2>1. (i \in 1 .. Len(dirs) /\ dirs'[i] = dirs[i]) \/ dirs'[i] = t
    BY <1>15
  <2>2. CASE j \in 1 .. n /\ todumps'[j] = todumps[j] /\ j \in 1 .. Len(todumps)
    <3>1. CASE dirs'[i] = t
      BY <1>11, <2>2, <3>1
    <3>2. CASE i \in 1 .. Len(dirs) /\ dirs'[i] = dirs[i]
      BY <2>2, <3>2, InvParts DEF StackInv
    <3>. QED  BY <2>1, <3>1, <3>2
  <2>3. CASE j - n \in 1 .. Len(kids) /\ todumps'[j] = kids[j - n]
    <3>1. PICK q \in Paths : q = kids[j - n] /\ Below(q, t)
      BY <1>7, <2>3
    <3>2. CASE dirs'[i] = t
      BY <2>3, <3>1, <3>2, BelowOther
    <3>3. CASE i \in 1 .. Len(dirs) /\ dirs'[i] = dirs[i]
      BY <1>16, <2>3, <3>1, <3>3, BelowTrans
    <3>. QED  BY <2>1, <3>2, <3>3
  <2>. QED  BY <1>10, <2>2, <2>3
<1>18. StackInv'
  BY <1>14, <1>17 DEF StackInv
<1>19. DirsInv'
  <2>1. ASSUME NEW i \in 1 .. Len(dirs')
        PROVE  mem[dirs'[i]].kind = "dir" /\ mem[dirs'[i]].loaded /\ mem[dirs'[i]].modified
    <3>1. CASE i \in 1 .. Len(dirs)
      BY <1>15, <3>1, InvParts DEF DirsInv, Is
    <3>2. CASE i = Len(dirs) + 1
      BY <1>1, <1>4, <1>15, <3>2
    <3>. QED  BY <1>15, <3>1, <3>2
  <2>2. ASSUME NEW i \in 1 .. Len(dirs'), NEW j \in 1 .. Len(dirs'), i < j
        PROVE  dirs'[i] # dirs'[j] /\ ~ Below(dirs'[i], dirs'[j])
    <3>1. i \in 1 .. Len(dirs) /\ dirs'[i] = dirs[i]
      BY <1>15, <2>2
    <3>2. CASE j \in 1 .. Len(dirs)
      BY <1>15, <2>2, <3>1, <3>2, InvParts DEF DirsInv
    <3>3. CASE j = Len(dirs) + 1
      BY <1>15, <1>16, <3>1, <3>3
    <3>. QED  BY <1>15, <3>2, <3>3
  <2>. QED  BY <1>1, <2>1, <2>2 DEF DirsInv, Is
<1>20. ASSUME NEW q \in Paths, mem[q].modified
       PROVE  Occurs(dirs', q) \/ Covers(todumps', q)
  <2>1. Occurs(dirs, q) \/ Covers(todumps, q)
    BY <1>1, <1>20, InvParts DEF CoverInv
  <2>2. ASSUME Occurs(dirs, q) PROVE Occurs(dirs', q)
    <3>1. PICK i \in 1 .. Len(dirs) : dirs[i] = q
      BY <2>2 DEF Occurs
    <3>2. i \in 1 .. Len(dirs') /\ dirs'[i] = q
      BY <1>15, <3>1
    <3>. QED  BY <3>2 DEF Occurs
  <2>3. ASSUME NEW i \in 1 .. n, todumps[i] = q \/ Below(q, todumps[i]) PROVE Covers(todumps', q)
    <3>1. i \in 1 .. Len(todumps') /\ todumps'[i] = todumps[i]
      BY <1>7, <1>9
    <3>. QED  BY <2>3, <3>1 DEF Covers
  <2>4. ASSUME q = t PROVE Occurs(dirs', q)
    <3>1. Len(dirs) + 1 \in 1 .. Len(dirs') /\ dirs'[Len(dirs) + 1] = q
      BY <1>15, <2>4
    <3>. QED  BY <3>1 DEF Occurs
  <2>5. ASSUME Below(q, t) PROVE Covers(todumps', q)
    <3>1. PICK x \in Names : Len(t) # Depth /\ (q = Child(t, x) \/ Below(q, Child(t, x)))
      BY <2>5, ChildAbove
    <3>2. PICK c \in Paths : c = Child(t, x)
      BY <3>1, ChildPath
    <3>3. TreeOK(mem, Known)
      BY <1>1, RunningTree DEF Committing
    <3>4. mem[c].modified
      BY <1>20, <3>1, <3>2, <3>3, TreeParts
    <3>5. lookup(mem, c)
      BY <3>3, <3>4, TreeParts, NoneFields DEF lookup, EntryOK
    <3>6. PICK i \in 1 .. Len(kids) : kids[i] = c
      BY <1>7, <3>1, <3>2, <3>5
    <3>7. n + i \in 1 .. Len(todumps') /\ todumps'[n + i] = c
      BY <1>7, <1>9, <3>6
    <3>. QED  BY <3>1, <3>2, <3>7 DEF Covers
  <2>6. ASSUME Covers(todumps, q) PROVE Occurs(dirs', q) \/ Covers(todumps', q)
    <3>1. PICK i \in 1 .. Len(todumps) : todumps[i] = q \/ Below(q, todumps[i])
      BY <2>6 DEF Covers
    <3>2. i \in 1 .. n \/ i = Len(todumps)
      BY <1>8
    <3>. QED  BY <1>3, <1>4, <2>3, <2>4, <2>5, <3>1, <3>2
  <2>. QED  BY <2>1, <2>2, <2>6
<1>21. CoverInv'
  BY <1>1, <1>20 DEF CoverInv, Occurs, Covers
<1>22. PhaseInv'
  BY <1>1, InvParts DEF PhaseInv
<1>23. CommitInv'
  BY <1>9, <1>15, <1>18, <1>19, <1>21, <1>22 DEF CommitInv
<1>24. MemInv' /\ RefInv'
  BY <1>1, <1>2, InvParts DEF MemInv, RefInv, Committing, Aborts
<1>. QED  BY <1>1, <1>2, <1>23, <1>24, InvParts DEF RepoInv

-----------------------------------------------------------------------------
(* Dumping.                                                                *)

LEMMA NextDirFacts ==
    ASSUME RepoInv, Dumping
    PROVE  /\ NextDir \in Paths /\ Len(dirs) \in Nat \ {0} /\ NextDir = dirs[Len(dirs)]
           /\ mem[NextDir].kind = "dir" /\ mem[NextDir].loaded /\ mem[NextDir].modified
           /\ \A q \in Paths : Below(q, NextDir) => ~ mem[q].modified
           /\ \A i \in 1 .. (Len(dirs) - 1) : dirs[i] # NextDir
           /\ NextDir = Root => Len(dirs) = 1
           /\ TreeOK(mem, Known) /\ mem[Root].modified
<1>1. pc = "dump" /\ dirs # <<>> /\ todumps = <<>> /\ dirs \in Seq(Paths)
  BY InvParts DEF Dumping, PhaseInv
<1>2. Len(dirs) \in Nat \ {0} /\ dirs[Len(dirs)] \in Paths /\ Len(dirs) \in 1 .. Len(dirs)
  BY <1>1
<1>3. PICK d \in Paths : d = NextDir /\ d = dirs[Len(dirs)]
  BY <1>2 DEF NextDir
<1>4. Is(mem, d, "dir") /\ mem[d].loaded /\ mem[d].modified
  BY <1>2, <1>3, InvParts DEF DirsInv
<1>5. ASSUME NEW i \in 1 .. (Len(dirs) - 1) PROVE dirs[i] # d /\ ~ Below(dirs[i], d) /\ dirs[i] \in Paths
  <2>1. i \in 1 .. Len(dirs) /\ i < Len(dirs)
    BY <1>2
  <2>2. dirs[i] # dirs[Len(dirs)] /\ ~ Below(dirs[i], dirs[Len(dirs)])
    BY <1>2, <2>1, InvParts DEF DirsInv
  <2>3. dirs[i] \in Paths
    BY <1>1, <2>1
  <2>. QED  BY <1>3, <2>2, <2>3
<1>6. ASSUME NEW q \in Paths, Below(q, d), mem[q].modified PROVE FALSE
  <2>1. Occurs(dirs, q) \/ Covers(todumps, q)
    BY <1>1, <1>6, InvParts DEF CoverInv
  <2>2. ~ Covers(todumps, q)
    BY <1>1 DEF Covers
  <2>3. PICK i \in 1 .. Len(dirs) : dirs[i] = q
    BY <2>1, <2>2 DEF Occurs
  <2>4. q # d
    BY <1>6, BelowOther
  <2>5. i \in 1 .. (Len(dirs) - 1)
    BY <1>2, <1>3, <2>3, <2>4
  <2>. QED  BY <1>5, <1>6, <2>3, <2>5
<1>7. ASSUME d = Root, Len(dirs) # 1 PROVE FALSE
  <2>1. 1 \in 1 .. (Len(dirs) - 1)
    BY <1>2, <1>7
  <2>. QED  BY <1>5, <1>7, <2>1, BelowRoot
<1>8. TreeOK(mem, Known) /\ mem[Root].modified
  BY <1>1, RunningTree, InvParts DEF PhaseInv, Committing
<1>. QED  BY <1>2, <1>3, <1>4, <1>5, <1>6, <1>7, <1>8 DEF Is

LEMMA DumpDirInv ==
    ASSUME RepoInv, DumpDir
    PROVE  RepoInv'
<1>1. PICK obj : obj = DirObj(mem, NextDir)
  OBVIOUS
<1>2. /\ Stores(obj) \/ StoreFails(obj)
      /\ mem' = [mem EXCEPT ![NextDir].hash = obj, ![NextDir].modified = FALSE]
      /\ dirs' = Prefix(dirs, Len(dirs) - 1)
      /\ UNCHANGED <<pc, todumps>>
  BY <1>1 DEF DumpDir
<1>3. Dumping
  BY DEF DumpDir
<1>4. PICK d \in Paths : d = NextDir
  BY <1>3, NextDirFacts
<1>5. /\ Len(dirs) \in Nat \ {0} /\ d = dirs[Len(dirs)]
      /\ mem[d].kind = "dir" /\ mem[d].loaded /\ mem[d].modified
      /\ \A q \in Paths : Below(q, d) => ~ mem[q].modified
      /\ \A i \in 1 .. (Len(dirs) - 1) : dirs[i] # d
      /\ d = Root => Len(dirs) = 1
      /\ TreeOK(mem, Known) /\ mem[Root].modified
  BY <1>3, <1>4, NextDirFacts
<1>6. obj # NoHash /\ obj.data = 0
  BY <1>1, ObjFacts
<1>7. /\ DiskInv' /\ Known \subseteq Known' /\ obj \in Known'
      /\ refFailed' \in BOOLEAN /\ nEvents' \in 0 .. MaxEvents
  <2>1. CASE Stores(obj)
    <3>1. DiskInv' /\ Known \subseteq Known' /\ obj \in Known'
      BY <1>6, <2>1, StoredDisk DEF Stores
    <3>. QED  BY <2>1, <3>1, InvParts DEF Stores
  <2>2. CASE StoreFails(obj)
    BY <2>2, FailedDisk
  <2>. QED  BY <1>2, <2>1, <2>2
<1>8. mem' = Rehashed(mem, d, obj, FALSE)
  <2>1. [mem EXCEPT ![d].hash = obj, ![d].modified = FALSE] = Rehashed(mem, d, obj, FALSE)
    <3>1. TreeOK(mem, Known)
      BY <1>5
    <3>. QED  BY <3>1, RehashIs
  <2>2. mem' = [mem EXCEPT ![d].hash = obj, ![d].modified = FALSE]
    BY <1>2, <1>4
  <2>. QED  BY <2>1, <2>2
<1>9. TreeOK(mem', Known')
  <2>1. TreeOK(mem, Known')
    BY <1>5, <1>7, TreeGrows
  <2>2. DirAt(obj, Len(d), Known')
    BY <1>1, <1>4, <1>5, <1>7, DirObjStored
  <2>3. obj = DirObj(mem, d)
    BY <1>1, <1>4
  <2>4. TreeOK(Rehashed(mem, d, obj, FALSE), Known')
    BY <1>5, <1>6, <2>1, <2>2, <2>3, RehashedTree
  <2>. QED  BY <1>8, <2>4
<1>10. /\ mem'[d] = Entry(mem[d].kind, obj, FALSE, mem[d].loaded)
       /\ \A q \in Paths : q # d => mem'[q] = mem[q]
  BY <1>8 DEF Rehashed
<1>11. ~ mem'[d].modified
  BY <1>10 DEF Entry
<1>12. /\ dirs' \in Seq(Paths) /\ Len(dirs') = Len(dirs) - 1
       /\ \A i \in 1 .. (Len(dirs) - 1) : dirs'[i] = dirs[i]
  <2>1. dirs \in Seq(Paths)
    BY InvParts
  <2>2. PICK n \in Nat \ {0} : n = Len(dirs)
    BY <1>5
  <2>3. /\ SubSeq(dirs, 1, n - 1) \in Seq(Paths) /\ Len(SubSeq(dirs, 1, n - 1)) = n - 1
        /\ \A i \in 1 .. (n - 1) : SubSeq(dirs, 1, n - 1)[i] = dirs[i]
    BY <2>1, <2>2
  <2>. QED  BY <1>2, <2>2, <2>3 DEF Prefix
<1>13. pc = "dump" /\ pc' = "dump" /\ todumps = <<>> /\ todumps' = <<>>
  BY <1>2, <1>3, InvParts DEF Dumping, PhaseInv
<1>14. StackInv'
  BY <1>13 DEF StackInv
<1>15. ASSUME NEW i \in 1 .. Len(dirs')
       PROVE  i \in 1 .. Len(dirs) /\ dirs'[i] = dirs[i] /\ dirs[i] \in Paths /\ mem'[dirs[i]] = mem[dirs[i]]
  <2>1. i \in 1 .. Len(dirs) /\ i \in 1 .. (Len(dirs) - 1)
    BY <1>5, <1>12
  <2>2. dirs[i] \in Paths /\ dirs[i] # d
    BY <1>5, <2>1, InvParts
  <2>. QED  BY <1>10, <1>12, <2>1, <2>2
<1>16. DirsInv'
  <2>1. \A i \in 1 .. Len(dirs) : mem[dirs[i]].kind = "dir" /\ mem[dirs[i]].loaded /\ mem[dirs[i]].modified
    BY InvParts DEF DirsInv, Is
  <2>2. \A i, j \in 1 .. Len(dirs) : i < j => dirs[i] # dirs[j] /\ ~ Below(dirs[i], dirs[j])
    BY InvParts DEF DirsInv
  <2>3. \A i \in 1 .. Len(dirs') : mem'[dirs'[i]].kind = "dir" /\ mem'[dirs'[i]].loaded /\ mem'[dirs'[i]].modified
    BY <1>15, <2>1
  <2>4. \A i, j \in 1 .. Len(dirs') : i < j => dirs'[i] # dirs'[j] /\ ~ Below(dirs'[i], dirs'[j])
    BY <1>15, <2>2
  <2>. QED  BY <2>3, <2>4 DEF DirsInv, Is
<1>17. ASSUME NEW q \in Paths, mem'[q].modified PROVE Occurs(dirs', q)
  <2>1. q # d /\ mem[q].modified
    BY <1>10, <1>11, <1>17
  <2>2. Occurs(dirs, q) \/ Covers(todumps, q)
    BY <1>13, <2>1, InvParts DEF CoverInv
  <2>3. ~ Covers(todumps, q)
    BY <1>13 DEF Covers
  <2>4. PICK i \in 1 .. Len(dirs) : dirs[i] = q
    BY <2>2, <2>3 DEF Occurs
  <2>5. i \in 1 .. (Len(dirs) - 1)
    BY <1>5, <2>1, <2>4
  <2>6. i \in 1 .. Len(dirs') /\ dirs'[i] = q
    BY <1>12, <2>4, <2>5
  <2>. QED  BY <2>6 DEF Occurs
<1>18. CoverInv'
  BY <1>17 DEF CoverInv, Occurs, Covers
<1>19. PhaseInv'
  <2>1. dirs' # <<>> => mem'[Root].modified
    <3>1. ASSUME dirs' # <<>> PROVE mem'[Root].modified
      <4>1. d # Root
        <5>1. Len(dirs') # 0
          BY <1>12, <3>1
        <5>. QED  BY <1>5, <1>12, <5>1
      <4>. QED  BY <1>5, <1>10, <4>1, RootPath
    <3>. QED  BY <3>1
  <2>. QED  BY <1>13, <2>1 DEF PhaseInv
<1>20. CommitInv'
  <2>1. todumps' \in Seq(Paths)
    BY <1>13
  <2>. QED  BY <1>12, <1>14, <1>16, <1>18, <1>19, <2>1 DEF CommitInv
<1>21. MemInv' /\ RefInv'
  BY <1>9, <1>13 DEF MemInv, RefInv, Committing, Aborts
<1>. QED  BY <1>7, <1>20, <1>21 DEF RepoInv

LEMMA DumpDirFailsInv ==
    ASSUME RepoInv, DumpDirFails
    PROVE  RepoInv'
<1>1. PICK obj : obj = DirObj(mem, NextDir)
  OBVIOUS
<1>2. /\ Dumping /\ nEvents < MaxEvents /\ nEvents' = nEvents + 1
      /\ objects' = IF obj \in cut THEN objects ELSE objects \cup {obj}
      /\ mem' = [mem EXCEPT ![NextDir].hash = obj]
      /\ pc' = "idle" /\ todumps' = <<>> /\ dirs' = <<>>
      /\ UNCHANGED <<cut, rootRef, unwritten, refFailed>>
  BY <1>1 DEF DumpDirFails, Return
<1>3. PICK d \in Paths : d = NextDir
  BY <1>2, NextDirFacts
<1>4. /\ mem[d].kind = "dir" /\ mem[d].modified
      /\ TreeOK(mem, Known) /\ mem[Root].modified
  BY <1>2, <1>3, NextDirFacts
<1>5. obj # NoHash /\ obj.data = 0
  BY <1>1, ObjFacts
<1>6. DiskInv' /\ Known \subseteq Known'
  BY <1>2, <1>5, StoredDisk
<1>7. mem' = Rehashed(mem, d, obj, TRUE)
  BY <1>2, <1>3, <1>4, RehashIs
<1>8. TreeOK(mem', Known')
  <2>1. TreeOK(mem, Known')
    BY <1>4, <1>6, TreeGrows
  <2>2. TreeOK(Rehashed(mem, d, obj, TRUE), Known')
    BY <1>4, <1>5, <2>1, RehashedTree
  <2>. QED  BY <1>7, <2>2
<1>9. mem'[Root].modified
  <2>1. CASE d = Root
    <3>1. mem'[d] = Entry(mem[d].kind, obj, TRUE, mem[d].loaded)
      BY <1>7 DEF Rehashed
    <3>2. mem'[d].modified
      BY <3>1 DEF Entry
    <3>. QED  BY <2>1, <3>2
  <2>2. CASE d # Root
    <3>1. mem'[Root] = mem[Root]
      BY <1>7, <2>2, RootPath DEF Rehashed
    <3>. QED  BY <1>4, <3>1
  <2>. QED  BY <2>1, <2>2
<1>10. RefInv' /\ nEvents' \in 0 .. MaxEvents /\ refFailed' \in BOOLEAN
  BY <1>2, <1>9, InvParts, RepoAssumption DEF RefInv
<1>. QED  BY <1>2, <1>6, <1>8, <1>10, IdleStep

LEMMA DumpEndInv ==
    ASSUME RepoInv, DumpEnd
    PROVE  RepoInv'
<1>1. /\ pc = "dump" /\ dirs = <<>> /\ pc' = "truncate"
      /\ UNCHANGED <<mem, todumps, dirs, objects, cut, rootRef, unwritten, refFailed, nEvents>>
  BY DEF DumpEnd, commitVars, disk
<1>2. DiskInv' /\ Known' = Known /\ refFailed' \in BOOLEAN
  BY <1>1, SameDisk DEF disk
<1>3. MemInv' /\ RefInv'
  BY <1>1, <1>2, InvParts DEF MemInv, RefInv, Committing, Aborts
<1>4. todumps = <<>>
  BY <1>1, InvParts DEF PhaseInv
<1>5. StackInv'
  BY <1>1, <1>4 DEF StackInv
<1>6. DirsInv' /\ CoverInv'
  BY <1>1 DEF DirsInv, CoverInv
<1>7. ~ mem[Root].modified
  <2>1. ~ Occurs(dirs, Root) /\ ~ Covers(todumps, Root)
    BY <1>1, <1>4 DEF Occurs, Covers
  <2>. QED  BY <1>1, <2>1, RootPath, InvParts DEF CoverInv
<1>8. PhaseInv'
  BY <1>1, <1>4, <1>7 DEF PhaseInv
<1>. QED  BY <1>1, <1>2, <1>3, <1>5, <1>6, <1>8, InvParts DEF RepoInv, CommitInv

-----------------------------------------------------------------------------
(* root-ref, crash and restart.                                            *)

LEMMA TruncateRefInv ==
    ASSUME RepoInv, TruncateRef
    PROVE  RepoInv'
<1>1. /\ pc = "truncate" /\ pc' = "write" /\ rootRef' = NoHash
      /\ UNCHANGED <<mem, todumps, dirs, objects, cut, unwritten, refFailed, nEvents>>
  BY DEF TruncateRef, commitVars
<1>2. DiskInv' /\ Known' = Known
  BY <1>1, InvParts DEF DiskInv, Known
<1>3. MemInv' /\ RefInv'
  BY <1>1, <1>2, InvParts DEF MemInv, RefInv, Committing, Aborts
<1>4. todumps = <<>> /\ dirs = <<>> /\ ~ mem[Root].modified
  BY <1>1, InvParts DEF PhaseInv
<1>5. StackInv' /\ DirsInv' /\ CoverInv' /\ PhaseInv'
  BY <1>1, <1>4 DEF StackInv, DirsInv, CoverInv, PhaseInv
<1>. QED  BY <1>1, <1>2, <1>3, <1>5, InvParts DEF RepoInv, CommitInv

LEMMA WriteRefInv ==
    ASSUME RepoInv, WriteRef
    PROVE  RepoInv'
<1>1. /\ pc = "write" /\ rootRef' = mem[Root].hash /\ refFailed' = FALSE
      /\ pc' = "idle" /\ todumps' = <<>> /\ dirs' = <<>>
      /\ UNCHANGED <<mem, objects, cut, unwritten, nEvents>>
  BY DEF WriteRef, Return
<1>2. Known' = Known /\ TreeOK(mem, Known) /\ ~ mem[Root].modified
  BY <1>1, RunningTree, InvParts DEF PhaseInv, Committing, Known
<1>3. DirAt(mem[Root].hash, 0, Known)
  BY <1>2, RootPath, TreeParts
<1>4. DiskInv'
  BY <1>1, <1>2, <1>3, InvParts DEF DiskInv
<1>5. RefInv'
  BY <1>1 DEF RefInv
<1>. QED  BY <1>1, <1>2, <1>4, <1>5, InvParts, IdleStep

LEMMA RefFailsInv ==
    ASSUME RepoInv, RefFails
    PROVE  RepoInv'
<1>1. /\ pc \in {"truncate", "write"} /\ nEvents < MaxEvents /\ nEvents' = nEvents + 1
      /\ refFailed' = TRUE /\ pc' = "idle" /\ todumps' = <<>> /\ dirs' = <<>>
      /\ UNCHANGED <<mem, objects, cut, rootRef, unwritten>>
  BY DEF RefFails, Return
<1>2. Known' = Known /\ TreeOK(mem, Known)
  BY <1>1, RunningTree DEF Committing, Known
<1>3. DiskInv' /\ RefInv'
  BY <1>1, <1>2, InvParts DEF DiskInv, RefInv
<1>4. nEvents' \in 0 .. MaxEvents
  BY <1>1, InvParts, RepoAssumption
<1>. QED  BY <1>1, <1>2, <1>3, <1>4, IdleStep

LEMMA CrashInv ==
    ASSUME RepoInv, Crash
    PROVE  RepoInv'
<1>1. /\ mem' = Opened(rootRef) /\ pc' = "down" /\ todumps' = <<>> /\ dirs' = <<>>
      /\ \/ UNCHANGED <<cut, unwritten>>
         \/ \E obj \in InFlight \ (objects \cup cut) :
                cut' = cut \cup {obj} /\ unwritten' = unwritten \cup {obj}
      /\ UNCHANGED <<objects, rootRef, refFailed, nEvents>>
  BY DEF Crash
<1>2. Known \subseteq Known' /\ cut' \subseteq unwritten' /\ objects' \cap cut' = {}
  BY <1>1, InvParts DEF DiskInv, Known
<1>3. rootRef' = NoHash \/ DirAt(rootRef', 0, Known')
  BY <1>1, <1>2, InvParts, DirAtGrows DEF DiskInv
<1>4. DiskInv'
  BY <1>1, <1>2, <1>3, InvParts DEF DiskInv
<1>5. MemInv' /\ RefInv'
  BY <1>1 DEF MemInv, RefInv, Committing, Aborts
<1>6. StackInv' /\ DirsInv' /\ CoverInv' /\ PhaseInv'
  BY <1>1 DEF StackInv, DirsInv, CoverInv, PhaseInv
<1>7. todumps' \in Seq(Paths) /\ dirs' \in Seq(Paths)
  BY <1>1
<1>. QED  BY <1>1, <1>4, <1>5, <1>6, <1>7, InvParts DEF RepoInv, CommitInv

LEMMA OpenedTree ==
    ASSUME NEW h, NEW K, DirAt(h, 0, K)
    PROVE  TreeOK(Opened(h), K) /\ NeedsLoad(Opened(h), Root)
<1>1. PICK w : w = Opened(h)
  OBVIOUS
<1>2. /\ w = [p \in Paths |-> w[p]] /\ w[Root] = Entry("dir", h, FALSE, FALSE)
      /\ \A p \in Paths : p # Root => w[p] = None
  BY <1>1, RootPath DEF Opened
<1>3. w[Root].kind = "dir" /\ w[Root].hash = h /\ w[Root].modified = FALSE /\ w[Root].loaded = FALSE
  BY <1>2 DEF Entry
<1>4. EntryOK(w[Root], K)
  <2>1. w[Root] = Entry(w[Root].kind, w[Root].hash, w[Root].modified, w[Root].loaded)
    BY <1>2, <1>3
  <2>2. h.data = 0
    BY DirAtData
  <2>. QED  BY <1>3, <2>1, <2>2 DEF EntryOK, Kinds
<1>5. \A p \in Paths : EntryOK(w[p], K)
  BY <1>2, <1>4, NoneOK
<1>6. \A p, q \in Paths : Below(q, p) => ~ lookup(w, q) /\ ~ w[q].modified
  <2>1. \A p, q \in Paths : Below(q, p) => w[q] = None
    BY <1>2, BelowOther
  <2>. QED  BY <2>1, NoneFields DEF lookup
<1>7. ASSUME NEW p \in Paths, Is(w, p, "dir") PROVE DirAt(w[p].hash, Len(p), K) /\ ~ w[p].loaded
  <2>1. p = Root
    BY <1>2, <1>7, NoneFields DEF Is
  <2>. QED  BY <1>3, <2>1, RootPath
<1>8. TreeOK(w, K)
  BY <1>2, <1>3, <1>5, <1>6, <1>7 DEF TreeOK, Is
<1>9. NeedsLoad(w, Root)
  BY <1>3 DEF NeedsLoad, Is
<1>. QED  BY <1>1, <1>8, <1>9

LEMMA OpenInv ==
    ASSUME RepoInv, Open
    PROVE  RepoInv'
<1>1. /\ pc = "down" /\ rootRef \in objects /\ mem' = load(mem, Root) /\ pc' = "idle" /\ refFailed' = FALSE
      /\ UNCHANGED <<todumps, dirs, objects, cut, rootRef, unwritten, nEvents>>
  BY DEF Open, commitVars
<1>2. mem = Opened(rootRef) /\ DirAt(rootRef, 0, Known) /\ todumps = <<>> /\ dirs = <<>>
  BY <1>1, InvParts DEF MemInv, DiskInv, PhaseInv
<1>3. TreeOK(mem, Known) /\ NeedsLoad(mem, Root)
  BY <1>2, OpenedTree
<1>4. TreeOK(mem', Known) /\ mem'[Root].hash = mem[Root].hash
  BY <1>1, <1>3, RootPath, LoadedTree
<1>5. mem[Root].hash = rootRef
  <2>1. mem[Root] = Entry("dir", rootRef, FALSE, FALSE)
    BY <1>2, RootPath DEF Opened
  <2>. QED  BY <2>1 DEF Entry
<1>6. DiskInv' /\ Known' = Known
  BY <1>1, InvParts DEF DiskInv, Known
<1>7. RefInv'
  BY <1>1, <1>4, <1>5 DEF RefInv
<1>. QED  BY <1>1, <1>2, <1>4, <1>6, <1>7, InvParts, IdleStep

LEMMA OpenAbortsInv ==
    ASSUME RepoInv, OpenAborts
    PROVE  RepoInv'
<1>1. /\ pc' \in {"no root-ref", "no object"}
      /\ UNCHANGED <<mem, todumps, dirs, objects, cut, rootRef, unwritten, refFailed, nEvents>>
  BY DEF OpenAborts, abort, commitVars, disk
<1>. QED  BY <1>1, InvParts, AbortStep DEF Aborts

LEMMA StutterInv ==
    ASSUME RepoInv, UNCHANGED vars
    PROVE  RepoInv'
<1>1. UNCHANGED <<mem, pc, todumps, dirs, objects, cut, rootRef, unwritten, refFailed, nEvents>>
  BY DEF vars, commitVars, disk
<1>2. DiskInv' /\ Known' = Known
  BY <1>1, InvParts DEF DiskInv, Known
<1>3. MemInv' /\ RefInv'
  BY <1>1, <1>2, InvParts DEF MemInv, RefInv
<1>4. StackInv' /\ PhaseInv'
  BY <1>1, InvParts DEF StackInv, PhaseInv
<1>5. DirsInv' /\ CoverInv'
  BY <1>1, InvParts DEF DirsInv, CoverInv, Is, Occurs, Covers
<1>. QED  BY <1>1, <1>2, <1>3, <1>4, <1>5, InvParts DEF RepoInv, CommitInv

-----------------------------------------------------------------------------
(* The invariant holds.                                                    *)

LEMMA EmptyDirAt == DirAt(EmptyDir, 0, {EmptyDir})
<1>1. EmptyDir.ents = [n \in Names |-> NoDentry]
  BY DEF EmptyDir, Hash
<1>2. \A n \in Names : EmptyDir.ents[n] = NoDentry
  BY <1>1
<1>3. EmptyDir = Hash("DIR", [n \in Names |-> EmptyDir.ents[n]], 0)
  <2>1. [n \in Names |-> EmptyDir.ents[n]] = [n \in Names |-> NoDentry]
    BY <1>2
  <2>. QED  BY <2>1 DEF EmptyDir
<1>4. DentryOK(NoDentry, {EmptyDir}) /\ NoDentry.kind # "dir"
  BY NoneFields DEF DentryOK, NoDentry, Kinds
<1>. QED  BY <1>2, <1>3, <1>4, DirAtMade

LEMMA InitInv ==
    ASSUME Init
    PROVE  RepoInv
<1>1. /\ mem = load(Opened(EmptyDir), Root) /\ pc = "idle" /\ todumps = <<>> /\ dirs = <<>>
      /\ objects = {EmptyDir} /\ cut = {} /\ rootRef = EmptyDir
      /\ unwritten = {} /\ refFailed = FALSE /\ nEvents = 0
  BY DEF Init
<1>2. Known = {EmptyDir}
  BY <1>1 DEF Known
<1>3. EmptyDir # NoHash
  BY DEF EmptyDir, NoHash, Hash
<1>4. DiskInv
  BY <1>1, <1>2, <1>3, EmptyDirAt DEF DiskInv
<1>5. PICK o : o = Opened(EmptyDir)
  OBVIOUS
<1>6. TreeOK(o, Known) /\ NeedsLoad(o, Root)
  BY <1>2, <1>5, EmptyDirAt, OpenedTree
<1>7. TreeOK(mem, Known) /\ mem[Root].hash = o[Root].hash
  BY <1>1, <1>5, <1>6, RootPath, LoadedTree
<1>8. o[Root].hash = EmptyDir
  <2>1. o[Root] = Entry("dir", EmptyDir, FALSE, FALSE)
    BY <1>5, RootPath DEF Opened
  <2>. QED  BY <2>1 DEF Entry
<1>9. MemInv /\ RefInv
  BY <1>1, <1>7, <1>8 DEF MemInv, RefInv, Committing, Aborts
<1>10. StackInv /\ DirsInv /\ CoverInv /\ PhaseInv
  BY <1>1 DEF StackInv, DirsInv, CoverInv, PhaseInv
<1>11. todumps \in Seq(Paths) /\ dirs \in Seq(Paths)
  BY <1>1
<1>12. nEvents \in 0 .. MaxEvents
  BY <1>1, RepoAssumption
<1>. QED  BY <1>1, <1>4, <1>9, <1>10, <1>11, <1>12 DEF RepoInv, CommitInv

LEMMA NextInv ==
    ASSUME RepoInv, Careful, Next
    PROVE  RepoInv'
<1>1. ASSUME NEW p \in Paths, Find(p) \/ FindAborts(p) PROVE RepoInv'
  BY <1>1, FindInv, FindAbortsInv
<1>2. ASSUME NEW p \in Paths \ {Root},
             \/ \E kind \in Leaves : Add(p, kind)
             \/ AddDir(p) \/ Remove(p) \/ MarkRemoved(p) \/ MarkModified(p)
      PROVE  RepoInv'
  BY <1>2, AddInv, AddDirInv, RemoveInv, MarkRemovedInv, MarkModifiedInv
<1>3. ASSUME CommitBegin PROVE RepoInv'
  BY <1>3, CommitBeginInv
<1>4. ASSUME CommitStep PROVE RepoInv'
  <2>1. ASSUME NEW c \in Contents, HashFile(c) \/ HashFileFails(c) \/ DumpLink(c) \/ DumpLinkFails(c)
        PROVE  RepoInv'
    BY <2>1, HashFileInv, HashFileFailsInv, DumpLinkInv, DumpLinkFailsInv
  <2>. QED
    BY <1>4, <2>1, SkipInv, CollectDirInv, CollectEndInv, DumpDirInv, DumpDirFailsInv, DumpEndInv,
       TruncateRefInv, WriteRefInv, RefFailsInv DEF CommitStep
<1>5. ASSUME Crash \/ Open \/ OpenAborts PROVE RepoInv'
  BY <1>5, CrashInv, OpenInv, OpenAbortsInv
<1>6. ASSUME Aborted PROVE RepoInv'
  BY <1>6, StutterInv DEF Aborted
<1>. QED  BY <1>1, <1>2, <1>3, <1>4, <1>5, <1>6 DEF Next

LEMMA RepoCorrect ==
    ASSUME Careful
    PROVE  Spec => []RepoInv
<1>1. Init => RepoInv
  BY InitInv
<1>2. RepoInv /\ [Next]_vars => RepoInv'
  BY NextInv, StutterInv
<1>. QED  BY <1>1, <1>2, PTL DEF Spec

-----------------------------------------------------------------------------
(* What the invariant says.                                                *)

LEMMA MemTypes ==
    ASSUME RepoInv
    PROVE  /\ DOMAIN mem = Paths
           /\ \A p \in Paths :
                /\ mem[p].kind \in Kinds /\ mem[p].modified \in BOOLEAN /\ mem[p].loaded \in BOOLEAN
                /\ p # Root /\ lookup(mem, p) => Is(mem, Parent(p), "dir")
           /\ CleanMatches
<1>1. CASE TreeOK(mem, Known)
  <2>1. DOMAIN mem = Paths
    BY <1>1, TreeParts
  <2>2. \A p \in Paths : mem[p].kind \in Kinds /\ mem[p].modified \in BOOLEAN /\ mem[p].loaded \in BOOLEAN
    BY <1>1, TreeParts DEF EntryOK
  <2>3. \A p \in Paths : p # Root /\ lookup(mem, p) => Is(mem, Parent(p), "dir")
    BY <1>1, TreeParts, ParentPath
  <2>4. CleanMatches
    BY <1>1, TreeParts DEF CleanMatches, Under
  <2>. QED  BY <2>1, <2>2, <2>3, <2>4
<1>2. CASE mem = Opened(rootRef)
  <2>1. /\ DOMAIN mem = Paths /\ mem[Root] = Entry("dir", rootRef, FALSE, FALSE)
        /\ \A p \in Paths : p # Root => mem[p] = None
    BY <1>2, RootPath DEF Opened
  <2>2. mem[Root].kind = "dir" /\ mem[Root].modified = FALSE /\ mem[Root].loaded = FALSE
    BY <2>1 DEF Entry
  <2>3. \A p \in Paths : mem[p].kind \in Kinds /\ mem[p].modified = FALSE /\ mem[p].loaded = FALSE
    BY <2>1, <2>2, NoneFields DEF Kinds
  <2>4. \A p \in Paths : p # Root => ~ lookup(mem, p)
    BY <2>1, NoneFields DEF lookup
  <2>5. CleanMatches
    BY <2>3 DEF CleanMatches
  <2>. QED  BY <2>1, <2>3, <2>4, <2>5
<1>. QED  BY <1>1, <1>2, InvParts DEF MemInv

-----------------------------------------------------------------------------
(* The way down from a hash.                                               *)

EntsOf(h) == IF h.type = "DIR" THEN h.ents ELSE [n \in Names |-> NoDentry]

Way(h, p, n, f) == f = [i \in 0 .. n |-> IF i = 0 THEN Dentry("dir", h) ELSE EntsOf(f[i - 1].hash)[p[i]]]

LEMMA WayExists ==
    ASSUME NEW h, NEW p
    PROVE  \A n \in Nat : \E f : Way(h, p, n, f)
<1> DEFINE S == {n \in Nat : \E f : Way(h, p, n, f)}
<1>1. 0 \in S
  <2> DEFINE f == [i \in 0 .. 0 |-> Dentry("dir", h)]
  <2>1. f = [i \in 0 .. 0 |-> IF i = 0 THEN Dentry("dir", h) ELSE EntsOf(f[i - 1].hash)[p[i]]]
    OBVIOUS
  <2> HIDE DEF f
  <2>. QED  BY <2>1 DEF Way
<1>2. ASSUME NEW n \in Nat, n \in S PROVE n + 1 \in S
  <2>1. PICK f : Way(h, p, n, f)
    BY <1>2
  <2> DEFINE u == [i \in 0 .. (n + 1) |-> IF i <= n THEN f[i] ELSE EntsOf(f[n].hash)[p[n + 1]]]
  <2>2. ASSUME NEW i \in 0 .. (n + 1)
        PROVE  u[i] = IF i = 0 THEN Dentry("dir", h) ELSE EntsOf(u[i - 1].hash)[p[i]]
    <3>1. CASE i = 0
      BY <2>1, <3>1 DEF Way
    <3>2. CASE i \in 1 .. n
      <4>1. u[i] = f[i] /\ u[i - 1] = f[i - 1]
        BY <3>2
      <4>2. f[i] = EntsOf(f[i - 1].hash)[p[i]]
        BY <2>1, <3>2 DEF Way
      <4> HIDE DEF u
      <4>. QED  BY <3>2, <4>1, <4>2
    <3>3. CASE i = n + 1
      <4>1. u[i] = EntsOf(f[n].hash)[p[i]] /\ u[i - 1] = f[n]
        BY <3>3
      <4> HIDE DEF u
      <4>. QED  BY <3>3, <4>1
    <3>. QED  BY <3>1, <3>2, <3>3
  <2>3. u = [i \in 0 .. (n + 1) |-> u[i]]
    OBVIOUS
  <2> HIDE DEF u
  <2>4. Way(h, p, n + 1, u)
    BY <2>2, <2>3 DEF Way
  <2>. QED  BY <2>4
<1>3. \A k \in Nat : k \in S
  <2> HIDE DEF S
  <2>. QED  BY <1>1, <1>2, Induction
<1>. QED  BY <1>3

\* The steps of a way, and that there is only one.
Steps(h, p, n, f) ==
    f[0] = Dentry("dir", h) /\ \A i \in 1 .. n : f[i] = EntsOf(f[i - 1].hash)[p[i]]

LEMMA FollowIs ==
    ASSUME NEW h, NEW p \in Seq(Names)
    PROVE  \E f : Steps(h, p, Len(p), f) /\ Follow(h, p) = f[Len(p)]
<1>1. Len(p) \in Nat
  OBVIOUS
<1> DEFINE Ents(g) == IF g.type = "DIR" THEN g.ents ELSE [n \in Names |-> NoDentry]
           T(f) == f = [i \in 0 .. Len(p) |-> IF i = 0 THEN Dentry("dir", h) ELSE Ents(f[i - 1].hash)[p[i]]]
           u == CHOOSE f : T(f)
<1>2. \E f : T(f)
  <2>1. PICK f : Way(h, p, Len(p), f)
    BY <1>1, WayExists
  <2>2. T(f)
    BY <2>1 DEF Way, EntsOf
  <2>. QED  BY <2>2
<1>3. T(u)
  <2> HIDE DEF T
  <2>. QED  BY <1>2
<1>4. Follow(h, p) = u[Len(p)]
  BY DEF Follow
<1> HIDE DEF u
<1>5. Steps(h, p, Len(p), u)
  BY <1>1, <1>3 DEF Steps, EntsOf
<1>. QED  BY <1>4, <1>5

Agree(p, q, n) == \A i \in 1 .. n : p[i] = q[i]

LEMMA StepsSame ==
    ASSUME NEW h, NEW p, NEW q, NEW n \in Nat, NEW f, NEW g,
           Steps(h, p, n, f), Steps(h, q, n, g), Agree(p, q, n)
    PROVE  f[n] = g[n]
<1> DEFINE S == {i \in Nat : i <= n => f[i] = g[i]}
<1>1. 0 \in S
  BY DEF Steps
<1>2. ASSUME NEW i \in Nat, i \in S PROVE i + 1 \in S
  <2> SUFFICES ASSUME i + 1 <= n PROVE f[i + 1] = g[i + 1]
    OBVIOUS
  <2>1. f[i] = g[i] /\ p[i + 1] = q[i + 1]
    BY <1>2 DEF Agree
  <2>2. f[i + 1] = EntsOf(f[i].hash)[p[i + 1]] /\ g[i + 1] = EntsOf(g[i].hash)[q[i + 1]]
    <3>1. i + 1 \in 1 .. n /\ (i + 1) - 1 = i
      OBVIOUS
    <3>. QED  BY <3>1 DEF Steps
  <2>. QED  BY <2>1, <2>2
<1>3. \A k \in Nat : k \in S
  <2> HIDE DEF S
  <2>. QED  BY <1>1, <1>2, Induction
<1>. QED  BY <1>3

\* Follow along the way to p.
LEMMA FollowAlong ==
    ASSUME NEW h, NEW p \in Paths
    PROVE  \E f : Steps(h, p, Len(p), f) /\ \A i \in 0 .. Len(p) : Follow(h, Prefix(p, i)) = f[i]
<1>1. p \in Seq(Names) /\ Len(p) \in Nat
  BY PathType
<1>2. PICK f : Steps(h, p, Len(p), f)
  BY <1>1, FollowIs
<1>3. ASSUME NEW i \in 0 .. Len(p) PROVE Follow(h, Prefix(p, i)) = f[i]
  <2>1. PICK q \in Paths : q = Prefix(p, i) /\ Len(q) = i /\ \A k \in 1 .. i : q[k] = p[k]
    BY PrefixPath
  <2>2. q \in Seq(Names)
    BY PathType
  <2>3. PICK g : Steps(h, q, i, g) /\ Follow(h, q) = g[i]
    BY <2>1, <2>2, FollowIs
  <2>4. Steps(h, p, i, f)
    BY <1>1, <1>2 DEF Steps
  <2>5. PICK n \in Nat : n = i
    BY <1>1
  <2>6. Steps(h, q, n, g) /\ Steps(h, p, n, f) /\ Agree(q, p, n)
    BY <2>1, <2>3, <2>4, <2>5 DEF Agree
  <2>7. g[n] = f[n]
    BY <2>6, StepsSame
  <2>. QED  BY <2>1, <2>3, <2>5, <2>7
<1>. QED  BY <1>2, <1>3

LEMMA FollowRoot == \A h : Follow(h, Root) = Dentry("dir", h)
<1> SUFFICES ASSUME NEW h PROVE Follow(h, Root) = Dentry("dir", h)
  OBVIOUS
<1>1. Root \in Seq(Names) /\ Len(Root) = 0
  BY DEF Root
<1>2. PICK f : Steps(h, Root, Len(Root), f) /\ Follow(h, Root) = f[Len(Root)]
  BY <1>1, FollowIs
<1>. QED  BY <1>1, <1>2 DEF Steps

LEMMA FollowChild ==
    ASSUME NEW h, NEW p \in Paths, p # Root
    PROVE  Follow(h, p) = EntsOf(Follow(h, Parent(p)).hash)[p[Len(p)]]
<1>1. PICK n \in Nat \ {0} : n = Len(p)
  BY ParentPath
<1>2. PICK f : Steps(h, p, n, f) /\ \A i \in 0 .. n : Follow(h, Prefix(p, i)) = f[i]
  BY <1>1, FollowAlong
<1>3. f[n] = EntsOf(f[n - 1].hash)[p[n]]
  BY <1>2 DEF Steps
<1>4. Follow(h, Prefix(p, n)) = f[n] /\ Follow(h, Prefix(p, n - 1)) = f[n - 1]
  BY <1>1, <1>2
<1>5. Prefix(p, n) = p
  <2>1. /\ Prefix(p, n) \in Paths /\ Len(Prefix(p, n)) = n
        /\ \A k \in 1 .. n : Prefix(p, n)[k] = p[k]
    BY <1>1, PrefixPath
  <2>. QED  BY <1>1, <2>1, PathEqual
<1>. QED  BY <1>1, <1>3, <1>4, <1>5 DEF Parent

\* A way is the way to a directory on it, and the way on from there.
LEMMA FollowJoin ==
    ASSUME NEW h, NEW p \in Paths, NEW i \in 0 .. (Len(p) - 1)
    PROVE  Follow(Follow(h, Prefix(p, i)).hash, SubSeq(p, i + 1, Len(p))) = Follow(h, p)
<1>1. PICK n \in Nat : n = Len(p)
  BY PathLen
<1>2. PICK f : Steps(h, p, n, f) /\ \A k \in 0 .. n : Follow(h, Prefix(p, k)) = f[k]
  BY <1>1, FollowAlong
<1>3. PICK r : r = SubSeq(p, i + 1, n)
  OBVIOUS
<1>4. r \in Seq(Names) /\ Len(r) = n - i /\ \A k \in 1 .. (n - i) : r[k] = p[i + k]
  <2>1. p \in Seq(Names)
    BY PathType
  <2>. QED  BY <1>1, <1>3, <2>1
<1>5. PICK g : Steps(f[i].hash, r, n - i, g) /\ Follow(f[i].hash, r) = g[n - i]
  BY <1>4, FollowIs
<1> DEFINE S == {k \in Nat : k <= n - i => g[k].hash = f[i + k].hash /\ (k # 0 => g[k] = f[i + k])}
<1>6. 0 \in S
  <2>1. g[0].hash = f[i].hash /\ i + 0 = i
    BY <1>5, DentryFields DEF Steps
  <2>. QED  BY <2>1
<1>7. ASSUME NEW k \in Nat, k \in S PROVE k + 1 \in S
  <2> SUFFICES ASSUME k + 1 <= n - i PROVE g[k + 1] = f[i + (k + 1)]
    OBVIOUS
  <2>1. g[k].hash = f[i + k].hash
    BY <1>1, <1>7
  <2>2. g[k + 1] = EntsOf(g[k].hash)[r[k + 1]]
    <3>1. k + 1 \in 1 .. (n - i) /\ (k + 1) - 1 = k
      BY <1>1
    <3>. QED  BY <1>5, <3>1 DEF Steps
  <2>3. f[i + (k + 1)] = EntsOf(f[i + k].hash)[p[i + (k + 1)]]
    <3>1. i + (k + 1) \in 1 .. n /\ (i + (k + 1)) - 1 = i + k
      BY <1>1
    <3>. QED  BY <1>2, <3>1 DEF Steps
  <2>4. r[k + 1] = p[i + (k + 1)]
    BY <1>1, <1>4
  <2>. QED  BY <2>1, <2>2, <2>3, <2>4
<1>8. \A k \in Nat : k \in S
  <2> HIDE DEF S
  <2>. QED  BY <1>6, <1>7, Induction
<1>9. n - i \in Nat /\ n - i # 0 /\ i + (n - i) = n
  BY <1>1
<1>10. g[n - i] = f[n]
  BY <1>8, <1>9
<1>11. Follow(h, Prefix(p, i)) = f[i] /\ Follow(h, Prefix(p, n)) = f[n]
  BY <1>1, <1>2
<1>12. Prefix(p, n) = p
  <2>1. /\ Prefix(p, n) \in Paths /\ Len(Prefix(p, n)) = n
        /\ \A k \in 1 .. n : Prefix(p, n)[k] = p[k]
    BY <1>1, PrefixPath
  <2>. QED  BY <1>1, <2>1, PathEqual
<1>. QED  BY <1>1, <1>3, <1>5, <1>10, <1>11, <1>12

\* What is met on the way down from a directory object.
MeetOK(e, d, K) == DentryOK(e, K) /\ (e.kind = "dir" => DirAt(e.hash, d, K))

LEMMA FollowStep ==
    ASSUME NEW e, NEW d \in Nat, NEW K, NEW n \in Names, MeetOK(e, d, K)
    PROVE  MeetOK(EntsOf(e.hash)[n], d + 1, K)
<1>1. CASE e.kind = "dir"
  <2>1. PICK g : g = e.hash
    OBVIOUS
  <2>2. DirAt(g, d, K)
    BY <1>1, <2>1 DEF MeetOK
  <2>3. /\ g = Hash("DIR", [k \in Names |-> g.ents[k]], 0)
        /\ DentryOK(g.ents[n], K) /\ (g.ents[n].kind = "dir" => DirAt(g.ents[n].hash, d + 1, K))
    BY <2>2, DirAtParts
  <2>4. g.type = "DIR"
    BY <2>3 DEF Hash
  <2>5. EntsOf(e.hash)[n] = g.ents[n]
    BY <2>1, <2>4 DEF EntsOf
  <2>. QED  BY <2>3, <2>5 DEF MeetOK
<1>2. CASE e.kind # "dir"
  <2>1. e.hash.type # "DIR"
    BY <1>2 DEF MeetOK, DentryOK
  <2>2. EntsOf(e.hash)[n] = NoDentry
    BY <2>1 DEF EntsOf
  <2>3. NoDentry = Dentry(NoDentry.kind, NoDentry.hash)
    BY NoneFields DEF NoDentry
  <2>4. DentryOK(NoDentry, K)
    BY <2>3, NoneFields DEF DentryOK, Kinds
  <2>. QED  BY <2>2, <2>4, NoneFields DEF MeetOK
<1>. QED  BY <1>1, <1>2

LEMMA FollowOK ==
    ASSUME NEW h, NEW K, DirAt(h, 0, K)
    PROVE  \A p \in Paths : MeetOK(Follow(h, p), Len(p), K)
<1> DEFINE S == {n \in Nat : \A p \in Paths : Len(p) = n => MeetOK(Follow(h, p), n, K)}
<1>1. 0 \in S
  <2>1. PICK e : e = Dentry("dir", h)
    OBVIOUS
  <2>2. e.kind = "dir" /\ e.hash = h
    BY <2>1, DentryFields
  <2>3. MeetOK(e, 0, K)
    BY <2>1, <2>2 DEF MeetOK, DentryOK, Kinds
  <2>4. \A p \in Paths : Len(p) = 0 => p = Root
    BY RootPath, PathEqual
  <2>. QED  BY <2>1, <2>3, <2>4, FollowRoot
<1>2. ASSUME NEW n \in Nat, n \in S PROVE n + 1 \in S
  <2> SUFFICES ASSUME NEW p \in Paths, Len(p) = n + 1 PROVE MeetOK(Follow(h, p), n + 1, K)
    OBVIOUS
  <2>1. p # Root
    BY RootPath
  <2>2. Parent(p) \in Paths /\ Len(Parent(p)) = n /\ p[Len(p)] \in Names
    BY <2>1, ParentPath
  <2>3. MeetOK(Follow(h, Parent(p)), n, K)
    BY <1>2, <2>2
  <2>4. Follow(h, p) = EntsOf(Follow(h, Parent(p)).hash)[p[Len(p)]]
    BY <2>1, FollowChild
  <2>. QED  BY <2>2, <2>3, <2>4, FollowStep
<1>3. \A k \in Nat : k \in S
  <2> HIDE DEF S
  <2>. QED  BY <1>1, <1>2, Induction
<1>. QED  BY <1>3, PathLen

LEMMA ReachedKnown ==
    ASSUME NEW h, NEW K, DirAt(h, 0, K)
    PROVE  Reached(h) \subseteq K
<1> SUFFICES ASSUME NEW p \in Paths, Follow(h, p).kind \in {"dir", "symlink"}
             PROVE  Follow(h, p).hash \in K
  BY DEF Reached
<1>1. PICK e : e = Follow(h, p)
  OBVIOUS
<1>2. MeetOK(e, Len(p), K) /\ Len(p) \in Nat
  BY <1>1, FollowOK, PathLen
<1>3. CASE e.kind = "dir"
  <2>1. DirAt(e.hash, Len(p), K)
    BY <1>2, <1>3 DEF MeetOK
  <2>. QED  BY <1>1, <1>2, <2>1, DirAtParts
<1>4. CASE e.kind = "symlink"
  BY <1>1, <1>2, <1>4 DEF MeetOK, DentryOK
<1>. QED  BY <1>1, <1>3, <1>4

-----------------------------------------------------------------------------
(* What is in memory and not modified is what the root's hash leads to.    *)

LEMMA ViewUnread ==
    ASSUME NEW m, NEW p \in Paths, Unread(m, p) # {}
    PROVE  \E i \in Unread(m, p) :
             View(m)[p] = Seen(Follow(m[Prefix(p, i)].hash, SubSeq(p, i + 1, Len(p))).kind,
                               Follow(m[Prefix(p, i)].hash, SubSeq(p, i + 1, Len(p))).hash.data, FALSE)
<1> DEFINE j == CHOOSE i \in Unread(m, p) : TRUE
<1>1. j \in Unread(m, p)
  OBVIOUS
<1>2. View(m)[p] = Seen(Follow(m[Prefix(p, j)].hash, SubSeq(p, j + 1, Len(p))).kind,
                        Follow(m[Prefix(p, j)].hash, SubSeq(p, j + 1, Len(p))).hash.data, FALSE)
  BY DEF View
<1> HIDE DEF j
<1>. QED  BY <1>1, <1>2

LEMMA WholePrefix ==
    ASSUME NEW p \in Paths
    PROVE  SubSeq(p, 1, Len(p)) = p /\ SubSeq(p, 0 + 1, Len(p)) = p /\ Prefix(p, 0) = Root
<1>1. p \in Seq(Names) /\ Len(p) \in Nat
  BY PathType
<1>2. SubSeq(p, 1, Len(p)) = p
  BY <1>1
<1>3. Prefix(p, 0) \in Paths /\ Len(Prefix(p, 0)) = 0
  BY <1>1, PrefixPath
<1>4. Prefix(p, 0) = Root
  BY <1>3, RootPath, PathEqual
<1>. QED  BY <1>2, <1>4

LEMMA TreeOfIs ==
    ASSUME NEW h, NEW p \in Paths
    PROVE  TreeOf(h)[p] = Seen(Follow(h, p).kind, Follow(h, p).hash.data, FALSE)
<1>1. PICK m : m = Opened(h)
  OBVIOUS
<1>2. m[Root] = Entry("dir", h, FALSE, FALSE) /\ \A q \in Paths : q # Root => m[q] = None
  BY <1>1, RootPath DEF Opened
<1>3. m[Root].kind = "dir" /\ m[Root].hash = h /\ m[Root].modified = FALSE /\ m[Root].loaded = FALSE
  BY <1>2 DEF Entry
<1>4. CASE p = Root
  <2>1. Unread(m, p) = {}
    BY <1>4, RootPath DEF Unread
  <2>2. View(m)[p] = Seen("dir", h.data, FALSE)
    BY <1>3, <1>4, <2>1 DEF View
  <2>3. Follow(h, p).kind = "dir" /\ Follow(h, p).hash = h
    BY <1>4, FollowRoot, DentryFields
  <2>. QED  BY <1>1, <2>2, <2>3 DEF TreeOf
<1>5. CASE p # Root
  <2>1. Len(p) \in Nat \ {0} /\ Prefix(p, 0) = Root
    BY <1>5, ParentPath, WholePrefix
  <2>2. 0 \in Unread(m, p)
    BY <1>3, <2>1 DEF Unread, NeedsLoad, Is
  <2>3. ASSUME NEW i \in Unread(m, p) PROVE i = 0
    <3>1. i \in 0 .. (Len(p) - 1) /\ m[Prefix(p, i)].kind = "dir"
      BY DEF Unread, NeedsLoad, Is
    <3>2. Prefix(p, i) \in Paths /\ Len(Prefix(p, i)) = i
      BY <2>1, <3>1, PrefixPath
    <3>3. Prefix(p, i) = Root
      BY <1>2, <3>1, <3>2, NoneFields
    <3>. QED  BY <3>2, <3>3, RootPath
  <2>4. View(m)[p] = Seen(Follow(m[Prefix(p, 0)].hash, SubSeq(p, 0 + 1, Len(p))).kind,
                          Follow(m[Prefix(p, 0)].hash, SubSeq(p, 0 + 1, Len(p))).hash.data, FALSE)
    <3>1. Unread(m, p) # {}
      BY <2>2
    <3>. QED  BY <2>3, <3>1, ViewUnread
  <2>5. SubSeq(p, 0 + 1, Len(p)) = p /\ m[Prefix(p, 0)].hash = h
    BY <1>3, <2>1, WholePrefix
  <2>. QED  BY <1>1, <2>4, <2>5 DEF TreeOf
<1>. QED  BY <1>4, <1>5

\* The entry in memory and the one in the objects.
Match(e, d) ==
    d = IF e.kind \in {"none", "removed"} THEN NoDentry ELSE Dentry(e.kind, e.hash)

LEMMA MatchChild ==
    ASSUME NEW m, NEW K, TreeOK(m, K), ~ m[Root].modified, NEW p \in Paths, p # Root, NEW d,
           Match(m[Parent(p)], d), ~ NeedsLoad(m, Parent(p))
    PROVE  Match(m[p], EntsOf(d.hash)[p[Len(p)]])
<1>1. PICK r \in Paths : r = Parent(p)
  BY ParentPath
<1>2. PICK n \in Names : n = p[Len(p)]
  BY ParentPath
<1>3. Len(r) # Depth /\ p = Append(r, n) /\ Below(p, r)
  BY <1>1, <1>2, ParentPath DEF Child
<1>4. EntryOK(m[r], K) /\ EntryOK(m[p], K)
  BY TreeParts
<1>5. CASE m[r].kind = "dir"
  <2>1. m[r].loaded
    BY <1>1, <1>5 DEF NeedsLoad, Is
  <2>2. ~ m[r].modified
    <3>1. r = Root \/ Below(r, Root)
      BY BelowRoot
    <3>. QED  BY <3>1, RootPath, TreeParts
  <2>3. m[r].hash = DirObj(m, r)
    BY <1>5, <2>1, <2>2, TreeParts DEF Is
  <2>4. d.hash = m[r].hash
    <3>1. d = Dentry(m[r].kind, m[r].hash)
      BY <1>1, <1>5 DEF Match
    <3>. QED  BY <3>1, DentryFields
  <2>5. /\ m[r].hash.type = "DIR"
        /\ m[r].hash.ents[n] =
             IF m[p].kind \in {"none", "removed"} THEN NoDentry
             ELSE Dentry(m[p].kind, IF m[p].kind \in {"local", "nonexistent"} THEN NoHash ELSE m[p].hash)
    BY <1>3, <2>3 DEF DirObj, Hash
  <2>6. EntsOf(d.hash)[n] = m[r].hash.ents[n]
    BY <2>4, <2>5 DEF EntsOf
  <2>7. m[p].kind \in {"local", "nonexistent"} => m[p].hash = NoHash
    BY <1>4 DEF EntryOK
  <2>. QED  BY <1>2, <2>5, <2>6, <2>7 DEF Match
<1>6. CASE m[r].kind # "dir"
  <2>1. m[p].kind = "none"
    BY <1>3, <1>6, TreeParts DEF Is, lookup
  <2>2. d.hash.type # "DIR"
    <3>1. CASE m[r].kind \in {"none", "removed"}
      BY <1>1, <3>1, NoneFields DEF Match
    <3>2. CASE m[r].kind \notin {"none", "removed"}
      <4>1. d = Dentry(m[r].kind, m[r].hash)
        BY <1>1, <3>2 DEF Match
      <4>2. m[r].hash.type # "DIR"
        BY <1>4, <1>6 DEF EntryOK
      <4>. QED  BY <4>1, <4>2, DentryFields
    <3>. QED  BY <3>1, <3>2
  <2>3. EntsOf(d.hash)[n] = NoDentry
    BY <2>2 DEF EntsOf
  <2>. QED  BY <1>2, <2>1, <2>3 DEF Match
<1>. QED  BY <1>5, <1>6

LEMMA UnreadParent ==
    ASSUME NEW m, NEW p \in Paths, p # Root, Unread(m, p) = {}
    PROVE  Unread(m, Parent(p)) = {} /\ ~ NeedsLoad(m, Parent(p))
<1>1. PICK n \in Nat \ {0} : n = Len(p)
  BY ParentPath
<1>2. PICK r \in Paths : r = Parent(p) /\ Len(r) = n - 1
  BY <1>1, ParentPath
<1>3. \A i \in 0 .. (n - 1) : ~ NeedsLoad(m, Prefix(p, i))
  BY <1>1 DEF Unread
<1>4. ~ NeedsLoad(m, r)
  BY <1>1, <1>2, <1>3 DEF Parent
<1>5. ASSUME NEW i \in 0 .. (Len(r) - 1) PROVE Prefix(r, i) = Prefix(p, i) /\ i \in 0 .. (n - 1)
  <2>1. /\ i \in 0 .. (n - 2) /\ i \in 0 .. (n - 1) /\ i \in 0 .. Len(p) /\ i \in 0 .. Len(r)
        /\ \A k \in 1 .. i : k \in 1 .. (n - 1)
    BY <1>1, <1>2
  <2>2. PICK u \in Paths : u = Prefix(r, i) /\ Len(u) = i /\ \A k \in 1 .. i : u[k] = r[k]
    BY <2>1, PrefixPath
  <2>3. PICK v \in Paths : v = Prefix(p, i) /\ Len(v) = i /\ \A k \in 1 .. i : v[k] = p[k]
    BY <2>1, PrefixPath
  <2>4. \A k \in 1 .. (n - 1) : r[k] = p[k]
    <3>1. n - 1 \in 0 .. Len(p) /\ r = Prefix(p, n - 1)
      BY <1>1, <1>2 DEF Parent
    <3>. QED  BY <3>1, PrefixPath
  <2>5. \A k \in 1 .. i : u[k] = v[k]
    BY <2>1, <2>2, <2>3, <2>4
  <2>6. u = v
    BY <2>2, <2>3, <2>5, PathEqual
  <2>. QED  BY <2>1, <2>2, <2>3, <2>6
<1>6. Unread(m, r) = {}
  BY <1>3, <1>5 DEF Unread
<1>. QED  BY <1>2, <1>4, <1>6

LEMMA ReadMatches ==
    ASSUME NEW m, NEW K, TreeOK(m, K), ~ m[Root].modified
    PROVE  \A p \in Paths : Unread(m, p) = {} => Match(m[p], Follow(m[Root].hash, p))
<1> DEFINE S == {n \in Nat : \A p \in Paths :
                    Len(p) = n /\ Unread(m, p) = {} => Match(m[p], Follow(m[Root].hash, p))}
<1>1. 0 \in S
  <2>1. \A p \in Paths : Len(p) = 0 => p = Root
    BY RootPath, PathEqual
  <2>2. m[Root].kind = "dir"
    BY TreeParts DEF Is
  <2>3. Match(m[Root], Follow(m[Root].hash, Root))
    BY <2>2, FollowRoot DEF Match
  <2>. QED  BY <2>1, <2>3
<1>2. ASSUME NEW n \in Nat, n \in S PROVE n + 1 \in S
  <2> SUFFICES ASSUME NEW p \in Paths, Len(p) = n + 1, Unread(m, p) = {}
               PROVE  Match(m[p], Follow(m[Root].hash, p))
    OBVIOUS
  <2>1. p # Root
    BY RootPath
  <2>2. Parent(p) \in Paths /\ Len(Parent(p)) = n
    BY <2>1, ParentPath
  <2>3. Unread(m, Parent(p)) = {} /\ ~ NeedsLoad(m, Parent(p))
    BY <2>1, UnreadParent
  <2>4. Match(m[Parent(p)], Follow(m[Root].hash, Parent(p)))
    BY <1>2, <2>2, <2>3
  <2>5. Match(m[p], EntsOf(Follow(m[Root].hash, Parent(p)).hash)[p[Len(p)]])
    BY <2>1, <2>3, <2>4, MatchChild
  <2>. QED  BY <2>1, <2>5, FollowChild
<1>3. \A k \in Nat : k \in S
  <2> HIDE DEF S
  <2>. QED  BY <1>1, <1>2, Induction
<1>. QED  BY <1>3, PathLen

\* No directory that has not been read is below another.
LEMMA UnreadOnce ==
    ASSUME NEW m, NEW K, TreeOK(m, K), NEW p \in Paths, NEW i \in Unread(m, p)
    PROVE  /\ i \in 0 .. (Len(p) - 1) /\ Prefix(p, i) \in Paths /\ m[Prefix(p, i)].kind = "dir"
           /\ Unread(m, Prefix(p, i)) = {}
<1>1. PICK n \in Nat : n = Len(p)
  BY PathLen
<1>2. i \in 0 .. (n - 1) /\ m[Prefix(p, i)].kind = "dir"
  BY <1>1 DEF Unread, NeedsLoad, Is
<1>3. PICK r \in Paths : r = Prefix(p, i) /\ Len(r) = i
  BY <1>1, <1>2, PrefixPath
<1>4. ASSUME NEW j \in 0 .. (i - 1) PROVE ~ NeedsLoad(m, Prefix(r, j))
  <2>1. j \in 0 .. Len(r) /\ i > j
    BY <1>2, <1>3
  <2>2. PICK u \in Paths : u = Prefix(r, j) /\ Len(u) = j /\ \A k \in 1 .. j : u[k] = r[k]
    BY <2>1, PrefixPath
  <2>3. Below(r, u)
    <3>1. Len(r) > Len(u) /\ \A k \in 1 .. Len(u) : r[k] = u[k]
      BY <1>3, <2>1, <2>2
    <3>. QED  BY <3>1, BelowMeans
  <2>4. lookup(m, r)
    BY <1>2, <1>3 DEF lookup
  <2>5. m[u].loaded
    BY <2>3, <2>4, TreeParts
  <2>. QED  BY <2>2, <2>5 DEF NeedsLoad
<1>5. Unread(m, r) = {}
  BY <1>3, <1>4 DEF Unread
<1>. QED  BY <1>1, <1>2, <1>3, <1>5

LEMMA CleanView ==
    ASSUME NEW m, NEW K, TreeOK(m, K), ~ m[Root].modified
    PROVE  Kept(View(m)) = TreeOf(m[Root].hash)
<1>1. PICK h : h = m[Root].hash
  OBVIOUS
<1>2. DirAt(h, 0, K)
  BY <1>1, RootPath, TreeParts
<1>3. ASSUME NEW p \in Paths
      PROVE  Kept(View(m))[p] = Seen(Follow(h, p).kind, Follow(h, p).hash.data, FALSE)
  <2>1. PICK e : e = Follow(h, p)
    OBVIOUS
  <2>2. Kept(View(m))[p] = IF View(m)[p].kind = "removed" THEN Nothing ELSE View(m)[p]
    BY DEF Kept, View
  <2>3. \A k, x : Seen(k, x, FALSE).kind = k
    BY DEF Seen
  <2>4. CASE Unread(m, p) = {}
    <3>1. Match(m[p], e)
      BY <1>1, <2>1, <2>4, ReadMatches
    <3>2. ~ m[p].modified
      <4>1. p = Root \/ Below(p, Root)
        BY BelowRoot
      <4>. QED  BY <4>1, RootPath, TreeParts
    <3>3. View(m)[p] = Seen(m[p].kind, m[p].hash.data, FALSE)
      BY <2>4, <3>2 DEF View
    <3>4. CASE m[p].kind \in {"none", "removed"}
      <4>1. e.kind = "none" /\ e.hash.data = 0
        <5>1. NoHash.data = 0
          BY DEF NoHash, Hash
        <5>. QED  BY <3>1, <3>4, <5>1, NoneFields DEF Match
      <4>2. CASE m[p].kind = "removed"
        <5>1. View(m)[p].kind = "removed"
          BY <2>3, <3>3, <4>2
        <5>2. Kept(View(m))[p] = Nothing
          BY <2>2, <5>1
        <5>. QED  BY <2>1, <4>1, <5>2 DEF Nothing
      <4>3. CASE m[p].kind = "none"
        <5>1. m[p] = None
          BY <4>3, TreeParts DEF EntryOK
        <5>2. m[p].hash = NoHash /\ NoHash.data = 0
          BY <5>1, NoneFields DEF NoHash, Hash
        <5>. QED  BY <2>1, <2>2, <2>3, <3>3, <4>1, <4>3, <5>2
      <4>. QED  BY <3>4, <4>2, <4>3
    <3>5. CASE m[p].kind \notin {"none", "removed"}
      <4>1. e.kind = m[p].kind /\ e.hash = m[p].hash
        BY <3>1, <3>5, DentryFields DEF Match
      <4>2. View(m)[p].kind # "removed"
        BY <2>3, <3>3, <3>5
      <4>3. Kept(View(m))[p] = View(m)[p]
        BY <2>2, <4>2
      <4>. QED  BY <2>1, <3>3, <4>1, <4>3
    <3>. QED  BY <3>4, <3>5
  <2>5. CASE Unread(m, p) # {}
    <3>1. PICK i \in Unread(m, p) :
            View(m)[p] = Seen(Follow(m[Prefix(p, i)].hash, SubSeq(p, i + 1, Len(p))).kind,
                              Follow(m[Prefix(p, i)].hash, SubSeq(p, i + 1, Len(p))).hash.data, FALSE)
      BY <2>5, ViewUnread
    <3>2. /\ i \in 0 .. (Len(p) - 1) /\ Prefix(p, i) \in Paths /\ m[Prefix(p, i)].kind = "dir"
          /\ Unread(m, Prefix(p, i)) = {}
      BY UnreadOnce
    <3>3. Match(m[Prefix(p, i)], Follow(h, Prefix(p, i)))
      BY <1>1, <3>2, ReadMatches
    <3>4. Follow(h, Prefix(p, i)).hash = m[Prefix(p, i)].hash
      BY <3>2, <3>3, DentryFields DEF Match
    <3>5. Follow(m[Prefix(p, i)].hash, SubSeq(p, i + 1, Len(p))) = e
      BY <2>1, <3>2, <3>4, FollowJoin
    <3>6. View(m)[p] = Seen(e.kind, e.hash.data, FALSE)
      BY <3>1, <3>5
    <3>7. e.kind # "removed"
      BY <1>2, <2>1, FollowOK DEF MeetOK, DentryOK
    <3>8. View(m)[p].kind # "removed"
      BY <2>3, <3>6, <3>7
    <3>9. Kept(View(m))[p] = View(m)[p]
      BY <2>2, <3>8
    <3>. QED  BY <2>1, <3>6, <3>9
  <2>. QED  BY <2>4, <2>5
<1>4. Kept(View(m)) = [p \in Paths |-> Kept(View(m))[p]] /\ TreeOf(h) = [p \in Paths |-> TreeOf(h)[p]]
  BY DEF Kept, View, TreeOf
<1>5. \A p \in Paths : Kept(View(m))[p] = TreeOf(h)[p]
  BY <1>3, TreeOfIs
<1>. QED  BY <1>1, <1>4, <1>5

-----------------------------------------------------------------------------
(* The theorems.  All are about callers that look below a directory before *)
(* they change it: without, a directory that was not read is changed and   *)
(* the next commit fails its assertion (OglRepo's CarelessSpec).           *)

\* Every variable has its type, and what lies below a path is below a directory.
THEOREM RepoTypes ==
    ASSUME Careful
    PROVE  Spec => []TypeOK
<1>1. RepoInv => TypeOK
  <2> SUFFICES ASSUME RepoInv PROVE TypeOK
    OBVIOUS
  <2>1. /\ pc \in {"idle", "down"} \cup Committing \cup Aborts
        /\ todumps \in Seq(Paths) /\ dirs \in Seq(Paths)
        /\ objects \cap cut = {}
        /\ refFailed \in BOOLEAN
        /\ nEvents \in 0 .. MaxEvents
    BY InvParts DEF MemInv, DiskInv
  <2>. QED  BY <2>1, MemTypes DEF TypeOK
<1>. QED  BY <1>1, RepoCorrect, PTL

\* A directory that has been read and is not modified has the hash of its entries
\* and nothing modified below it, after any edits, failed commits, crashes and
\* restarts: commit may skip it (ogl_dir::mark_modified, dump, commit's `continue').
THEOREM CleanDirectories ==
    ASSUME Careful
    PROVE  Spec => []CleanMatches
<1>1. RepoInv => CleanMatches
  BY MemTypes
<1>. QED  BY <1>1, RepoCorrect, PTL

\* When commit has nothing to do and root-ref could be written, root-ref names the
\* tree in memory: whatever edits were lost or saved before, in trees of any width
\* and depth (commit's first test, and its result).
THEOREM NothingToCommit ==
    ASSUME Careful
    PROVE  Spec => []CleanIsStored
<1>1. RepoInv => CleanIsStored
  <2> SUFFICES ASSUME RepoInv, pc = "idle", ~ mem[Root].modified, ~ refFailed
               PROVE  rootRef # NoHash /\ Kept(View(mem)) = TreeOf(rootRef)
    BY DEF CleanIsStored
  <2>1. TreeOK(mem, Known) /\ rootRef = mem[Root].hash
    BY InvParts DEF MemInv, RefInv
  <2>2. DirAt(rootRef, 0, Known)
    BY <2>1, RootPath, TreeParts
  <2>3. rootRef # NoHash
    <3>1. rootRef = Hash("DIR", [n \in Names |-> rootRef.ents[n]], 0)
      BY <2>2, DirAtParts
    <3>2. rootRef.type = "DIR"
      BY <3>1 DEF Hash
    <3>. QED  BY <3>2, NoneFields
  <2>. QED  BY <2>1, <2>3, CleanView
<1>. QED  BY <1>1, RepoCorrect, PTL

\* Every object that can be reached from root-ref has been stored, save those a
\* write of which was cut short: commit dumps a directory after those below it and
\* writes root-ref last.
THEOREM RootIsComplete ==
    ASSUME Careful
    PROVE  Spec => []RootComplete
<1>1. RepoInv => RootComplete
  <2> SUFFICES ASSUME RepoInv, rootRef # NoHash PROVE Reached(rootRef) \subseteq objects \cup unwritten
    BY DEF RootComplete
  <2>1. DirAt(rootRef, 0, Known)
    BY InvParts DEF DiskInv
  <2>. QED  BY <2>1, ReachedKnown DEF Known
<1>. QED  BY <1>1, RepoCorrect, PTL

-----------------------------------------------------------------------------
(* What the user sees of a tree, along the way down.                       *)

\* What is at p: the entry in memory, or the one that would be read.
Look(m, p) ==
    IF Unread(m, p) # {}
    THEN LET i == CHOOSE i \in Unread(m, p) : TRUE IN
         Follow(m[Prefix(p, i)].hash, SubSeq(p, i + 1, Len(p)))
    ELSE Dentry(m[p].kind, m[p].hash)

Dirty(m, p) == Unread(m, p) = {} /\ m[p].modified /\ m[p].kind # "dir"

Shown(e) ==
    IF e.modified /\ e.kind # "dir" THEN Seen(e.kind, 0, TRUE) ELSE Seen(e.kind, e.hash.data, FALSE)

LEMMA ViewIs ==
    ASSUME NEW m, NEW p \in Paths
    PROVE  /\ View(m)[p] = IF Dirty(m, p) THEN Seen(m[p].kind, 0, TRUE)
                           ELSE Seen(Look(m, p).kind, Look(m, p).hash.data, FALSE)
           /\ Unread(m, p) = {} => View(m)[p] = Shown(m[p])
<1>1. CASE Unread(m, p) # {}
  <2> DEFINE j == CHOOSE i \in Unread(m, p) : TRUE
             d == Follow(m[Prefix(p, j)].hash, SubSeq(p, j + 1, Len(p)))
  <2>1. View(m)[p] = Seen(d.kind, d.hash.data, FALSE)
    BY <1>1 DEF View
  <2>2. Look(m, p) = d
    BY <1>1 DEF Look
  <2> HIDE DEF d
  <2>. QED  BY <1>1, <2>1, <2>2 DEF Dirty
<1>2. CASE Unread(m, p) = {}
  <2>1. Look(m, p).kind = m[p].kind /\ Look(m, p).hash = m[p].hash
    BY <1>2, DentryFields DEF Look
  <2>2. View(m)[p] = Shown(m[p])
    BY <1>2 DEF View, Shown
  <2>. QED  BY <1>2, <2>1, <2>2 DEF Dirty, Shown
<1>. QED  BY <1>1, <1>2

LEMMA PrefixAbove ==
    ASSUME NEW p \in Paths, NEW i \in 0 .. (Len(p) - 1)
    PROVE  Prefix(p, i) \in Paths /\ Below(p, Prefix(p, i))
<1>1. i \in 0 .. Len(p) /\ Len(p) > i
  BY PathLen
<1>2. PICK u \in Paths : u = Prefix(p, i) /\ Len(u) = i /\ \A k \in 1 .. i : u[k] = p[k]
  BY <1>1, PrefixPath
<1>3. Len(p) > Len(u) /\ \A k \in 1 .. Len(u) : p[k] = u[k]
  BY <1>1, <1>2
<1>4. Below(p, u)
  BY <1>3, BelowMeans
<1>. QED  BY <1>2, <1>4

LEMMA PrefixPrefix ==
    ASSUME NEW p \in Paths, NEW i \in 0 .. Len(p), NEW j \in 0 .. i
    PROVE  Prefix(Prefix(p, i), j) = Prefix(p, j)
<1>1. j \in 0 .. Len(p) /\ \A k \in 1 .. j : k \in 1 .. i
  BY PathLen
<1>2. PICK u \in Paths : u = Prefix(p, i) /\ Len(u) = i /\ \A k \in 1 .. i : u[k] = p[k]
  BY PrefixPath
<1>3. PICK v \in Paths : v = Prefix(p, j) /\ Len(v) = j /\ \A k \in 1 .. j : v[k] = p[k]
  BY <1>1, PrefixPath
<1>4. PICK x \in Paths : x = Prefix(u, j) /\ Len(x) = j /\ \A k \in 1 .. j : x[k] = u[k]
  BY <1>2, PrefixPath
<1>5. \A k \in 1 .. j : x[k] = v[k]
  BY <1>1, <1>2, <1>3, <1>4
<1>6. x = v
  BY <1>3, <1>4, <1>5, PathEqual
<1>. QED  BY <1>2, <1>3, <1>4, <1>6

LEMMA UnreadUnique ==
    ASSUME NEW m, NEW K, TreeOK(m, K), NEW p \in Paths, NEW i \in Unread(m, p), NEW j \in Unread(m, p)
    PROVE  i = j
<1>1. PICK n \in Nat : n = Len(p)
  BY PathLen
<1>2. i \in 0 .. (n - 1) /\ j \in 0 .. (n - 1) /\ NeedsLoad(m, Prefix(p, i)) /\ NeedsLoad(m, Prefix(p, j))
  BY <1>1 DEF Unread
<1>3. ASSUME NEW a \in 0 .. (n - 1), NEW b \in 0 .. (n - 1), a < b,
             NeedsLoad(m, Prefix(p, a)), Unread(m, Prefix(p, b)) = {}
      PROVE  FALSE
  <2>1. b \in 0 .. Len(p) /\ a \in 0 .. b
    BY <1>1, <1>3
  <2>2. Prefix(Prefix(p, b), a) = Prefix(p, a) /\ Len(Prefix(p, b)) = b
    BY <2>1, PrefixPrefix, PrefixPath
  <2>3. a \in Unread(m, Prefix(p, b))
    BY <1>3, <2>2 DEF Unread
  <2>. QED  BY <1>3, <2>3
<1>4. Unread(m, Prefix(p, i)) = {} /\ Unread(m, Prefix(p, j)) = {}
  BY UnreadOnce
<1>. QED  BY <1>2, <1>3, <1>4

LEMMA LookUnread ==
    ASSUME NEW m, NEW K, TreeOK(m, K), NEW p \in Paths, NEW i \in Unread(m, p)
    PROVE  Look(m, p) = Follow(m[Prefix(p, i)].hash, SubSeq(p, i + 1, Len(p)))
<1> DEFINE j == CHOOSE k \in Unread(m, p) : TRUE
<1>1. j \in Unread(m, p)
  OBVIOUS
<1>2. Look(m, p) = Follow(m[Prefix(p, j)].hash, SubSeq(p, j + 1, Len(p)))
  BY DEF Look
<1> HIDE DEF j
<1>3. i = j
  BY <1>1, UnreadUnique
<1>. QED  BY <1>2, <1>3

\* In a directory that has not been read, or below one, the way goes on in the objects.
LEMMA LookChild ==
    ASSUME NEW m, NEW K, TreeOK(m, K), NEW p \in Paths, p # Root, Unread(m, p) # {}
    PROVE  Look(m, p) = EntsOf(Look(m, Parent(p)).hash)[p[Len(p)]]
<1>1. PICK i \in Unread(m, p) : TRUE
  OBVIOUS
<1>2. PICK n \in Nat \ {0} : n = Len(p)
  BY ParentPath
<1>3. i \in 0 .. (n - 1) /\ NeedsLoad(m, Prefix(p, i)) /\ Unread(m, Prefix(p, i)) = {}
  BY <1>1, <1>2, UnreadOnce DEF Unread
<1>4. PICK h : h = m[Prefix(p, i)].hash
  OBVIOUS
<1>5. PICK r \in Paths : r = Parent(p) /\ Len(r) = n - 1 /\ r = Prefix(p, n - 1)
  BY <1>2, ParentPath DEF Parent
<1>6. p \in Seq(Names) /\ r \in Seq(Names) /\ Depth \in Nat /\ n <= Depth
  BY <1>2, PathType
<1>7. PICK s : s = SubSeq(p, i + 1, n)
  OBVIOUS
<1>8. s \in Seq(Names) /\ Len(s) = n - i /\ \A k \in 1 .. (n - i) : s[k] = p[i + k]
  BY <1>2, <1>3, <1>6, <1>7
<1>9. s \in Paths
  <2>1. Len(s) <= Depth
    BY <1>3, <1>6, <1>8
  <2>. QED  BY <1>8, <2>1, IsPath
<1>10. s # Root /\ s[Len(s)] = p[n]
  <2>1. Len(s) # 0 /\ n - i \in 1 .. (n - i) /\ i + (n - i) = n
    BY <1>3, <1>8
  <2>. QED  BY <1>8, <2>1, RootPath
<1>11. Look(m, p) = EntsOf(Follow(h, Parent(s)).hash)[p[n]]
  <2>1. Look(m, p) = Follow(h, s)
    BY <1>1, <1>2, <1>4, <1>7, LookUnread
  <2>. QED  BY <1>9, <1>10, <2>1, FollowChild
<1>12. PICK u \in Paths : u = Parent(s) /\ Len(u) = n - i - 1 /\ \A k \in 1 .. (n - i - 1) : u[k] = s[k]
  <2>1. n - i - 1 \in 0 .. Len(s) /\ Len(s) - 1 = n - i - 1
    BY <1>3, <1>8
  <2>2. Parent(s) = Prefix(s, n - i - 1)
    BY <2>1 DEF Parent
  <2>. QED  BY <1>9, <2>1, <2>2, PrefixPath
<1>13. CASE i = n - 1
  <2>1. Len(u) = 0
    BY <1>12, <1>13
  <2>2. u = Root
    BY <2>1, RootPath, PathEqual
  <2>3. Follow(h, u).hash = h
    BY <2>2, FollowRoot, DentryFields
  <2>4. Look(m, r) = Dentry(m[r].kind, m[r].hash) /\ m[r].hash = h
    BY <1>3, <1>4, <1>5, <1>13 DEF Look
  <2>5. Look(m, r).hash = h
    BY <2>4, DentryFields
  <2>. QED  BY <1>2, <1>5, <1>11, <1>12, <2>3, <2>5
<1>14. CASE i # n - 1
  <2>1. i \in 0 .. (n - 2) /\ n - 1 \in 0 .. Len(p) /\ i \in 0 .. (n - 1)
    BY <1>2, <1>3, <1>14
  <2>2. Prefix(r, i) = Prefix(p, i)
    BY <1>5, <2>1, PrefixPrefix
  <2>3. i \in Unread(m, r)
    <3>1. i \in 0 .. (Len(r) - 1)
      BY <1>5, <2>1
    <3>. QED  BY <1>3, <2>2, <3>1 DEF Unread
  <2>4. Look(m, r) = Follow(h, SubSeq(r, i + 1, n - 1))
    BY <1>4, <1>5, <2>2, <2>3, LookUnread
  <2>5. SubSeq(r, i + 1, n - 1) = u
    <3>1. PICK x : x = SubSeq(r, i + 1, n - 1)
      OBVIOUS
    <3>2. x \in Seq(Names) /\ Len(x) = n - i - 1 /\ \A k \in 1 .. (n - i - 1) : x[k] = r[i + k]
      BY <1>5, <1>6, <2>1, <3>1
    <3>3. \A k \in 1 .. (n - 1) : r[k] = p[k]
      BY <1>5, <2>1, PrefixPath
    <3>4. ASSUME NEW k \in 1 .. (n - i - 1) PROVE x[k] = u[k]
      <4>1. k \in 1 .. (n - i) /\ i + k \in 1 .. (n - 1)
        BY <2>1
      <4>. QED  BY <1>8, <1>12, <3>2, <3>3, <4>1
    <3>5. x \in Paths
      <4>1. Len(x) <= Depth
        BY <1>3, <1>6, <3>2
      <4>. QED  BY <3>2, <4>1, IsPath
    <3>6. Len(x) = Len(u) /\ \A k \in 1 .. Len(x) : x[k] = u[k]
      BY <1>12, <3>2, <3>4
    <3>. QED  BY <3>1, <3>5, <3>6, PathEqual
  <2>. QED  BY <1>2, <1>5, <1>11, <1>12, <2>4, <2>5
<1>. QED  BY <1>13, <1>14

\* Two trees that are the same along the way to p.
LEMMA LookSame ==
    ASSUME NEW m, NEW w, NEW p \in Paths,
           \A r \in Paths : Below(p, r) =>
             (NeedsLoad(w, r) <=> NeedsLoad(m, r)) /\ (NeedsLoad(m, r) => w[r].hash = m[r].hash)
    PROVE  /\ Unread(w, p) = Unread(m, p)
           /\ Unread(m, p) # {} => Look(w, p) = Look(m, p)
<1>1. \A i \in 0 .. (Len(p) - 1) :
        /\ NeedsLoad(w, Prefix(p, i)) <=> NeedsLoad(m, Prefix(p, i))
        /\ NeedsLoad(m, Prefix(p, i)) => w[Prefix(p, i)].hash = m[Prefix(p, i)].hash
  BY PrefixAbove
<1>2. Unread(w, p) = Unread(m, p)
  BY <1>1 DEF Unread
<1>3. ASSUME Unread(m, p) # {} PROVE Look(w, p) = Look(m, p)
  <2> DEFINE j == CHOOSE k \in Unread(m, p) : TRUE
  <2>1. j \in Unread(m, p)
    BY <1>3
  <2>2. /\ Look(m, p) = Follow(m[Prefix(p, j)].hash, SubSeq(p, j + 1, Len(p)))
        /\ Look(w, p) = Follow(w[Prefix(p, j)].hash, SubSeq(p, j + 1, Len(p)))
    BY <1>2, <1>3 DEF Look
  <2> HIDE DEF j
  <2>3. w[Prefix(p, j)].hash = m[Prefix(p, j)].hash
    BY <1>1, <2>1 DEF Unread
  <2>. QED  BY <2>2, <2>3
<1>. QED  BY <1>2, <1>3

LEMMA ViewSame ==
    ASSUME NEW m, NEW w,
           \A p \in Paths : Look(w, p) = Look(m, p) /\ (Dirty(w, p) <=> Dirty(m, p)),
           \A p \in Paths : Dirty(m, p) => w[p].kind = m[p].kind
    PROVE  View(w) = View(m)
<1>1. \A p \in Paths : View(w)[p] = View(m)[p]
  BY ViewIs
<1>2. View(w) = [p \in Paths |-> View(w)[p]] /\ View(m) = [p \in Paths |-> View(m)[p]]
  BY DEF View
<1>. QED  BY <1>1, <1>2

\* To read a directory changes nothing that can be seen.
LEMMA LoadedView ==
    ASSUME NEW m, NEW K, TreeOK(m, K), NEW p \in Paths, NeedsLoad(m, p)
    PROVE  View(load(m, p)) = View(m)
<1>1. PICK w : w = load(m, p)
  OBVIOUS
<1>2. PICK h : h = m[p].hash
  OBVIOUS
<1>3. /\ w[p] = Entry("dir", h, FALSE, TRUE)
      /\ \A n \in Names : Len(p) # Depth =>
            w[Child(p, n)] = Entry(h.ents[n].kind, h.ents[n].hash, FALSE, FALSE)
      /\ \A q \in Paths : Below(q, p) /\ Len(q) # Len(p) + 1 => w[q] = None
      /\ \A q \in Paths : q # p /\ ~ Below(q, p) => w[q] = m[q]
  BY <1>1, <1>2, LoadIs
<1>4. TreeOK(w, K)
  BY <1>1, LoadedTree
<1>5. m[p].kind = "dir" /\ ~ m[p].modified
  BY TreeParts DEF NeedsLoad, Is, EntryOK
<1>6. w[p].kind = "dir" /\ w[p].hash = h /\ w[p].modified = FALSE /\ w[p].loaded = TRUE
  BY <1>3 DEF Entry
<1>7. DirAt(h, Len(p), K) /\ Len(p) \in Nat
  BY <1>2, <1>5, TreeParts, PathLen DEF Is
<1>8. h.type = "DIR" /\ \A n \in Names : DentryOK(h.ents[n], K)
  BY <1>7, DirAtParts, DirAtData
\* beside p and above it
<1>9. ASSUME NEW q \in Paths, ~ Below(q, p)
      PROVE  Look(w, q) = Look(m, q) /\ (Dirty(w, q) <=> Dirty(m, q))
  <2>1. ASSUME NEW r \in Paths, Below(q, r) PROVE w[r] = m[r]
    <3>1. r # p /\ ~ Below(r, p)
      BY <1>9, <2>1, BelowTrans
    <3>. QED  BY <1>3, <3>1
  <2>2. \A r \in Paths : Below(q, r) =>
          (NeedsLoad(w, r) <=> NeedsLoad(m, r)) /\ (NeedsLoad(m, r) => w[r].hash = m[r].hash)
    BY <2>1 DEF NeedsLoad, Is
  <2>3. Unread(w, q) = Unread(m, q) /\ (Unread(m, q) # {} => Look(w, q) = Look(m, q))
    BY <2>2, LookSame
  <2>4. w[q].kind = m[q].kind /\ w[q].hash = m[q].hash /\ (q # p => w[q] = m[q])
    BY <1>2, <1>3, <1>5, <1>6, <1>9
  <2>5. Look(w, q) = Look(m, q)
    BY <2>3, <2>4 DEF Look
  <2>6. Dirty(w, q) <=> Dirty(m, q)
    BY <1>5, <2>3, <2>4 DEF Dirty
  <2>. QED  BY <2>5, <2>6
\* below p
<1>10. ASSUME NEW q \in Paths, Below(q, p) PROVE Unread(m, q) # {} /\ ~ Dirty(m, q) /\ ~ Dirty(w, q)
  <2>1. Len(p) \in 0 .. (Len(q) - 1) /\ Prefix(q, Len(p)) = p
    BY <1>7, <1>10, PathLen DEF Below
  <2>2. Len(p) \in Unread(m, q)
    BY <2>1 DEF Unread
  <2>3. ~ w[q].modified
    BY <1>4, <1>6, <1>10, TreeParts
  <2>. QED  BY <2>2, <2>3 DEF Dirty
<1> DEFINE S == {n \in Nat : \A q \in Paths : Len(q) = n /\ Below(q, p) => Look(w, q) = Look(m, q)}
<1>11. ASSUME NEW q \in Paths, Below(q, p), Look(w, Parent(q)) = Look(m, Parent(q))
       PROVE  Look(w, q) = Look(m, q)
  <2>1. q # Root
    BY <1>11, BelowOther
  <2>2. PICK r \in Paths : r = Parent(q)
    BY <2>1, ParentPath
  <2>3. PICK n \in Names : n = q[Len(q)]
    BY <2>1, ParentPath
  <2>4. q = Child(r, n) /\ Len(r) # Depth /\ Len(q) = Len(r) + 1 /\ (r = p \/ Below(r, p))
    <3>1. q = Child(r, n) /\ Len(r) # Depth /\ (r = p \/ Below(r, p))
      BY <1>11, <2>1, <2>2, <2>3, ParentPath
    <3>. QED  BY <3>1, ChildPath
  <2>5. Look(m, q) = EntsOf(Look(m, r).hash)[n]
    BY <1>10, <1>11, <2>1, <2>2, <2>3, LookChild
  <2>6. CASE Unread(w, q) # {}
    <3>1. Look(w, q) = EntsOf(Look(w, r).hash)[n]
      BY <1>4, <2>1, <2>2, <2>3, <2>6, LookChild
    <3>. QED  BY <1>11, <2>2, <2>5, <3>1
  <2>7. CASE Unread(w, q) = {}
    <3>1. Unread(w, r) = {} /\ ~ NeedsLoad(w, r)
      BY <2>1, <2>2, <2>7, UnreadParent
    <3>2. Look(w, q) = Dentry(w[q].kind, w[q].hash) /\ Look(w, r) = Dentry(w[r].kind, w[r].hash)
      BY <2>7, <3>1 DEF Look
    <3>3. Look(m, r).hash = w[r].hash
      BY <1>11, <2>2, <3>2, DentryFields
    <3>4. CASE r = p
      <4>1. w[q] = Entry(h.ents[n].kind, h.ents[n].hash, FALSE, FALSE)
        BY <1>3, <2>4, <3>4
      <4>2. w[q].kind = h.ents[n].kind /\ w[q].hash = h.ents[n].hash
        BY <4>1 DEF Entry
      <4>3. Dentry(h.ents[n].kind, h.ents[n].hash) = h.ents[n]
        BY <1>8 DEF DentryOK
      <4>4. EntsOf(w[r].hash)[n] = h.ents[n]
        BY <1>6, <1>8, <3>4 DEF EntsOf
      <4>. QED  BY <2>5, <3>2, <3>3, <4>2, <4>3, <4>4
    <3>5. CASE Below(r, p)
      <4>1. Len(q) # Len(p) + 1
        BY <1>7, <2>4, <3>5, BelowMeans, PathLen
      <4>2. w[q] = None
        BY <1>3, <1>11, <4>1
      <4>3. ~ w[r].loaded
        <5>1. CASE Len(r) # Len(p) + 1
          BY <1>3, <3>5, <5>1, NoneFields
        <5>2. CASE Len(r) = Len(p) + 1
          <6>1. PICK k \in Names : Len(p) # Depth /\ r = Child(p, k)
            BY <3>5, <5>2, ChildAbove
          <6>2. w[r] = Entry(h.ents[k].kind, h.ents[k].hash, FALSE, FALSE)
            BY <1>3, <6>1
          <6>. QED  BY <6>2 DEF Entry
        <5>. QED  BY <5>1, <5>2
      <4>4. w[r].kind # "dir"
        BY <3>1, <4>3 DEF NeedsLoad, Is
      <4>5. w[r].hash.type # "DIR"
        BY <1>4, <4>4, TreeParts DEF EntryOK
      <4>6. EntsOf(w[r].hash)[n] = NoDentry
        BY <4>5 DEF EntsOf
      <4>7. Dentry(w[q].kind, w[q].hash) = NoDentry
        BY <4>2, NoneFields DEF NoDentry
      <4>. QED  BY <2>5, <3>2, <3>3, <4>6, <4>7
    <3>. QED  BY <2>4, <3>4, <3>5
  <2>. QED  BY <2>6, <2>7
<1>12. 0 \in S
  BY <1>7, BelowMeans
<1>13. ASSUME NEW n \in Nat, n \in S PROVE n + 1 \in S
  <2> SUFFICES ASSUME NEW q \in Paths, Len(q) = n + 1, Below(q, p) PROVE Look(w, q) = Look(m, q)
    OBVIOUS
  <2>1. q # Root
    BY BelowOther
  <2>2. Parent(q) \in Paths /\ Len(Parent(q)) = n /\ (Parent(q) = p \/ Below(Parent(q), p))
    BY <2>1, ParentPath
  <2>3. Look(w, Parent(q)) = Look(m, Parent(q))
    <3>1. CASE Parent(q) = p
      BY <1>9, <2>2, <3>1, BelowOther
    <3>2. CASE Below(Parent(q), p)
      BY <1>13, <2>2, <3>2
    <3>. QED  BY <2>2, <3>1, <3>2
  <2>. QED  BY <1>11, <2>3
<1>14. \A k \in Nat : k \in S
  <2> HIDE DEF S
  <2>. QED  BY <1>12, <1>13, Induction
<1>15. \A q \in Paths : Below(q, p) => Look(w, q) = Look(m, q)
  BY <1>14, PathLen
<1>16. \A q \in Paths : Look(w, q) = Look(m, q) /\ (Dirty(w, q) <=> Dirty(m, q))
  BY <1>9, <1>10, <1>15
<1>17. ASSUME NEW q \in Paths, Dirty(m, q) PROVE w[q].kind = m[q].kind
  BY <1>3, <1>5, <1>6, <1>10, <1>17
<1>. QED  BY <1>1, <1>16, <1>17, ViewSame

LEMMA FoundView ==
    ASSUME NEW m, NEW K, TreeOK(m, K), NEW p \in Paths
    PROVE  View(find(m, p)) = View(m)
<1>1. PICK w : w = walk(m, p)
  OBVIOUS
<1>2. w[0] = m /\ \A i \in 1 .. Len(p) : w[i] = Pass(w[i - 1], p, i)
  BY <1>1, WalkIs
<1>3. Len(p) \in Nat
  BY PathLen
<1> DEFINE Good(x) == TreeOK(x, K) /\ View(x) = View(m)
           S == {i \in Nat : i <= Len(p) => Good(w[i])}
<1>4. 0 \in S
  BY <1>2
<1>5. ASSUME NEW i \in Nat, i \in S PROVE i + 1 \in S
  <2> SUFFICES ASSUME i + 1 <= Len(p) PROVE Good(w[i + 1])
    OBVIOUS
  <2>1. Good(w[i])
    BY <1>3, <1>5
  <2>2. w[i + 1] = Pass(w[i], p, i + 1)
    <3>1. i + 1 \in 1 .. Len(p) /\ (i + 1) - 1 = i
      BY <1>3
    <3>. QED  BY <1>2, <3>1
  <2>3. PICK q \in Paths : q = Prefix(p, i)
    BY <1>3, PrefixPath
  <2>4. w[i + 1] = IF NeedsLoad(w[i], q) THEN load(w[i], q) ELSE w[i]
    <3>1. (i + 1) - 1 = i
      OBVIOUS
    <3>. QED  BY <2>2, <2>3, <3>1 DEF Pass
  <2>5. CASE NeedsLoad(w[i], q)
    <3>1. TreeOK(load(w[i], q), K) /\ View(load(w[i], q)) = View(w[i])
      BY <2>1, <2>5, LoadedTree, LoadedView
    <3>. QED  BY <2>1, <2>4, <2>5, <3>1
  <2>6. CASE ~ NeedsLoad(w[i], q)
    BY <2>1, <2>4, <2>6
  <2>. QED  BY <2>5, <2>6
<1>6. \A k \in Nat : k \in S
  <2> HIDE DEF S
  <2>. QED  BY <1>4, <1>5, Induction
<1>7. Good(w[Len(p)])
  BY <1>3, <1>6
<1>. QED  BY <1>1, <1>7 DEF find

\* Above an entry that is there, or could be, everything has been read.
LEMMA AboveRead ==
    ASSUME NEW m, NEW K, TreeOK(m, K), NEW p \in Paths, p # Root,
           lookup(m, p) \/ (Is(m, Parent(p), "dir") /\ m[Parent(p)].loaded)
    PROVE  /\ \A q \in Paths : Below(p, q) => m[q].kind = "dir" /\ m[q].loaded
           /\ Unread(m, p) = {}
           /\ View(m)[p] = Shown(m[p]) /\ View(m)[Parent(p)].kind = "dir"
<1>1. PICK r \in Paths : r = Parent(p) /\ Below(p, r)
  BY ParentPath
<1>2. m[r].kind = "dir" /\ m[r].loaded
  BY <1>1, TreeParts DEF Is
<1>3. ASSUME NEW q \in Paths, Below(p, q) PROVE m[q].kind = "dir" /\ m[q].loaded
  <2>1. q = r \/ Below(r, q)
    BY <1>1, <1>3, ParentPath
  <2>2. lookup(m, r)
    BY <1>2 DEF lookup
  <2>. QED  BY <1>2, <2>1, <2>2, TreeParts DEF Is
<1>4. ASSUME NEW i \in 0 .. (Len(p) - 1) PROVE ~ NeedsLoad(m, Prefix(p, i))
  BY <1>3, PrefixAbove DEF NeedsLoad
<1>5. Unread(m, p) = {}
  BY <1>4 DEF Unread
<1>6. Unread(m, r) = {}
  BY <1>1, <1>5, UnreadParent
<1>7. View(m)[r] = Shown(m[r])
  BY <1>6, ViewIs
<1>8. Shown(m[r]).kind = "dir"
  BY <1>2 DEF Shown, Seen
<1>. QED  BY <1>1, <1>3, <1>5, <1>7, <1>8, ViewIs

LEMMA EditedView ==
    ASSUME NEW m, NEW K, TreeOK(m, K), NEW p \in Paths, p # Root, NEW e,
           EntryOK(e, K), e.kind = "dir" => e.loaded,
           Is(m, Parent(p), "dir"), m[Parent(p)].loaded
    PROVE  /\ View(Edited(m, p, e))[p] = Shown(e)
           /\ \A q \in Paths \ {p} :
                View(Edited(m, p, e))[q] = IF Below(q, p) THEN Nothing ELSE View(m)[q]
<1>1. PICK w : w = Edited(m, p, e)
  OBVIOUS
<1>2. /\ w[p] = e
      /\ \A q \in Paths : Below(q, p) => w[q] = None
      /\ \A q \in Paths : Below(p, q) => w[q] = [m[q] EXCEPT !.modified = TRUE]
      /\ \A q \in Paths : q # p /\ ~ Below(q, p) /\ ~ Below(p, q) => w[q] = m[q]
  BY <1>1, BelowOther DEF Edited
<1>3. ASSUME NEW q \in Paths, Below(p, q)
      PROVE  /\ m[q].kind = "dir" /\ m[q].loaded /\ w[q].hash = m[q].hash
             /\ w[q].kind = "dir" /\ w[q].loaded
  <2>1. m[q].kind = "dir" /\ m[q].loaded
    BY <1>3, AboveRead
  <2>2. EntryOK(m[q], K)
    BY TreeParts
  <2>3. w[q] = Entry(m[q].kind, m[q].hash, TRUE, m[q].loaded)
    BY <1>2, <1>3, <2>2, EntrySet DEF EntryOK
  <2>4. w[q].kind = m[q].kind /\ w[q].hash = m[q].hash /\ w[q].loaded = m[q].loaded
    BY <2>3 DEF Entry
  <2>. QED  BY <2>1, <2>4
<1>4. ~ NeedsLoad(w, p) /\ \A q \in Paths : Below(p, q) \/ Below(q, p) => ~ NeedsLoad(w, q)
  BY <1>2, <1>3, NoneFields DEF NeedsLoad, Is
<1>5. ASSUME NEW q \in Paths, q = p \/ Below(q, p) PROVE Unread(w, q) = {}
  <2>1. ASSUME NEW r \in Paths, Below(q, r) PROVE ~ NeedsLoad(w, r)
    BY <1>4, <1>5, <2>1, BelowChain
  <2>. QED  BY <2>1, PrefixAbove DEF Unread
<1>6. View(w)[p] = Shown(e)
  BY <1>2, <1>5, ViewIs
<1>7. ASSUME NEW q \in Paths, Below(q, p) PROVE View(w)[q] = Nothing
  <2>1. Unread(w, q) = {} /\ w[q] = None
    BY <1>2, <1>5, <1>7
  <2>2. View(w)[q] = Shown(None)
    BY <2>1, ViewIs
  <2>. QED  BY <2>2, NoneFields DEF Shown, Nothing
<1>8. ASSUME NEW q \in Paths, q # p, ~ Below(q, p) PROVE View(w)[q] = View(m)[q]
  <2>1. ASSUME NEW r \in Paths, r = q \/ Below(q, r)
        PROVE  w[r].kind = m[r].kind /\ w[r].hash = m[r].hash /\ (NeedsLoad(w, r) <=> NeedsLoad(m, r))
    <3>1. r # p /\ ~ Below(r, p)
      BY <1>8, <2>1, BelowTrans
    <3>2. CASE Below(p, r)
      BY <1>3, <3>2 DEF NeedsLoad, Is
    <3>3. CASE ~ Below(p, r)
      BY <1>2, <3>1, <3>3 DEF NeedsLoad, Is
    <3>. QED  BY <3>2, <3>3
  <2>2. Unread(w, q) = Unread(m, q) /\ (Unread(m, q) # {} => Look(w, q) = Look(m, q))
    BY <2>1, LookSame
  <2>3. Look(w, q) = Look(m, q)
    BY <2>1, <2>2 DEF Look
  <2>4. Dirty(w, q) <=> Dirty(m, q)
    <3>1. CASE Below(p, q)
      BY <1>3, <3>1 DEF Dirty
    <3>2. CASE ~ Below(p, q)
      BY <1>2, <1>8, <2>2, <3>2 DEF Dirty
    <3>. QED  BY <3>1, <3>2
  <2>. QED  BY <2>1, <2>3, <2>4, ViewIs
<1>. QED  BY <1>1, <1>6, <1>7, <1>8

LEMMA RehashedView ==
    ASSUME NEW m, NEW K, TreeOK(m, K), NEW p \in Paths, m[p].modified, NEW h, NEW f
    PROVE  /\ View(m)[p] = Shown(m[p])
           /\ View(Rehashed(m, p, h, f))[p] = Shown(Entry(m[p].kind, h, f, m[p].loaded))
           /\ \A q \in Paths \ {p} : View(Rehashed(m, p, h, f))[q] = View(m)[q]
<1>1. PICK w : w = Rehashed(m, p, h, f)
  OBVIOUS
<1>2. w[p] = Entry(m[p].kind, h, f, m[p].loaded) /\ \A q \in Paths : q # p => w[q] = m[q]
  BY <1>1 DEF Rehashed
<1>3. w[p].kind = m[p].kind /\ w[p].loaded = m[p].loaded
  BY <1>2 DEF Entry
<1>4. lookup(m, p) /\ ~ NeedsLoad(m, p)
  BY TreeParts DEF EntryOK, lookup, NeedsLoad, Is
<1>5. Unread(m, p) = {}
  <2>1. CASE p = Root
    BY <2>1, RootPath DEF Unread
  <2>2. CASE p # Root
    BY <1>4, <2>2, AboveRead
  <2>. QED  BY <2>1, <2>2
<1>6. \A r \in Paths : (NeedsLoad(w, r) <=> NeedsLoad(m, r)) /\ (NeedsLoad(m, r) => w[r].hash = m[r].hash)
  BY <1>2, <1>3, <1>4 DEF NeedsLoad, Is
<1>7. \A q \in Paths : Unread(w, q) = Unread(m, q) /\ (Unread(m, q) # {} => Look(w, q) = Look(m, q))
  BY <1>6, LookSame
<1>8. View(m)[p] = Shown(m[p]) /\ View(w)[p] = Shown(w[p])
  BY <1>5, <1>7, ViewIs
<1>9. ASSUME NEW q \in Paths, q # p PROVE View(w)[q] = View(m)[q]
  <2>1. w[q] = m[q]
    BY <1>2, <1>9
  <2>2. Look(w, q) = Look(m, q) /\ (Dirty(w, q) <=> Dirty(m, q))
    BY <1>7, <2>1 DEF Look, Dirty
  <2>. QED  BY <2>1, <2>2, ViewIs
<1>. QED  BY <1>1, <1>2, <1>8, <1>9

-----------------------------------------------------------------------------
(* The repository implements OglStore.  The definitions of OglTree that    *)
(* OglStore brings along are those of this module.                         *)

LEMMA StoreTree ==
    /\ Store!Paths = Paths /\ Store!Root = Root /\ Store!NoHash = NoHash /\ Store!Nothing = Nothing
    /\ Store!EmptyTree = EmptyTree
    /\ \A p : Store!Parent(p) = Parent(p)
    /\ \A p, q : Store!Below(q, p) <=> Below(q, p)
    /\ \A k, d, e : Store!Seen(k, d, e) = Seen(k, d, e)
    /\ \A t : Store!Kept(t) = Kept(t)
BY DEF Store!Paths, Store!Root, Store!NoHash, Store!Nothing, Store!EmptyTree, Store!Parent, Store!Below,
    Store!Seen, Store!Kept, Store!Hash, Store!Prefix,
    Paths, Root, NoHash, Nothing, EmptyTree, Parent, Below, Seen, Kept, Hash, Prefix

LEMMA StoreTreeOf ==
    ASSUME NEW h
    PROVE  Store!TreeOf(h) = TreeOf(h)
BY DEF Store!TreeOf, Store!View, Store!Opened, Store!Paths, Store!Root, Store!Unread, Store!NeedsLoad,
    Store!Is, Store!Prefix, Store!Follow, Store!Seen, Store!Dentry, Store!NoDentry, Store!NoHash,
    Store!Hash, Store!Entry, Store!None,
    TreeOf, View, Opened, Paths, Root, Unread, NeedsLoad, Is, Prefix, Follow, Seen, Dentry, NoDentry,
    NoHash, Hash, Entry, None

LEMMA EditsHave ==
    ASSUME NEW x
    PROVE  /\ Nothing \in Store!Edits(x) /\ Seen("removed", 0, FALSE) \in Store!Edits(x)
           /\ x.kind = "none" => \A k \in Leaves \cup {"dir"} :
                Seen(k, 0, k \in {"file", "symlink"}) \in Store!Edits(x)
           /\ \A k \in {"file", "symlink"} : x.kind = k => Seen(k, 0, TRUE) \in Store!Edits(x)
           /\ x.dirty => \A c \in Contents : Seen(x.kind, c, FALSE) \in Store!Edits(x)
BY StoreTree DEF Store!Edits

StoreStep == [Store!Next]_(Store!vars)

LEMMA StoreStutters ==
    ASSUME View(mem') = View(mem), rootRef' = rootRef
    PROVE  StoreStep
BY DEF StoreStep, Store!vars

LEMMA StoreEdits ==
    ASSUME NEW p \in Paths, p # Root, rootRef' = rootRef,
           View(mem)[Parent(p)].kind = "dir", View(mem')[p] \in Store!Edits(View(mem)[p]),
           \A q \in Paths \ {p} : View(mem')[q] = IF Below(q, p) THEN Nothing ELSE View(mem)[q]
    PROVE  StoreStep
<1>1. Store!Edit
  BY StoreTree DEF Store!Edit
<1>2. CASE View(mem') = View(mem)
  BY <1>2, StoreStutters
<1>3. CASE View(mem') # View(mem)
  BY <1>1, <1>3 DEF StoreStep, Store!Next
<1>. QED  BY <1>2, <1>3

\* What is below an entry that is not a directory.
LEMMA BelowLeaf ==
    ASSUME NEW m, NEW K, TreeOK(m, K), NEW p \in Paths, lookup(m, p), m[p].kind # "dir",
           NEW q \in Paths, Below(q, p)
    PROVE  View(m)[q] = Nothing
<1>1. p # Root
  BY TreeParts DEF Is
<1>2. \A r \in Paths : Below(p, r) => m[r].kind = "dir" /\ m[r].loaded
  BY <1>1, AboveRead
<1>3. ASSUME NEW r \in Paths, Below(r, p) PROVE m[r] = None
  <2>1. ~ lookup(m, r)
    BY <1>3, TreeParts DEF Is
  <2>. QED  BY <2>1, TreeParts DEF lookup, EntryOK
<1>4. ASSUME NEW r \in Paths, Below(q, r) PROVE ~ NeedsLoad(m, r)
  <2>1. r = p \/ Below(r, p) \/ Below(p, r)
    BY <1>4, BelowChain
  <2>. QED  BY <1>2, <1>3, <2>1, NoneFields DEF NeedsLoad, Is
<1>5. Unread(m, q) = {}
  BY <1>4, PrefixAbove DEF Unread
<1>6. View(m)[q] = Shown(None)
  BY <1>3, <1>5, ViewIs
<1>. QED  BY <1>6, NoneFields DEF Shown, Nothing

LEMMA FindStore ==
    ASSUME RepoInv, NEW p \in Paths, Find(p)
    PROVE  StoreStep
<1>1. pc = "idle" /\ mem' = find(mem, p) /\ rootRef' = rootRef
  BY DEF Find, disk
<1>2. View(mem') = View(mem)
  BY <1>1, RunningTree, FoundView
<1>. QED  BY <1>1, <1>2, StoreStutters

\* The entry that is set at p is one that an edit may make of the one there.
LEMMA EditStore ==
    ASSUME RepoInv, Careful, NEW p \in Paths \ {Root}, Edit(p), NEW e,
           EntryOK(e, Known), e.kind = "dir" => e.loaded,
           mem' = Edited(find(mem, Parent(p)), p, e),
           Shown(e) \in Store!Edits(Shown(find(mem, Parent(p))[p]))
    PROVE  StoreStep
<1>1. PICK m : m = find(mem, Parent(p))
  OBVIOUS
<1>2. TreeOK(m, Known) /\ Is(m, Parent(p), "dir") /\ m[Parent(p)].loaded /\ pc = "idle" /\ rootRef' = rootRef
  BY <1>1, EditFacts DEF disk
<1>3. View(m) = View(mem)
  BY <1>1, <1>2, RunningTree, FoundView, ParentPath
<1>4. View(m)[p] = Shown(m[p]) /\ View(m)[Parent(p)].kind = "dir"
  BY <1>2, AboveRead
<1>5. /\ View(mem')[p] = Shown(e)
      /\ \A q \in Paths \ {p} : View(mem')[q] = IF Below(q, p) THEN Nothing ELSE View(m)[q]
  BY <1>1, <1>2, EditedView
<1>6. View(mem')[p] \in Store!Edits(View(mem)[p])
  BY <1>1, <1>3, <1>4, <1>5
<1>. QED  BY <1>2, <1>3, <1>4, <1>5, <1>6, StoreEdits

LEMMA SetIs ==
    ASSUME RepoInv, Careful, NEW p \in Paths \ {Root}, Edit(p), NEW e, EntryOK(e, Known), Set(p, e)
    PROVE  mem' = Edited(find(mem, Parent(p)), p, e)
<1>1. PICK m : m = find(mem, Parent(p))
  OBVIOUS
<1>2. TreeOK(m, Known)
  BY <1>1, EditFacts
<1>3. mem' = Edited(m, p, e)
  BY <1>1, <1>2, MarkIs DEF Set
<1>. QED  BY <1>1, <1>3

LEMMA ShownNew ==
    ASSUME NEW k \in {"nonexistent", "file", "symlink", "local", "removed"}
    PROVE  Shown(New(k)) = Seen(k, 0, k \in {"file", "symlink"})
<1>1. CASE k \in {"file", "symlink"}
  <2>1. New(k) = Entry(k, NoHash, TRUE, FALSE) /\ (k \in {"file", "symlink"}) = TRUE
    BY <1>1 DEF New
  <2>2. New(k).kind = k /\ New(k).modified = TRUE
    BY <2>1 DEF Entry
  <2>. QED  BY <1>1, <2>1, <2>2 DEF Shown
<1>2. CASE k \notin {"file", "symlink"}
  <2>1. (k \in {"file", "symlink"}) = FALSE
    BY <1>2
  <2>2. New(k) = Entry(k, NoHash, FALSE, FALSE)
    BY <2>1 DEF New
  <2>3. New(k).kind = k /\ New(k).modified = FALSE /\ New(k).hash = NoHash
    BY <2>2 DEF Entry
  <2>. QED  BY <2>1, <2>3, NoneFields DEF Shown
<1>. QED  BY <1>1, <1>2

LEMMA ShownKind ==
    ASSUME NEW e
    PROVE  Shown(e).kind = e.kind /\ (Shown(e).dirty <=> e.modified /\ e.kind # "dir")
BY DEF Shown, Seen

LEMMA AddStore ==
    ASSUME RepoInv, Careful, NEW p \in Paths \ {Root}, NEW kind \in Leaves, Add(p, kind)
    PROVE  StoreStep
<1>1. PICK x : x = find(mem, Parent(p))[p]
  OBVIOUS
<1>2. Edit(p) /\ x.kind = "none" /\ Set(p, New(kind))
  BY <1>1 DEF Add, lookup
<1>3. kind \in {"nonexistent", "file", "symlink", "local", "removed"}
  BY TreeAssumption
<1>4. EntryOK(New(kind), Known) /\ New(kind).kind # "dir"
  BY <1>3, NewOK
<1>5. Shown(New(kind)) \in Store!Edits(Shown(x))
  <2>1. Shown(x).kind = "none"
    BY <1>2, ShownKind
  <2>2. Seen(kind, 0, kind \in {"file", "symlink"}) \in Store!Edits(Shown(x))
    BY <2>1, EditsHave
  <2>. QED  BY <1>3, <2>2, ShownNew
<1>6. mem' = Edited(find(mem, Parent(p)), p, New(kind))
  BY <1>2, <1>4, SetIs
<1>. QED  BY <1>1, <1>2, <1>4, <1>5, <1>6, EditStore

LEMMA RemoveStore ==
    ASSUME RepoInv, Careful, NEW p \in Paths \ {Root}, Remove(p)
    PROVE  StoreStep
<1>1. Edit(p) /\ Set(p, None)
  BY DEF Remove
<1>2. EntryOK(None, Known) /\ None.kind # "dir"
  BY NoneOK, NoneFields
<1>3. Shown(None) = Nothing
  BY NoneFields DEF Shown, Nothing
<1>4. Shown(None) \in Store!Edits(Shown(find(mem, Parent(p))[p]))
  BY <1>3, EditsHave
<1>5. mem' = Edited(find(mem, Parent(p)), p, None)
  BY <1>1, <1>2, SetIs
<1>. QED  BY <1>1, <1>2, <1>4, <1>5, EditStore

LEMMA MarkRemovedStore ==
    ASSUME RepoInv, Careful, NEW p \in Paths \ {Root}, MarkRemoved(p)
    PROVE  StoreStep
<1>1. Edit(p) /\ Set(p, New("removed"))
  BY DEF MarkRemoved
<1>2. EntryOK(New("removed"), Known) /\ New("removed").kind # "dir"
  BY NewOK
<1>3. Shown(New("removed")) = Seen("removed", 0, FALSE)
  <2>1. PICK k \in {"nonexistent", "file", "symlink", "local", "removed"} : k = "removed"
    OBVIOUS
  <2>2. (k \in {"file", "symlink"}) = FALSE
    BY <2>1
  <2>. QED  BY <2>1, <2>2, ShownNew
<1>4. Shown(New("removed")) \in Store!Edits(Shown(find(mem, Parent(p))[p]))
  BY <1>3, EditsHave
<1>5. mem' = Edited(find(mem, Parent(p)), p, New("removed"))
  BY <1>1, <1>2, SetIs
<1>. QED  BY <1>1, <1>2, <1>4, <1>5, EditStore

LEMMA AddDirStore ==
    ASSUME RepoInv, Careful, NEW p \in Paths \ {Root}, AddDir(p)
    PROVE  StoreStep
<1>1. PICK m : m = find(mem, Parent(p))
  OBVIOUS
<1>2. PICK e : e = Entry("dir", NoHash, TRUE, TRUE)
  OBVIOUS
<1>3. Edit(p) /\ m[p].kind = "none" /\ mem' = mark_modified(Put(m, p, e), p)
  BY <1>1, <1>2 DEF AddDir, lookup
<1>4. TreeOK(m, Known)
  BY <1>1, <1>3, EditFacts
<1>5. e.kind = "dir" /\ e.hash = NoHash /\ e.modified = TRUE /\ e.loaded = TRUE
  BY <1>2 DEF Entry
<1>6. EntryOK(e, Known)
  <2>1. e = Entry(e.kind, e.hash, e.modified, e.loaded)
    BY <1>2, <1>5
  <2>. QED  BY <1>5, <2>1, NoneFields DEF EntryOK, Kinds
<1>7. mem' = Edited(m, p, e)
  BY <1>3, <1>4, <1>5, <1>6, MarkIs
<1>8. Shown(e) \in Store!Edits(Shown(m[p]))
  <2>1. PICK k \in Leaves \cup {"dir"} : k = "dir"
    OBVIOUS
  <2>2. (k \in {"file", "symlink"}) = FALSE
    BY <2>1
  <2>3. Seen(k, 0, FALSE) \in Store!Edits(Shown(m[p]))
    <3>1. Shown(m[p]).kind = "none"
      BY <1>3, ShownKind
    <3>2. Seen(k, 0, k \in {"file", "symlink"}) \in Store!Edits(Shown(m[p]))
      BY <3>1, EditsHave
    <3>. QED  BY <2>2, <3>2
  <2>4. Shown(e) = Seen("dir", 0, FALSE)
    BY <1>5, NoneFields DEF Shown
  <2>. QED  BY <2>1, <2>3, <2>4
<1>. QED  BY <1>1, <1>3, <1>5, <1>6, <1>7, <1>8, EditStore

LEMMA MarkModifiedStore ==
    ASSUME RepoInv, NEW p \in Paths \ {Root}, MarkModified(p)
    PROVE  StoreStep
<1>1. PICK m : m = find(mem, p)
  OBVIOUS
<1>2. PICK e : /\ e.kind = m[p].kind /\ e.modified = TRUE /\ EntryOK(e, Known)
               /\ mem' = Edited(m, p, e)
  BY <1>1, MarkModifiedFacts
<1>3. /\ m[p].kind \in {"file", "symlink"} /\ TreeOK(m, Known)
      /\ Is(m, Parent(p), "dir") /\ m[Parent(p)].loaded
  BY <1>1, MarkModifiedFacts
<1>4. pc = "idle" /\ rootRef' = rootRef
  BY DEF MarkModified, disk
<1>5. View(m) = View(mem)
  BY <1>1, <1>4, RunningTree, FoundView
<1>6. View(m)[p] = Shown(m[p]) /\ View(m)[Parent(p)].kind = "dir"
  BY <1>3, AboveRead
<1>7. /\ View(mem')[p] = Shown(e)
      /\ \A q \in Paths \ {p} : View(mem')[q] = IF Below(q, p) THEN Nothing ELSE View(m)[q]
  BY <1>2, <1>3, EditedView
<1>8. Shown(e) = Seen(m[p].kind, 0, TRUE)
  BY <1>2, <1>3 DEF Shown
<1>9. Seen(m[p].kind, 0, TRUE) \in Store!Edits(Shown(m[p]))
  BY <1>3, ShownKind, EditsHave
<1>10. View(mem')[p] \in Store!Edits(View(mem)[p])
  BY <1>5, <1>6, <1>7, <1>8, <1>9
<1>. QED  BY <1>4, <1>5, <1>6, <1>7, <1>10, StoreEdits

\* The content of a file or of a link has been read.
LEMMA LeafStore ==
    ASSUME RepoInv, Collecting({"file", "symlink"}), mem[Top].modified, NEW h, h.data \in Contents,
           SetHash(Top, h), rootRef' = rootRef
    PROVE  StoreStep
<1>1. pc = "collect" /\ todumps # <<>> /\ mem[Top].kind \in {"file", "symlink"}
  BY DEF Collecting
<1>2. TreeOK(mem, Known)
  BY <1>1, RunningTree DEF Committing
<1>3. PICK p \in Paths : p = Top
  BY <1>1, PopFacts
<1>4. p # Root /\ lookup(mem, p)
  BY <1>1, <1>2, <1>3, TreeParts DEF Is, lookup
<1>5. mem' = Rehashed(mem, p, h, FALSE)
  <2>1. [mem EXCEPT ![p].hash = h, ![p].modified = FALSE] = Rehashed(mem, p, h, FALSE)
    BY <1>2, RehashIs
  <2>. QED  BY <1>3, <2>1 DEF SetHash
<1>6. PICK e : e = Entry(mem[p].kind, h, FALSE, mem[p].loaded)
  OBVIOUS
<1>7. View(mem)[p] = Shown(mem[p]) /\ View(mem')[p] = Shown(e)
  <2>1. PICK f : f = FALSE
    OBVIOUS
  <2>2. /\ View(mem)[p] = Shown(mem[p])
        /\ View(Rehashed(mem, p, h, f))[p] = Shown(Entry(mem[p].kind, h, f, mem[p].loaded))
    BY <1>2, <1>3, RehashedView
  <2>. QED  BY <1>5, <1>6, <2>1, <2>2
<1>8. \A q \in Paths \ {p} : View(mem')[q] = View(mem)[q]
  <2>1. PICK f : f = FALSE
    OBVIOUS
  <2>2. \A q \in Paths \ {p} : View(Rehashed(mem, p, h, f))[q] = View(mem)[q]
    BY <1>2, <1>3, RehashedView
  <2>. QED  BY <1>5, <2>1, <2>2
<1>9. \A q \in Paths : Below(q, p) => View(mem)[q] = Nothing
  BY <1>1, <1>2, <1>3, <1>4, BelowLeaf
<1>10. \A q \in Paths \ {p} : View(mem')[q] = IF Below(q, p) THEN Nothing ELSE View(mem)[q]
  BY <1>8, <1>9
<1>11. View(mem)[Parent(p)].kind = "dir"
  BY <1>2, <1>4, AboveRead
<1>12. Shown(e) = Seen(mem[p].kind, h.data, FALSE)
  <2>1. e.kind = mem[p].kind /\ e.hash = h /\ e.modified = FALSE
    BY <1>6 DEF Entry
  <2>. QED  BY <2>1 DEF Shown
<1>13. Seen(mem[p].kind, h.data, FALSE) \in Store!Edits(Shown(mem[p]))
  <2>1. Shown(mem[p]).kind = mem[p].kind /\ Shown(mem[p]).dirty
    BY <1>1, <1>3, ShownKind
  <2>. QED  BY <2>1, EditsHave
<1>14. View(mem')[p] \in Store!Edits(View(mem)[p])
  BY <1>7, <1>12, <1>13
<1>. QED  BY <1>4, <1>10, <1>11, <1>14, StoreEdits

LEMMA HashFileStore ==
    ASSUME RepoInv, NEW c \in Contents, HashFile(c) \/ HashFileFails(c)
    PROVE  StoreStep
<1>1. /\ Collecting({"file"}) /\ mem[Top].modified /\ rootRef' = rootRef
      /\ mem' = mem \/ SetHash(Top, FileHash(c))
  BY DEF HashFile, HashFileFails, Fails, disk
<1>2. Collecting({"file", "symlink"})
  BY <1>1 DEF Collecting
<1>3. FileHash(c).data \in Contents
  BY DEF FileHash, Hash
<1>4. CASE mem' = mem
  BY <1>1, <1>4, StoreStutters
<1>5. CASE SetHash(Top, FileHash(c))
  BY <1>1, <1>2, <1>3, <1>5, LeafStore
<1>. QED  BY <1>1, <1>4, <1>5

LEMMA DumpLinkStore ==
    ASSUME RepoInv, NEW c \in Contents, DumpLink(c) \/ DumpLinkFails(c)
    PROVE  StoreStep
<1>1. /\ Collecting({"symlink"}) /\ mem[Top].modified /\ rootRef' = rootRef
      /\ mem' = mem \/ SetHash(Top, LinkObj(c))
  BY DEF DumpLink, DumpLinkFails, Stores, StoreFails, Fails, disk
<1>2. Collecting({"file", "symlink"})
  BY <1>1 DEF Collecting
<1>3. LinkObj(c).data \in Contents
  BY DEF LinkObj, Hash
<1>4. CASE mem' = mem
  BY <1>1, <1>4, StoreStutters
<1>5. CASE SetHash(Top, LinkObj(c))
  BY <1>1, <1>2, <1>3, <1>5, LeafStore
<1>. QED  BY <1>1, <1>4, <1>5

\* The hash of a directory cannot be seen.
LEMMA DumpDirStore ==
    ASSUME RepoInv, DumpDir \/ DumpDirFails
    PROVE  StoreStep
<1>1. PICK obj : obj = DirObj(mem, NextDir)
  OBVIOUS
<1>2. /\ Dumping /\ rootRef' = rootRef
      /\ \/ mem' = [mem EXCEPT ![NextDir].hash = obj, ![NextDir].modified = FALSE]
         \/ mem' = [mem EXCEPT ![NextDir].hash = obj]
  BY <1>1 DEF DumpDir, DumpDirFails, Stores, StoreFails
<1>3. PICK d \in Paths : d = NextDir
  BY <1>2, NextDirFacts
<1>4. mem[d].kind = "dir" /\ mem[d].modified /\ TreeOK(mem, Known)
  BY <1>2, <1>3, NextDirFacts
<1>5. PICK f \in BOOLEAN : mem' = Rehashed(mem, d, obj, f)
  <2>1. /\ [mem EXCEPT ![d].hash = obj, ![d].modified = FALSE] = Rehashed(mem, d, obj, FALSE)
        /\ [mem EXCEPT ![d].hash = obj] = Rehashed(mem, d, obj, TRUE)
    BY <1>4, RehashIs
  <2>2. mem' = Rehashed(mem, d, obj, FALSE) \/ mem' = Rehashed(mem, d, obj, TRUE)
    BY <1>2, <1>3, <2>1
  <2>. QED  BY <2>2
<1>6. /\ View(mem)[d] = Shown(mem[d])
      /\ View(mem')[d] = Shown(Entry(mem[d].kind, obj, f, mem[d].loaded))
      /\ \A q \in Paths \ {d} : View(mem')[q] = View(mem)[q]
  BY <1>4, <1>5, RehashedView
<1>7. obj.data = 0 /\ mem[d].hash.data = 0
  BY <1>1, <1>4, ObjFacts, TreeParts DEF EntryOK
<1>8. /\ Shown(mem[d]) = Seen("dir", 0, FALSE)
      /\ Shown(Entry(mem[d].kind, obj, f, mem[d].loaded)) = Seen("dir", 0, FALSE)
  <2>1. Shown(mem[d]) = Seen("dir", 0, FALSE)
    BY <1>4, <1>7 DEF Shown
  <2>2. PICK e : e = Entry(mem[d].kind, obj, f, mem[d].loaded)
    OBVIOUS
  <2>3. e.kind = "dir" /\ e.hash = obj
    BY <1>4, <2>2 DEF Entry
  <2>4. Shown(e) = Seen("dir", 0, FALSE)
    BY <1>7, <2>3 DEF Shown
  <2>. QED  BY <2>1, <2>2, <2>4
<1>9. \A q \in Paths : View(mem')[q] = View(mem)[q]
  BY <1>6, <1>8
<1>10. View(mem') = [q \in Paths |-> View(mem')[q]] /\ View(mem) = [q \in Paths |-> View(mem)[q]]
  BY DEF View
<1>. QED  BY <1>2, <1>9, <1>10, StoreStutters

\* The tree is stored as a whole when root-ref is written.
LEMMA WriteRefStore ==
    ASSUME RepoInv, WriteRef
    PROVE  StoreStep
<1>1. pc = "write" /\ rootRef' = mem[Root].hash /\ mem' = mem
  BY DEF WriteRef
<1>2. TreeOK(mem, Known) /\ ~ mem[Root].modified
  BY <1>1, RunningTree, InvParts DEF PhaseInv, Committing
<1>3. DirAt(mem[Root].hash, 0, Known)
  BY <1>2, RootPath, TreeParts
<1>4. rootRef' # NoHash
  BY <1>1, <1>3, DirAtData, NoneFields
<1>5. ASSUME NEW p \in Paths PROVE ~ View(mem)[p].dirty
  <2>1. p = Root \/ Below(p, Root)
    BY BelowRoot
  <2>2. ~ mem[p].modified
    BY <1>2, <2>1, RootPath, TreeParts
  <2>3. View(mem)[p] = Seen(Look(mem, p).kind, Look(mem, p).hash.data, FALSE)
    BY <2>2, ViewIs DEF Dirty
  <2>. QED  BY <2>3 DEF Seen
<1>6. TreeOf(rootRef') = Kept(View(mem))
  BY <1>1, <1>2, CleanView
<1>7. Store!Commit
  BY <1>1, <1>4, <1>5, <1>6, StoreTree, StoreTreeOf DEF Store!Commit
<1>8. CASE rootRef' = rootRef
  BY <1>1, <1>8, StoreStutters
<1>9. CASE rootRef' # rootRef
  BY <1>7, <1>9 DEF StoreStep, Store!Next
<1>. QED  BY <1>8, <1>9

LEMMA TruncateRefStore ==
    ASSUME TruncateRef
    PROVE  StoreStep
<1>1. rootRef' = NoHash /\ mem' = mem
  BY DEF TruncateRef
<1>2. Store!Lose
  BY <1>1, StoreTree DEF Store!Lose
<1>3. CASE rootRef' = rootRef
  BY <1>1, <1>3, StoreStutters
<1>4. CASE rootRef' # rootRef
  BY <1>2, <1>4 DEF StoreStep, Store!Next
<1>. QED  BY <1>3, <1>4

LEMMA CrashStore ==
    ASSUME Crash
    PROVE  StoreStep
<1>1. rootRef' = rootRef /\ mem' = Opened(rootRef)
  BY DEF Crash
<1>2. View(mem') = TreeOf(rootRef)
  BY <1>1 DEF TreeOf
<1>3. Store!Restart
  BY <1>1, <1>2, StoreTreeOf DEF Store!Restart
<1>4. CASE View(mem') = View(mem)
  BY <1>1, <1>4, StoreStutters
<1>5. CASE View(mem') # View(mem)
  BY <1>3, <1>5 DEF StoreStep, Store!Next
<1>. QED  BY <1>4, <1>5

LEMMA OpenStore ==
    ASSUME RepoInv, Open
    PROVE  StoreStep
<1>1. pc = "down" /\ rootRef \in objects /\ mem' = load(mem, Root) /\ rootRef' = rootRef
  BY DEF Open
<1>2. mem = Opened(rootRef) /\ DirAt(rootRef, 0, Known)
  BY <1>1, InvParts DEF MemInv, DiskInv
<1>3. TreeOK(mem, Known) /\ NeedsLoad(mem, Root)
  BY <1>2, OpenedTree
<1>4. View(mem') = View(mem)
  BY <1>1, <1>3, RootPath, LoadedView
<1>. QED  BY <1>1, <1>4, StoreStutters

LEMMA NextStore ==
    ASSUME RepoInv, Careful, Next
    PROVE  StoreStep
<1>1. ASSUME NEW p \in Paths, Find(p) \/ FindAborts(p) PROVE StoreStep
  BY <1>1, FindStore, StoreStutters DEF FindAborts, abort, disk
<1>2. ASSUME NEW p \in Paths \ {Root},
             \/ \E kind \in Leaves : Add(p, kind)
             \/ AddDir(p) \/ Remove(p) \/ MarkRemoved(p) \/ MarkModified(p)
      PROVE  StoreStep
  BY <1>2, AddStore, AddDirStore, RemoveStore, MarkRemovedStore, MarkModifiedStore
<1>3. ASSUME CommitBegin PROVE StoreStep
  BY <1>3, StoreStutters DEF CommitBegin, disk
<1>4. ASSUME CommitStep PROVE StoreStep
  <2>1. ASSUME NEW c \in Contents, HashFile(c) \/ HashFileFails(c) \/ DumpLink(c) \/ DumpLinkFails(c)
        PROVE  StoreStep
    BY <2>1, HashFileStore, DumpLinkStore
  <2>2. ASSUME Skip \/ CollectDir \/ CollectEnd \/ DumpEnd \/ RefFails PROVE StoreStep
    <3>1. mem' = mem /\ rootRef' = rootRef
      BY <2>2 DEF Skip, CollectDir, CollectEnd, DumpEnd, RefFails, disk
    <3>. QED  BY <3>1, StoreStutters
  <2>. QED  BY <1>4, <2>1, <2>2, DumpDirStore, TruncateRefStore, WriteRefStore DEF CommitStep
<1>5. ASSUME Crash \/ Open PROVE StoreStep
  BY <1>5, CrashStore, OpenStore
<1>6. ASSUME OpenAborts \/ Aborted PROVE StoreStep
  <2>1. mem' = mem /\ rootRef' = rootRef
    BY <1>6 DEF OpenAborts, Aborted, abort, vars, disk
  <2>. QED  BY <2>1, StoreStutters
<1>. QED  BY <1>1, <1>2, <1>3, <1>4, <1>5, <1>6 DEF Next

LEMMA InitStore ==
    ASSUME Init
    PROVE  Store!Init
<1>1. mem = load(Opened(EmptyDir), Root) /\ rootRef = EmptyDir
  BY DEF Init
<1>2. PICK o : o = Opened(EmptyDir)
  OBVIOUS
<1>3. TreeOK(o, {EmptyDir}) /\ NeedsLoad(o, Root)
  BY <1>2, EmptyDirAt, OpenedTree
<1>4. View(mem) = TreeOf(EmptyDir)
  <2>1. View(load(o, Root)) = View(o)
    BY <1>3, RootPath, LoadedView
  <2>. QED  BY <1>1, <1>2, <2>1 DEF TreeOf
<1>5. EmptyDir.type = "DIR" /\ EmptyDir.data = 0 /\ \A n \in Names : EmptyDir.ents[n] = NoDentry
  BY DEF EmptyDir, Hash
<1> DEFINE S == {k \in Nat : \A p \in Paths : Len(p) = k + 1 => Follow(EmptyDir, p) = NoDentry}
<1>6. ASSUME NEW p \in Paths, p # Root, NEW e, e = Follow(EmptyDir, Parent(p)),
             e = NoDentry \/ e = Dentry("dir", EmptyDir)
      PROVE  Follow(EmptyDir, p) = NoDentry
  <2>1. Follow(EmptyDir, p) = EntsOf(e.hash)[p[Len(p)]] /\ p[Len(p)] \in Names
    BY <1>6, FollowChild, ParentPath
  <2>2. e.hash = NoHash \/ e.hash = EmptyDir
    BY <1>6, NoneFields, DentryFields
  <2>. QED  BY <1>5, <2>1, <2>2, NoneFields DEF EntsOf
<1>7. 0 \in S
  <2> SUFFICES ASSUME NEW p \in Paths, Len(p) = 0 + 1 PROVE Follow(EmptyDir, p) = NoDentry
    OBVIOUS
  <2>1. p # Root
    BY RootPath
  <2>2. Parent(p) \in Paths /\ Len(Parent(p)) = 0
    BY <2>1, ParentPath
  <2>3. Parent(p) = Root
    BY <2>2, RootPath, PathEqual
  <2>. QED  BY <1>6, <2>1, <2>3, FollowRoot
<1>8. ASSUME NEW k \in Nat, k \in S PROVE k + 1 \in S
  <2> SUFFICES ASSUME NEW p \in Paths, Len(p) = (k + 1) + 1 PROVE Follow(EmptyDir, p) = NoDentry
    OBVIOUS
  <2>1. p # Root
    BY RootPath
  <2>2. Parent(p) \in Paths /\ Len(Parent(p)) = k + 1
    BY <2>1, ParentPath
  <2>. QED  BY <1>6, <1>8, <2>1, <2>2
<1>9. \A k \in Nat : k \in S
  <2> HIDE DEF S
  <2>. QED  BY <1>7, <1>8, Induction
<1>10. ASSUME NEW p \in Paths PROVE TreeOf(EmptyDir)[p] = EmptyTree[p]
  <2>1. TreeOf(EmptyDir)[p] = Seen(Follow(EmptyDir, p).kind, Follow(EmptyDir, p).hash.data, FALSE)
    BY TreeOfIs
  <2>2. CASE p = Root
    <3>1. Follow(EmptyDir, p).kind = "dir" /\ Follow(EmptyDir, p).hash = EmptyDir
      BY <2>2, FollowRoot, DentryFields
    <3>. QED  BY <1>5, <2>1, <2>2, <3>1 DEF EmptyTree
  <2>3. CASE p # Root
    <3>1. PICK k \in Nat : Len(p) = k + 1
      <4>1. Len(p) \in Nat \ {0}
        BY <2>3, ParentPath
      <4>2. Len(p) - 1 \in Nat /\ Len(p) = (Len(p) - 1) + 1
        BY <4>1
      <4>. QED  BY <4>2
    <3>2. Follow(EmptyDir, p) = NoDentry
      BY <1>9, <3>1
    <3>. QED  BY <2>1, <2>3, <3>2, NoneFields DEF EmptyTree, Nothing
  <2>. QED  BY <2>2, <2>3
<1>11. TreeOf(EmptyDir) = [p \in Paths |-> TreeOf(EmptyDir)[p]] /\ EmptyTree = [p \in Paths |-> EmptyTree[p]]
  BY DEF TreeOf, View, EmptyTree
<1>12. TreeOf(EmptyDir) = EmptyTree
  BY <1>10, <1>11
<1>13. rootRef # NoHash
  BY <1>1, <1>5, NoneFields
<1>. QED  BY <1>1, <1>4, <1>12, <1>13, StoreTree, StoreTreeOf DEF Store!Init

\* The repository does what OglStore says: every step is an edit of one entry of the
\* working tree, a commit of the whole of it, the loss of root-ref while it is being
\* rewritten, a restart from the stored tree, or cannot be seen (find's reading,
\* commit's collecting and dumping, and every failure on the way).
THEOREM RepoImplements ==
    ASSUME Careful
    PROVE  Spec => Implements
<1>1. Init => Store!Init
  BY InitStore
<1>2. RepoInv /\ [Next]_vars => [Store!Next]_(Store!vars)
  <2>1. ASSUME RepoInv, Next PROVE StoreStep
    BY <2>1, NextStore
  <2>2. ASSUME UNCHANGED vars PROVE StoreStep
    BY <2>2, StoreStutters DEF vars, disk
  <2>. QED  BY <2>1, <2>2 DEF StoreStep
<1>. QED  BY <1>1, <1>2, RepoCorrect, PTL DEF Spec, Implements, Store!Spec

=============================================================================
