---------------------------- MODULE BridgeProofs ----------------------------
(***************************************************************************)
(* What tinypack packs it unpacks again, for every list of fields; and     *)
(* from that what a call through the bridge gives, for any number of       *)
(* paths, descriptors and datagrams.                                       *)
(***************************************************************************)
EXTENDS Bridge, InductionFacts, SequenceTheorems

-----------------------------------------------------------------------------
(* Sequences.                                                              *)

\* Concatenation, the empty sequence and a slice under names that the provers leave
\* alone.
Cat(a, b) == a \o b
Blank == <<>>
Sub(s, m, n) == SubSeq(s, m + 1, m + n)

\* Sequence r is the n cells of s behind the first m.
IsSub(r, s, m, n) == r \in Seq(Int) /\ Len(r) = n /\ \A k \in 1 .. n : r[k] = s[m + k]

LEMMA Slice == \A s \in Seq(Int), m, n \in Nat : m + n <= Len(s) => IsSub(Sub(s, m, n), s, m, n)
<1> SUFFICES ASSUME NEW s \in Seq(Int), NEW m \in Nat, NEW n \in Nat, m + n <= Len(s),
                    NEW r, r = SubSeq(s, m + 1, m + n)
             PROVE  IsSub(r, s, m, n)
  BY DEF Sub
<1>1. m + 1 \in Int /\ m + n \in Int /\ \A i \in (m + 1) .. (m + n) : s[i] \in Int
  OBVIOUS
<1>2. /\ r \in Seq(Int)
      /\ Len(r) = IF m + 1 <= m + n THEN (m + n) - (m + 1) + 1 ELSE 0
      /\ \A i \in 1 .. ((m + n) - (m + 1) + 1) : r[i] = s[(m + 1) + i - 1]
  BY <1>1, SubSeqProperties
<1>3. (m + n) - (m + 1) + 1 = n /\ \A i \in 1 .. n : (m + 1) + i - 1 = m + i
  OBVIOUS
<1>. QED  BY <1>2, <1>3 DEF IsSub

LEMMA SeqSame ==
    ASSUME NEW r \in Seq(Int), NEW s \in Seq(Int), NEW n \in Nat, Len(r) = n, Len(s) = n,
           \A k \in 1 .. n : r[k] = s[k]
    PROVE  r = s
OBVIOUS

\* Sequence d is a and behind it b.
IsCat(d, a, b) ==
    /\ d \in Seq(Int) /\ Len(d) = Len(a) + Len(b)
    /\ \A k \in 1 .. Len(a) : d[k] = a[k]
    /\ \A k \in 1 .. Len(b) : d[Len(a) + k] = b[k]

LEMMA Joined == \A a, b \in Seq(Int) : IsCat(Cat(a, b), a, b)
<1> SUFFICES ASSUME NEW a \in Seq(Int), NEW b \in Seq(Int), NEW d, d = Cat(a, b)
             PROVE  IsCat(d, a, b)
  OBVIOUS
<1>1. /\ d \in Seq(Int) /\ Len(d) = Len(a) + Len(b)
      /\ \A i \in 1 .. (Len(a) + Len(b)) : d[i] = IF i <= Len(a) THEN a[i] ELSE b[i - Len(a)]
  BY ConcatProperties DEF Cat
<1>2. PICK m \in Nat, n \in Nat : m = Len(a) /\ n = Len(b)
  BY LenProperties
<1>3. /\ d \in Seq(Int) /\ Len(d) = m + n
      /\ \A i \in 1 .. (m + n) : d[i] = IF i <= m THEN a[i] ELSE b[i - m]
  BY <1>1, <1>2, Zenon
<1>4. ASSUME NEW k \in 1 .. m PROVE d[k] = a[k]
  <2>1. k \in 1 .. (m + n) /\ k <= m
    OBVIOUS
  <2>. QED  BY <1>3, <2>1, Zenon
<1>5. ASSUME NEW k \in 1 .. n PROVE d[m + k] = b[k]
  <2>1. m + k \in 1 .. (m + n) /\ ~ (m + k <= m) /\ (m + k) - m = k
    OBVIOUS
  <2>2. d[m + k] = b[(m + k) - m]
    BY <1>3, <2>1, Zenon
  <2>. QED  BY <2>1, <2>2, Zenon
<1>. QED  BY <1>2, <1>3, <1>4, <1>5, Zenon DEF IsCat

LEMMA CatAssoc == \A a, b, c \in Seq(Int) : Cat(Cat(a, b), c) = Cat(a, Cat(b, c))
<1> SUFFICES ASSUME NEW a \in Seq(Int), NEW b \in Seq(Int), NEW c \in Seq(Int)
             PROVE  Cat(Cat(a, b), c) = Cat(a, Cat(b, c))
  BY Zenon
<1>1. PICK x, y : x = Cat(a, b) /\ y = Cat(b, c)
  OBVIOUS
<1>2. IsCat(x, a, b) /\ IsCat(y, b, c)
  BY <1>1, Joined, Zenon
<1>3. x \in Seq(Int) /\ y \in Seq(Int)
  BY <1>2, Zenon DEF IsCat
<1>4. PICK l, r : l = Cat(x, c) /\ r = Cat(a, y)
  OBVIOUS
<1>5. IsCat(l, x, c) /\ IsCat(r, a, y)
  BY <1>3, <1>4, Joined, Zenon
<1>6. PICK i \in Nat, j \in Nat, k \in Nat : i = Len(a) /\ j = Len(b) /\ k = Len(c)
  BY LenProperties
<1>7. /\ Len(x) = i + j /\ \A p \in 1 .. i : x[p] = a[p]
      /\ \A p \in 1 .. j : x[i + p] = b[p]
  BY <1>2, <1>6, Zenon DEF IsCat
<1>8. /\ Len(y) = j + k /\ \A p \in 1 .. j : y[p] = b[p]
      /\ \A p \in 1 .. k : y[j + p] = c[p]
  BY <1>2, <1>6, Zenon DEF IsCat
<1>9. /\ l \in Seq(Int) /\ Len(l) = (i + j) + k
      /\ \A p \in 1 .. (i + j) : l[p] = x[p]
      /\ \A p \in 1 .. k : l[(i + j) + p] = c[p]
  BY <1>5, <1>6, <1>7, Zenon DEF IsCat
<1>10. /\ r \in Seq(Int) /\ Len(r) = i + (j + k)
       /\ \A p \in 1 .. i : r[p] = a[p]
       /\ \A p \in 1 .. (j + k) : r[i + p] = y[p]
  BY <1>5, <1>6, <1>8, Zenon DEF IsCat
<1>11. PICK n \in Nat : n = i + j + k
  OBVIOUS
<1>12. Len(l) = n /\ Len(r) = n
  BY <1>9, <1>10, <1>11
<1>13. ASSUME NEW p \in 1 .. n PROVE l[p] = r[p]
  <2>1. CASE p <= i
    <3>1. p \in 1 .. i /\ p \in 1 .. (i + j)
      BY <2>1
    <3>. QED  BY <1>7, <1>9, <1>10, <3>1, Zenon
  <2>2. CASE i < p /\ p <= i + j
    <3>1. PICK q : q = p - i
      OBVIOUS
    <3>2. q \in 1 .. j /\ q \in 1 .. (j + k) /\ p \in 1 .. (i + j) /\ i + q = p
      BY <2>2, <3>1
    <3>. QED  BY <1>7, <1>8, <1>9, <1>10, <3>2, Zenon
  <2>3. CASE i + j < p
    <3>1. PICK q : q = p - (i + j)
      OBVIOUS
    <3>2. q \in 1 .. k /\ j + q \in 1 .. (j + k) /\ (i + j) + q = p /\ i + (j + q) = p
      BY <1>11, <2>3, <3>1
    <3>. QED  BY <1>8, <1>9, <1>10, <3>2, Zenon
  <2>. QED  BY <2>1, <2>2, <2>3
<1>14. l = r
  BY <1>9, <1>10, <1>12, <1>13, SeqSame
<1>. QED  BY <1>1, <1>4, <1>14, Zenon

-----------------------------------------------------------------------------
(* tinypack.                                                               *)

\* A field whose value is one of its type.
FieldOK(f) ==
    \/ f.type \in {Word, Long, Struct} /\ f.value \in Int
    \/ f.type = Str /\ f.value \in Seq(Int)
    \/ \E n \in Nat : f.type = Buf(n) /\ f.value \in Seq(Int) /\ Len(f.value) = n

FieldsOK(fields) == \A i \in 1 .. Len(fields) : FieldOK(fields[i])

TypesOf(fields) == [i \in 1 .. Len(fields) |-> fields[i].type]
ValuesOf(fields) == [i \in 1 .. Len(fields) |-> fields[i].value]

\* The cells of one field.
LEMMA Written ==
    ASSUME NEW f, FieldOK(f)
    PROVE  /\ writebuf(f) \in Seq(Int)
           /\ f.type \in {Word, Long, Struct} =>
                /\ Len(writebuf(f)) = (IF f.type = Word THEN 1 ELSE IF f.type = Long THEN LongSize ELSE StructSize)
                /\ writebuf(f)[1] = f.value
           /\ f.type = Str =>
                /\ Len(writebuf(f)) = Len(f.value) + 2 /\ writebuf(f)[1] = Len(f.value) + 1
                /\ \A k \in 1 .. Len(f.value) : writebuf(f)[k + 1] = f.value[k]
           /\ \A n \in Nat : f.type = Buf(n) =>
                /\ Len(writebuf(f)) = n + 1 /\ writebuf(f)[1] = n /\ Len(f.value) = n
                /\ \A k \in 1 .. n : writebuf(f)[k + 1] = f.value[k]
<1> USE DEF Word, Long, Struct, Str, Buf, Type
<1>1. CASE f.type = Word /\ f.value \in Int
  <2>1. writebuf(f) = <<f.value>>
    BY <1>1 DEF writebuf
  <2>. QED  BY <1>1, <2>1
<1>2. CASE f.type = Long /\ f.value \in Int
  <2>1. writebuf(f) = [i \in 1 .. LongSize |-> f.value]
    BY <1>2 DEF writebuf
  <2>. QED  BY <1>2, <2>1 DEF LongSize
<1>3. CASE f.type = Struct /\ f.value \in Int
  <2>1. writebuf(f) = [i \in 1 .. StructSize |-> f.value]
    BY <1>3 DEF writebuf
  <2>. QED  BY <1>3, <2>1 DEF StructSize
<1>4. CASE f.type = Str /\ f.value \in Seq(Int)
  <2>0. f.type.name = "str"
    BY <1>4
  <2>1. writebuf(f) = <<Len(f.value) + 1>> \o Append(f.value, 0)
    BY <2>0, Zenon DEF writebuf, Terminator
  <2>2. PICK v \in Seq(Int) : v = f.value
    BY <1>4
  <2>3. Len(v) \in Nat /\ Append(v, 0) \in Seq(Int) /\ Len(Append(v, 0)) = Len(v) + 1
        /\ <<Len(v) + 1>> \in Seq(Int) /\ Len(<<Len(v) + 1>>) = 1
    OBVIOUS
  <2>4. PICK w : w = <<Len(v) + 1>> \o Append(v, 0)
    OBVIOUS
  <2>5. w \in Seq(Int) /\ Len(w) = Len(v) + 2 /\ w[1] = Len(v) + 1
    BY <2>3, <2>4
  <2>6. ASSUME NEW k \in 1 .. Len(v) PROVE w[k + 1] = v[k]
    BY <2>3, <2>4
  <2>7. writebuf(f) = w
    BY <2>1, <2>2, <2>4
  <2>8. f.type.name = "str"
    BY <1>4
  <2>. QED  BY <1>4, <2>2, <2>5, <2>6, <2>7, <2>8
<1>5. CASE \E n \in Nat : f.type = Buf(n) /\ f.value \in Seq(Int) /\ Len(f.value) = n
  <2>1. PICK n \in Nat : f.type = Buf(n) /\ f.value \in Seq(Int) /\ Len(f.value) = n
    BY <1>5
  <2>2. writebuf(f) = <<Len(f.value)>> \o f.value
    BY <2>1 DEF writebuf
  <2>3. PICK v \in Seq(Int) : v = f.value
    BY <2>1
  <2>4. PICK w : w = <<Len(v)>> \o v
    OBVIOUS
  <2>5. w \in Seq(Int) /\ Len(w) = n + 1 /\ w[1] = n
    BY <2>1, <2>3, <2>4
  <2>6. ASSUME NEW k \in 1 .. n PROVE w[k + 1] = v[k]
    BY <2>1, <2>3, <2>4
  <2>7. f.type.name = "buf" /\ \A m \in Nat : f.type = Buf(m) => m = n
    BY <2>1
  <2>8. writebuf(f) = w
    BY <2>2, <2>3, <2>4
  <2>. QED  BY <2>1, <2>3, <2>5, <2>6, <2>7, <2>8
<1>. QED  BY <1>1, <1>2, <1>3, <1>4, <1>5 DEF FieldOK

\* The first i fields packed, for i = 0 .. n.
Packed(fields, n, w) ==
    w = [i \in 0 .. n |-> IF i = 0 THEN Blank ELSE Cat(w[i - 1], writebuf(fields[i]))]

LEMMA PackedExists ==
    ASSUME NEW fields
    PROVE  \A n \in Nat : \E w : Packed(fields, n, w)
<1> DEFINE S == {n \in Nat : \E w : Packed(fields, n, w)}
<1>1. 0 \in S
  <2> DEFINE w == [i \in 0 .. 0 |-> Blank]
  <2>1. w = [i \in 0 .. 0 |-> IF i = 0 THEN Blank ELSE Cat(w[i - 1], writebuf(fields[i]))]
    OBVIOUS
  <2> HIDE DEF w
  <2>. QED  BY <2>1 DEF Packed
<1>2. ASSUME NEW n \in Nat, n \in S PROVE n + 1 \in S
  <2>1. PICK w : Packed(fields, n, w)
    BY <1>2
  <2> DEFINE u == [i \in 0 .. (n + 1) |-> IF i <= n THEN w[i] ELSE Cat(w[n], writebuf(fields[n + 1]))]
  <2>2. ASSUME NEW i \in 0 .. (n + 1)
        PROVE  u[i] = IF i = 0 THEN Blank ELSE Cat(u[i - 1], writebuf(fields[i]))
    <3>1. CASE i = 0
      BY <2>1, <3>1 DEF Packed
    <3>2. CASE i \in 1 .. n
      <4>1. u[i] = w[i] /\ u[i - 1] = w[i - 1]
        BY <3>2
      <4>2. w[i] = Cat(w[i - 1], writebuf(fields[i]))
        BY <2>1, <3>2 DEF Packed
      <4> HIDE DEF u
      <4>. QED  BY <3>2, <4>1, <4>2
    <3>3. CASE i = n + 1
      <4>1. u[i] = Cat(w[n], writebuf(fields[i])) /\ u[i - 1] = w[n]
        BY <3>3
      <4> HIDE DEF u
      <4>. QED  BY <3>3, <4>1
    <3>. QED  BY <3>1, <3>2, <3>3
  <2>3. u = [i \in 0 .. (n + 1) |-> u[i]]
    OBVIOUS
  <2> HIDE DEF u
  <2>4. Packed(fields, n + 1, u)
    BY <2>2, <2>3 DEF Packed
  <2>. QED  BY <2>4
<1>3. \A k \in Nat : k \in S
  <2> HIDE DEF S
  <2>. QED  BY <1>1, <1>2, Induction
<1>. QED  BY <1>3

LEMMA PackIs ==
    ASSUME NEW fields, Len(fields) \in Nat
    PROVE  \E w : Packed(fields, Len(fields), w) /\ pack(fields) = w[Len(fields)]
<1> DEFINE T(w) == w = [i \in 0 .. Len(fields) |-> IF i = 0 THEN <<>> ELSE w[i - 1] \o writebuf(fields[i])]
           u == CHOOSE w : T(w)
<1>1. \E w : T(w)
  <2>1. PICK w : Packed(fields, Len(fields), w)
    BY PackedExists
  <2>. QED  BY <2>1 DEF Packed, Cat, Blank
<1>2. T(u)
  <2> HIDE DEF T
  <2>. QED  BY <1>1
<1>3. pack(fields) = u[Len(fields)]
  BY DEF pack
<1> HIDE DEF u
<1>4. Packed(fields, Len(fields), u)
  BY <1>2 DEF Packed, Cat, Blank
<1>. QED  BY <1>3, <1>4

\* What is packed is a sequence of cells, and each prefix of it is where its
\* field ends.
LEMMA PackedCells ==
    ASSUME NEW fields, NEW n \in Nat, Len(fields) = n, FieldsOK(fields), NEW w, Packed(fields, n, w)
    PROVE  /\ w[0] = <<>>
           /\ \A i \in 0 .. n : w[i] \in Seq(Int)
           /\ \A i \in 1 .. n : w[i] = w[i - 1] \o writebuf(fields[i])
           /\ \A i \in 1 .. n : Len(w[i]) = Len(w[i - 1]) + Len(writebuf(fields[i]))
<1>1. w[0] = <<>> /\ \A i \in 1 .. n : w[i] = w[i - 1] \o writebuf(fields[i])
  <2>1. w[0] = Blank /\ \A i \in 1 .. n : w[i] = Cat(w[i - 1], writebuf(fields[i]))
    BY DEF Packed
  <2>. QED  BY <2>1, Zenon DEF Cat, Blank
<1>2. \A i \in 1 .. n : writebuf(fields[i]) \in Seq(Int)
  BY Written DEF FieldsOK
<1> DEFINE S == {i \in Nat : i <= n => w[i] \in Seq(Int)}
<1>3. 0 \in S
  <2>1. <<>> \in Seq(Int)
    OBVIOUS
  <2>2. w[0] \in Seq(Int)
    BY <1>1, <2>1, Zenon
  <2>. QED  BY <2>2
<1>4. ASSUME NEW i \in Nat, i \in S PROVE i + 1 \in S
  <2> SUFFICES ASSUME i + 1 <= n PROVE w[i + 1] \in Seq(Int)
    OBVIOUS
  <2>1. i + 1 \in 1 .. n /\ (i + 1) - 1 = i /\ w[i] \in Seq(Int)
    BY <1>4
  <2>2. w[i + 1] = w[i] \o writebuf(fields[i + 1]) /\ writebuf(fields[i + 1]) \in Seq(Int)
    BY <1>1, <1>2, <2>1
  <2>. QED  BY <2>1, <2>2
<1>5. \A k \in Nat : k \in S
  <2> HIDE DEF S
  <2>. QED  BY <1>3, <1>4, Induction
<1>6. \A i \in 0 .. n : w[i] \in Seq(Int)
  BY <1>5
<1>7. ASSUME NEW i \in 1 .. n PROVE Len(w[i]) = Len(w[i - 1]) + Len(writebuf(fields[i]))
  <2>1. w[i - 1] \in Seq(Int) /\ writebuf(fields[i]) \in Seq(Int) /\ w[i] = w[i - 1] \o writebuf(fields[i])
    BY <1>1, <1>2, <1>6
  <2>. QED  BY <2>1
<1>. QED  BY <1>1, <1>6, <1>7

\* Sequence a is a beginning of b.
Begins(a, b) == Len(a) <= Len(b) /\ \A k \in 1 .. Len(a) : b[k] = a[k]

LEMMA PackedBegins ==
    ASSUME NEW fields, NEW n \in Nat, Len(fields) = n, FieldsOK(fields), NEW w, Packed(fields, n, w)
    PROVE  \A i \in 0 .. n : Begins(w[i], w[n])
<1>1. /\ \A i \in 0 .. n : w[i] \in Seq(Int)
      /\ \A i \in 1 .. n : w[i] = w[i - 1] \o writebuf(fields[i])
  BY PackedCells
<1>2. \A i \in 1 .. n : writebuf(fields[i]) \in Seq(Int)
  BY Written DEF FieldsOK
<1> DEFINE S == {j \in Nat : j <= n => \A i \in 0 .. j : Begins(w[i], w[j])}
<1>3. 0 \in S
  <2>1. w[0] \in Seq(Int)
    BY <1>1
  <2>2. Begins(w[0], w[0])
    BY <2>1 DEF Begins
  <2>. QED  BY <2>2
<1>4. ASSUME NEW j \in Nat, j \in S PROVE j + 1 \in S
  <2> SUFFICES ASSUME j + 1 <= n, NEW i \in 0 .. (j + 1) PROVE Begins(w[i], w[j + 1])
    OBVIOUS
  <2>1. PICK a \in Seq(Int), b \in Seq(Int), c \in Seq(Int), d \in Seq(Int) :
            a = w[i] /\ b = w[j] /\ c = writebuf(fields[j + 1]) /\ d = w[j + 1]
    BY <1>1, <1>2
  <2>2. d = Cat(b, c)
    <3>1. j + 1 \in 1 .. n /\ (j + 1) - 1 = j
      OBVIOUS
    <3>2. w[j + 1] = w[j] \o writebuf(fields[j + 1])
      BY <1>1, <3>1
    <3>. QED  BY <2>1, <3>2, Zenon DEF Cat
  <2>3. CASE i = j + 1
    BY <2>1, <2>3 DEF Begins
  <2>4. CASE i \in 0 .. j
    <3>1. Begins(a, b)
      BY <1>4, <2>1, <2>4
    <3>2. Len(a) <= Len(b) /\ \A k \in 1 .. Len(a) : b[k] = a[k]
      BY <3>1 DEF Begins
    <3>3. Len(d) = Len(b) + Len(c) /\ \A k \in 1 .. Len(b) : d[k] = b[k]
      <4>1. IsCat(d, b, c)
        BY <2>2, Joined
      <4>. QED  BY <4>1 DEF IsCat
    <3>4. Begins(a, d)
      <4>1. Len(a) \in Nat /\ Len(b) \in Nat /\ Len(c) \in Nat
        OBVIOUS
      <4>. QED  BY <3>2, <3>3, <4>1 DEF Begins
    <3>. QED  BY <2>1, <3>4
  <2>. QED  BY <2>3, <2>4
<1>5. \A k \in Nat : k \in S
  <2> HIDE DEF S
  <2>. QED  BY <1>3, <1>4, Induction
<1>. QED  BY <1>5

\* The cells of b lie in buf behind the first `at'.
Holds(buf, at, b) == at + Len(b) <= Len(buf) /\ \A k \in 1 .. Len(b) : buf[at + k] = b[k]

\* The cells of field i in the whole.
LEMMA FieldAt ==
    ASSUME NEW fields, NEW n \in Nat, Len(fields) = n, FieldsOK(fields), NEW w, Packed(fields, n, w),
           NEW i \in 1 .. n, NEW at, at = Len(w[i - 1]), NEW b, b = writebuf(fields[i])
    PROVE  at \in Nat /\ b \in Seq(Int) /\ Holds(w[n], at, b)
<1>1. /\ \A k \in 0 .. n : w[k] \in Seq(Int)
      /\ \A k \in 1 .. n : w[k] = w[k - 1] \o writebuf(fields[k])
  BY PackedCells
<1>2. PICK a \in Seq(Int), c \in Seq(Int), d \in Seq(Int) : a = w[i - 1] /\ c = w[i] /\ d = w[n]
  BY <1>1
<1>3. b \in Seq(Int)
  BY Written DEF FieldsOK
<1>4. c = Cat(a, b)
  <2>1. w[i] = w[i - 1] \o writebuf(fields[i])
    BY <1>1
  <2>. QED  BY <1>2, <2>1, Zenon DEF Cat
<1>5. Begins(c, d)
  BY <1>2, PackedBegins
<1>6. Len(c) <= Len(d) /\ \A k \in 1 .. Len(c) : d[k] = c[k]
  BY <1>5 DEF Begins
<1>7. Len(c) = Len(a) + Len(b) /\ \A k \in 1 .. Len(b) : c[Len(a) + k] = b[k]
  <2>1. IsCat(c, a, b)
    BY <1>3, <1>4, Joined
  <2>. QED  BY <2>1 DEF IsCat
<1>8. at = Len(a) /\ Len(a) \in Nat
  BY <1>2
<1>9. \A k \in 1 .. Len(b) : Len(a) + k \in 1 .. Len(c)
  BY <1>3, <1>7, <1>8
<1>10. at + Len(b) <= Len(d) /\ \A k \in 1 .. Len(b) : d[at + k] = b[k]
  BY <1>6, <1>7, <1>8, <1>9
<1>11. Holds(d, at, b)
  BY <1>10 DEF Holds
<1>. QED  BY <1>2, <1>3, <1>8, <1>11

\* Reading field i where it was written: its size, and its value.
LEMMA ReadBack ==
    ASSUME NEW f, FieldOK(f), NEW b, b = writebuf(f), NEW buf \in Seq(Int), NEW at \in Nat,
           Holds(buf, at, b)
    PROVE  /\ rsize(f.type, buf, at + 1) = Len(b)
           /\ readbuf(f.type, buf, at + 1) = f.value
<1>0. at + Len(b) <= Len(buf) /\ \A k \in 1 .. Len(b) : buf[at + k] = b[k]
  BY DEF Holds
<1>1. CASE f.type \in {Word, Long, Struct}
  <2>1. Len(b) = (IF f.type = Word THEN 1 ELSE IF f.type = Long THEN LongSize ELSE StructSize) /\ b[1] = f.value
    BY <1>1, Written
  <2>2. Len(buf) - (at + 1) + 1 >= Len(b) /\ Len(b) >= 1
    BY <1>0, <2>1 DEF LongSize, StructSize
  <2>3. buf[at + 1] = f.value
    BY <1>0, <2>1, <2>2
  <2>4. CASE f.type = Word
    BY <2>1, <2>2, <2>3, <2>4 DEF rsize, readbuf, Word, Type
  <2>5. CASE f.type = Long
    <3>1. f.type.name = "long" /\ f.type # Word
      BY <2>5 DEF Long, Type, Word
    <3>. QED  BY <2>1, <2>2, <2>3, <2>5, <3>1 DEF rsize, readbuf, LongSize
  <2>6. CASE f.type = Struct
    <3>1. f.type.name = "struct" /\ f.type # Word /\ f.type # Long
      BY <2>6 DEF Long, Type, Word, Struct
    <3>. QED  BY <2>1, <2>2, <2>3, <2>6, <3>1 DEF rsize, readbuf, StructSize
  <2>. QED  BY <1>1, <2>4, <2>5, <2>6
<1>2. CASE f.type = Str /\ f.value \in Seq(Int)
  <2>1. /\ Len(b) = Len(f.value) + 2 /\ b[1] = Len(f.value) + 1
        /\ \A k \in 1 .. Len(f.value) : b[k + 1] = f.value[k]
    BY <1>2, Written
  <2>2. f.type.name = "str"
    BY <1>2 DEF Str, Type
  <2>3. PICK v \in Seq(Int) : v = f.value
    BY <1>2
  <2>4. buf[at + 1] = Len(v) + 1 /\ Len(v) \in Nat
    BY <1>0, <2>1, <2>3
  <2>5. rsize(f.type, buf, at + 1) = Len(b)
    BY <1>0, <2>1, <2>2, <2>3, <2>4 DEF rsize
  <2>6. readbuf(f.type, buf, at + 1) = SubSeq(buf, (at + 1) + 1, (at + 1) + buf[at + 1] - 1)
    BY <2>2 DEF readbuf
  <2>7. (at + 1) + buf[at + 1] - 1 = at + 1 + Len(v) /\ (at + 1) + 1 = at + 2
    BY <2>4
  <2>8. SubSeq(buf, at + 2, at + 1 + Len(v)) = v
    <3>1. PICK r : r = SubSeq(buf, at + 2, at + 1 + Len(v))
      OBVIOUS
    <3>2. r \in Seq(Int) /\ Len(r) = Len(v) /\ \A k \in 1 .. Len(v) : r[k] = buf[at + 1 + k]
      <4>1. PICK m \in Nat : m = at + 1
        OBVIOUS
      <4>2. PICK n \in Nat : n = Len(v)
        BY <2>4
      <4>3. m + n <= Len(buf)
        <5>1. Len(b) = n + 2 /\ Len(buf) \in Nat
          BY <2>1, <2>3, <4>2
        <5>. QED  BY <1>0, <4>1, <5>1
      <4>4. m + 1 = at + 2 /\ m + n = at + 1 + Len(v)
        BY <4>1, <4>2
      <4>5. r = Sub(buf, m, n)
        BY <3>1, <4>4, Zenon DEF Sub
      <4>6. r \in Seq(Int) /\ Len(r) = n /\ \A k \in 1 .. n : r[k] = buf[m + k]
        <5>1. IsSub(r, buf, m, n)
          BY <4>3, <4>5, Slice
        <5>. QED  BY <5>1 DEF IsSub
      <4>. QED  BY <4>1, <4>2, <4>6
    <3>3. ASSUME NEW k \in 1 .. Len(v) PROVE buf[at + 1 + k] = v[k]
      <4>1. k + 1 \in 1 .. Len(b) /\ at + (k + 1) = at + 1 + k
        BY <2>1, <2>3, <2>4
      <4>. QED  BY <1>0, <2>1, <2>3, <4>1
    <3>. QED  BY <3>1, <3>2, <3>3
  <2>. QED  BY <2>3, <2>5, <2>6, <2>7, <2>8
<1>3. CASE \E n \in Nat : f.type = Buf(n) /\ f.value \in Seq(Int) /\ Len(f.value) = n
  <2>0. PICK n \in Nat : f.type = Buf(n) /\ f.value \in Seq(Int) /\ Len(f.value) = n
    BY <1>3
  <2>1. Len(b) = n + 1 /\ b[1] = n /\ \A k \in 1 .. n : b[k + 1] = f.value[k]
    BY <2>0, Written
  <2>2. f.type.name = "buf" /\ f.type.n = n
    BY <2>0 DEF Buf, Type
  <2>3. PICK v \in Seq(Int) : v = f.value /\ Len(v) = n
    BY <2>0
  <2>4. buf[at + 1] = n
    BY <1>0, <2>1
  <2>5. rsize(f.type, buf, at + 1) = Len(b)
    BY <1>0, <2>1, <2>2, <2>4 DEF rsize
  <2>6. readbuf(f.type, buf, at + 1) = SubSeq(buf, (at + 1) + 1, (at + 1) + n)
    BY <2>2 DEF readbuf
  <2>7. (at + 1) + n = at + 1 + n /\ (at + 1) + 1 = at + 2
    OBVIOUS
  <2>8. SubSeq(buf, at + 2, at + 1 + n) = v
    <3>1. PICK r : r = SubSeq(buf, at + 2, at + 1 + n)
      OBVIOUS
    <3>2. r \in Seq(Int) /\ Len(r) = Len(v) /\ \A k \in 1 .. Len(v) : r[k] = buf[at + 1 + k]
      <4>1. PICK m \in Nat : m = at + 1
        OBVIOUS
      <4>2. m + n <= Len(buf) /\ r = Sub(buf, m, n)
        <5>1. m + n <= Len(buf)
          BY <1>0, <2>1, <4>1
        <5>2. m + 1 = at + 2 /\ m + n = at + 1 + n
          BY <4>1
        <5>. QED  BY <3>1, <5>1, <5>2, Zenon DEF Sub
      <4>3. r \in Seq(Int) /\ Len(r) = n /\ \A k \in 1 .. n : r[k] = buf[m + k]
        <5>1. IsSub(r, buf, m, n)
          BY <4>2, Slice
        <5>. QED  BY <5>1 DEF IsSub
      <4>. QED  BY <2>3, <4>1, <4>3
    <3>3. ASSUME NEW k \in 1 .. Len(v) PROVE buf[at + 1 + k] = v[k]
      <4>1. k + 1 \in 1 .. Len(b) /\ at + (k + 1) = at + 1 + k
        BY <2>1, <2>3
      <4>. QED  BY <1>0, <2>1, <2>3, <4>1
    <3>. QED  BY <3>1, <3>2, <3>3
  <2>. QED  BY <2>3, <2>5, <2>6, <2>7, <2>8
<1>. QED  BY <1>1, <1>2, <1>3 DEF FieldOK

\* What sizes computes, step by step.
NextSize(type, buf, before) ==
    IF before < 0 THEN -1
    ELSE LET v == rsize(type, buf, before + 1) IN
         IF v < 0 THEN -1 ELSE before + v
Sized(types, buf, n, z) ==
    z[0] = 0 /\ \A i \in 1 .. n : z[i] = NextSize(types[i], buf, z[i - 1])

LEMMA SizesAre ==
    ASSUME NEW types, NEW buf, NEW n \in Nat, Len(types) = n, NEW z, z = [i \in 0 .. n |-> z[i]],
           Sized(types, buf, n, z)
    PROVE  Sized(types, buf, n, sizes(types, buf))
<1> DEFINE T(y) == y = [i \in 0 .. Len(types) |->
                        IF i = 0 THEN 0
                        ELSE IF y[i - 1] < 0 THEN -1
                        ELSE LET v == rsize(types[i], buf, y[i - 1] + 1) IN
                             IF v < 0 THEN -1 ELSE y[i - 1] + v]
           u == CHOOSE y : T(y)
<1>1. T(z)
  <2>1. ASSUME NEW i \in 0 .. n
        PROVE  z[i] = IF i = 0 THEN 0 ELSE NextSize(types[i], buf, z[i - 1])
    BY DEF Sized
  <2>2. z = [i \in 0 .. Len(types) |-> IF i = 0 THEN 0 ELSE NextSize(types[i], buf, z[i - 1])]
    BY <2>1
  <2>. QED  BY <2>2, Zenon DEF NextSize
<1>2. T(u)
  <2> HIDE DEF T
  <2>. QED  BY <1>1
<1>3. sizes(types, buf) = u
  BY DEF sizes
<1> HIDE DEF u
<1>4. Sized(types, buf, n, u)
  <2>1. u = [i \in 0 .. Len(types) |-> IF i = 0 THEN 0 ELSE NextSize(types[i], buf, u[i - 1])]
    BY <1>2, Zenon DEF NextSize
  <2>. QED  BY <2>1 DEF Sized
<1>. QED  BY <1>3, <1>4

\* What was packed is read back: its size, and every value.
RoundTrips(fields) ==
    /\ check_completed(TypesOf(fields), pack(fields))
    /\ get_size(TypesOf(fields), pack(fields)) = Len(pack(fields))
    /\ unpack(TypesOf(fields), pack(fields)) = ValuesOf(fields)
    /\ pack(fields) \in Seq(Int)

\* tinyunpack gives back what tinypack was given, for every list of integers, structs,
\* strings and buffers: check_completed() is true, get_size() is the length of the
\* buffer and unpack() gives the values.
THEOREM RoundTrip ==
    ASSUME NEW fields, NEW n \in Nat, Len(fields) = n, FieldsOK(fields)
    PROVE  RoundTrips(fields)
<1>1. PICK w : Packed(fields, n, w) /\ pack(fields) = w[n]
  BY PackIs
<1>2. PICK types : types = TypesOf(fields)
  OBVIOUS
<1>3. Len(types) = n /\ \A i \in 1 .. n : types[i] = fields[i].type
  BY <1>2 DEF TypesOf
<1>4. /\ w[0] = <<>> /\ \A i \in 0 .. n : w[i] \in Seq(Int)
      /\ \A i \in 1 .. n : Len(w[i]) = Len(w[i - 1]) + Len(writebuf(fields[i]))
  BY <1>1, PackedCells
<1>5. PICK buf \in Seq(Int) : buf = w[n]
  BY <1>4
<1>6. ASSUME NEW i \in 1 .. n
      PROVE  /\ rsize(types[i], buf, Len(w[i - 1]) + 1) = Len(w[i]) - Len(w[i - 1])
             /\ readbuf(types[i], buf, Len(w[i - 1]) + 1) = fields[i].value
             /\ Len(w[i]) >= Len(w[i - 1])
  <2>1. PICK at, b : at = Len(w[i - 1]) /\ b = writebuf(fields[i])
    OBVIOUS
  <2>2. at \in Nat /\ b \in Seq(Int) /\ Holds(buf, at, b)
    BY <1>1, <1>5, <2>1, FieldAt
  <2>3. FieldOK(fields[i])
    BY DEF FieldsOK
  <2>4. rsize(fields[i].type, buf, at + 1) = Len(b) /\ readbuf(fields[i].type, buf, at + 1) = fields[i].value
    BY <2>1, <2>2, <2>3, ReadBack
  <2>5. Len(w[i]) = at + Len(b) /\ Len(b) \in Nat
    <3>1. Len(w[i]) = Len(w[i - 1]) + Len(writebuf(fields[i]))
      BY <1>4
    <3>2. Len(b) \in Nat
      BY <2>2
    <3>. QED  BY <2>1, <3>1, <3>2, Zenon
  <2>. QED  BY <1>3, <2>1, <2>2, <2>4, <2>5
<1> DEFINE z == [i \in 0 .. n |-> Len(w[i])]
<1>7. \A i \in 0 .. n : z[i] = Len(w[i]) /\ z[i] \in Nat
  BY <1>4
<1>8. z = [i \in 0 .. n |-> z[i]]
  OBVIOUS
<1> HIDE DEF z
<1>9. Sized(types, buf, n, z)
  <2>1. z[0] = 0
    BY <1>4, <1>7
  <2>2. ASSUME NEW i \in 1 .. n PROVE z[i] = NextSize(types[i], buf, z[i - 1])
    <3>1. z[i] = Len(w[i]) /\ z[i - 1] = Len(w[i - 1]) /\ z[i] \in Nat /\ z[i - 1] \in Nat
      BY <1>7
    <3>2. rsize(types[i], buf, z[i - 1] + 1) = z[i] - z[i - 1] /\ z[i] >= z[i - 1]
      BY <3>1, <1>6
    <3>3. PICK a \in Nat, b \in Nat : a = z[i - 1] /\ b = z[i]
      BY <3>1
    <3>31. PICK v : v = rsize(types[i], buf, a + 1)
      OBVIOUS
    <3>4. v = b - a /\ b >= a
      BY <3>2, <3>3, <3>31
    <3>5. NextSize(types[i], buf, a) = IF a < 0 THEN -1 ELSE IF v < 0 THEN -1 ELSE a + v
      BY <3>31, Zenon DEF NextSize
    <3>6. NextSize(types[i], buf, a) = b
      BY <3>4, <3>5
    <3>. QED  BY <3>3, <3>6
  <2>. QED  BY <2>1, <2>2 DEF Sized
<1>10. PICK s : s = sizes(types, buf)
  OBVIOUS
<1>11. Sized(types, buf, n, s)
  BY <1>3, <1>8, <1>9, <1>10, SizesAre
<1>12. \A i \in 0 .. n : s[i] = Len(w[i])
  <2> DEFINE S == {i \in Nat : i <= n => s[i] = z[i]}
  <2>1. 0 \in S
    BY <1>9, <1>11 DEF Sized
  <2>2. ASSUME NEW i \in Nat, i \in S PROVE i + 1 \in S
    <3> SUFFICES ASSUME i + 1 <= n PROVE s[i + 1] = z[i + 1]
      OBVIOUS
    <3>1. i + 1 \in 1 .. n /\ (i + 1) - 1 = i /\ s[i] = z[i]
      BY <2>2
    <3>. QED  BY <3>1, <1>9, <1>11 DEF Sized
  <2>3. \A k \in Nat : k \in S
    <3> HIDE DEF S
    <3>. QED  BY <2>1, <2>2, Induction
  <2>. QED  BY <1>7, <2>3
<1>13. get_size(types, buf) = Len(buf) /\ check_completed(types, buf)
  <2>1. get_size(types, buf) = s[n]
    BY <1>3, <1>10 DEF get_size
  <2>2. s[n] = Len(buf) /\ Len(buf) \in Nat
    BY <1>5, <1>12
  <2>. QED  BY <2>1, <2>2 DEF check_completed
<1>14. unpack(types, buf) = ValuesOf(fields)
  <2>1. unpack(types, buf) = [i \in 1 .. n |-> readbuf(types[i], buf, s[i - 1] + 1)]
    BY <1>3, <1>10 DEF unpack
  <2>2. ValuesOf(fields) = [i \in 1 .. n |-> fields[i].value]
    BY DEF ValuesOf
  <2>3. ASSUME NEW i \in 1 .. n PROVE readbuf(types[i], buf, s[i - 1] + 1) = fields[i].value
    <3>1. i - 1 \in 0 .. n
      OBVIOUS
    <3>2. s[i - 1] = Len(w[i - 1])
      BY <1>12, <3>1
    <3>. QED  BY <1>6, <3>2
  <2>. QED  BY <2>1, <2>2, <2>3
<1>. QED  BY <1>1, <1>2, <1>5, <1>13, <1>14 DEF RoundTrips

\* The first field lies in front of the others.
LEMMA PackFirst ==
    ASSUME NEW f, FieldOK(f), NEW rest, NEW n \in Nat, Len(rest) = n, FieldsOK(rest),
           NEW fields, Len(fields) = n + 1, fields[1] = f, \A i \in 1 .. n : fields[i + 1] = rest[i]
    PROVE  IsCat(pack(fields), writebuf(f), pack(rest))
<1>1. PICK w : Packed(rest, n, w) /\ pack(rest) = w[n]
  BY PackIs
<1>2. PICK v : Packed(fields, n + 1, v) /\ pack(fields) = v[n + 1]
  BY PackIs
<1>3. FieldsOK(fields)
  <2> SUFFICES ASSUME NEW i \in 1 .. (n + 1) PROVE FieldOK(fields[i])
    BY DEF FieldsOK
  <2>1. CASE i = 1
    BY <2>1
  <2>2. CASE i # 1
    <3>1. i - 1 \in 1 .. n /\ (i - 1) + 1 = i
      BY <2>2
    <3>2. fields[i] = rest[i - 1] /\ FieldOK(rest[i - 1])
      BY <3>1 DEF FieldsOK
    <3>. QED  BY <3>2
  <2>. QED  BY <2>1, <2>2
<1>4. PICK b \in Seq(Int) : b = writebuf(f)
  BY Written
<1>5. \A i \in 0 .. n : w[i] \in Seq(Int)
  BY <1>1, PackedCells
<1>6. w[0] = Blank /\ \A i \in 1 .. n : w[i] = Cat(w[i - 1], writebuf(rest[i]))
  BY <1>1 DEF Packed
<1>7. v[0] = Blank /\ \A i \in 1 .. (n + 1) : v[i] = Cat(v[i - 1], writebuf(fields[i]))
  BY <1>2 DEF Packed
<1>8. \A c \in Seq(Int) : Cat(c, Blank) = c /\ Cat(Blank, c) = c
  BY ConcatEmptySeq DEF Cat, Blank
<1>9. \A c, d, e \in Seq(Int) : Cat(Cat(c, d), e) = Cat(c, Cat(d, e))
  BY CatAssoc
<1> DEFINE S == {i \in Nat : i <= n => v[i + 1] = Cat(b, w[i])}
<1>10. 0 \in S
  <2>1. v[1] = Cat(v[0], writebuf(fields[1]))
    BY <1>7
  <2>. QED  BY <1>4, <1>6, <1>7, <1>8, <2>1
<1>11. ASSUME NEW i \in Nat, i \in S PROVE i + 1 \in S
  <2> SUFFICES ASSUME i + 1 <= n PROVE v[(i + 1) + 1] = Cat(b, w[i + 1])
    OBVIOUS
  <2>1. i + 1 \in 1 .. n /\ (i + 1) - 1 = i /\ (i + 1) + 1 \in 1 .. (n + 1) /\ ((i + 1) + 1) - 1 = i + 1
    OBVIOUS
  <2>2. v[i + 1] = Cat(b, w[i])
    BY <1>11, <2>1
  <2>3. w[i + 1] = Cat(w[i], writebuf(rest[i + 1])) /\ w[i] \in Seq(Int)
    BY <1>5, <1>6, <2>1
  <2>4. v[(i + 1) + 1] = Cat(v[i + 1], writebuf(rest[i + 1]))
    BY <1>7, <2>1
  <2>5. writebuf(rest[i + 1]) \in Seq(Int)
    BY <2>1, Written DEF FieldsOK
  <2>. QED  BY <1>9, <2>2, <2>3, <2>4, <2>5
<1>12. \A k \in Nat : k \in S
  <2> HIDE DEF S
  <2>. QED  BY <1>10, <1>11, Induction
<1>13. v[n + 1] = Cat(b, w[n]) /\ w[n] \in Seq(Int)
  BY <1>5, <1>12
<1>. QED  BY <1>1, <1>2, <1>4, <1>13, Joined

\* A sequence is known by its parts.
LEMMA CatSame ==
    ASSUME NEW a, NEW b, Len(a) \in Nat, Len(b) \in Nat, NEW d, NEW e, IsCat(d, a, b), IsCat(e, a, b)
    PROVE  d = e
<1>1. d \in Seq(Int) /\ e \in Seq(Int) /\ Len(d) = Len(e)
  BY DEF IsCat
<1>2. ASSUME NEW k \in 1 .. Len(d) PROVE d[k] = e[k]
  <2>1. CASE k \in 1 .. Len(a)
    BY <2>1 DEF IsCat
  <2>2. CASE k \notin 1 .. Len(a)
    <3>1. PICK j \in 1 .. Len(b) : k = Len(a) + j
      <4>1. k - Len(a) \in 1 .. Len(b) /\ k = Len(a) + (k - Len(a))
        BY <2>2 DEF IsCat
      <4>. QED  BY <4>1
    <3>. QED  BY <3>1 DEF IsCat
  <2>. QED  BY <2>1, <2>2
<1>. QED  BY <1>1, <1>2

CellsOf(fields, i) == Len(writebuf(fields[i]))

LEMMA PackLength ==
    ASSUME NEW fields, FieldsOK(fields), NEW n \in 1 .. 4, Len(fields) = n
    PROVE  /\ n = 1 => Len(pack(fields)) = CellsOf(fields, 1)
           /\ n = 2 => Len(pack(fields)) = CellsOf(fields, 1) + CellsOf(fields, 2)
           /\ n = 4 => Len(pack(fields)) = CellsOf(fields, 1) + CellsOf(fields, 2)
                                            + CellsOf(fields, 3) + CellsOf(fields, 4)
<1>1. n \in Nat
  OBVIOUS
<1>2. PICK w : Packed(fields, n, w) /\ pack(fields) = w[n]
  BY <1>1, PackIs
<1>3. /\ w[0] = <<>>
      /\ \A i \in 1 .. n : Len(w[i]) = Len(w[i - 1]) + Len(writebuf(fields[i]))
  BY <1>1, <1>2, PackedCells
<1>4. Len(w[0]) = 0
  BY <1>3
<1>5. \A i \in 1 .. n : CellsOf(fields, i) \in Nat
  <2>1. \A i \in 1 .. n : writebuf(fields[i]) \in Seq(Int)
    BY <1>1, Written DEF FieldsOK
  <2>. QED  BY <2>1 DEF CellsOf
<1>6. \A i, k \in 0 .. 4 : k <= n /\ k = i + 1 => Len(w[k]) = Len(w[i]) + CellsOf(fields, k)
  <2> SUFFICES ASSUME NEW i \in 0 .. 4, NEW k \in 0 .. 4, k <= n, k = i + 1
               PROVE  Len(w[k]) = Len(w[i]) + CellsOf(fields, k)
    OBVIOUS
  <2>1. k \in 1 .. n /\ k - 1 = i
    OBVIOUS
  <2>. QED  BY <1>3, <2>1 DEF CellsOf
<1>7. Len(w[1]) = CellsOf(fields, 1)
  <2>1. Len(w[1]) = Len(w[0]) + CellsOf(fields, 1) /\ CellsOf(fields, 1) \in Nat
    BY <1>5, <1>6
  <2>. QED  BY <1>4, <2>1
<1>8. n >= 2 => Len(w[2]) = Len(w[1]) + CellsOf(fields, 2)
  BY <1>6
<1>9. n >= 3 => Len(w[3]) = Len(w[2]) + CellsOf(fields, 3)
  BY <1>6
<1>10. n >= 4 => Len(w[4]) = Len(w[3]) + CellsOf(fields, 4)
  BY <1>6
<1>11. CASE n = 1
  BY <1>2, <1>7, <1>11
<1>12. CASE n = 2
  BY <1>2, <1>7, <1>8, <1>12
<1>13. CASE n = 4
  BY <1>2, <1>7, <1>8, <1>9, <1>10, <1>13
<1>14. CASE n = 3
  BY <1>14
<1>. QED  BY <1>11, <1>12, <1>13, <1>14

\* pack_size_prefix puts the length in front.
LEMMA SizePrefix ==
    ASSUME NEW fields, FieldsOK(fields), Len(fields) \in Nat, NEW data, data = pack_size_prefix(fields)
    PROVE  /\ IsCat(data, <<Len(pack(fields))>>, pack(fields))
           /\ pack(fields) \in Seq(Int) /\ Len(data) = Len(pack(fields)) + 1
           /\ data[1] = Len(pack(fields)) /\ data[1] + 1 = Len(data)
           /\ \A k \in 1 .. Len(pack(fields)) : data[k + 1] = pack(fields)[k]
<1>1. PICK buf : buf = pack(fields)
  OBVIOUS
<1>2. buf \in Seq(Int)
  BY <1>1, RoundTrip DEF RoundTrips
<1>3. PICK one \in Seq(Int) : one = <<Len(buf)>>
  <2>1. Len(buf) \in Int
    BY <1>2
  <2>2. <<Len(buf)>> \in Seq(Int)
    BY <2>1
  <2>. QED  BY <2>2
<1>4. data = Cat(one, buf)
  BY <1>1, <1>3, Zenon DEF pack_size_prefix, Cat
<1>5. IsCat(data, one, buf)
  BY <1>2, <1>4, Joined
<1>6. Len(one) = 1 /\ one[1] = Len(buf) /\ Len(buf) \in Nat
  BY <1>2, <1>3
<1>7. Len(data) = Len(buf) + 1 /\ data[1] = Len(buf) /\ \A k \in 1 .. Len(buf) : data[1 + k] = buf[k]
  BY <1>5, <1>6 DEF IsCat
<1>8. \A k \in 1 .. Len(buf) : k + 1 = 1 + k
  BY <1>6
<1>. QED  BY <1>1, <1>2, <1>3, <1>5, <1>6, <1>7, <1>8

\* What a call reads of an answer.
ReadsAnswer(fields, types, data) ==
    /\ Len(data) = Len(pack(fields)) + 1 /\ data[1] + 1 = Len(data)
    /\ check_completed(types, data) /\ get_size(types, data) = Len(data)
    /\ \A i \in 1 .. Len(fields) : unpack(types, data)[i + 1] = fields[i].value
    /\ fields[1].type = Word => data[2] = fields[1].value

\* The types of an answer with its size in front.
AnswerTypes(fields, n, types) ==
    /\ types = [i \in 1 .. (n + 1) |-> types[i]] /\ types[1] = Word
    /\ \A i \in 1 .. n : types[i + 1] = fields[i].type

LEMMA AnswerRead ==
    ASSUME NEW fields, NEW n \in Nat \ {0}, Len(fields) = n, FieldsOK(fields),
           NEW types, AnswerTypes(fields, n, types)
    PROVE  ReadsAnswer(fields, types, pack_size_prefix(fields))
<1>0. /\ types = [i \in 1 .. (n + 1) |-> types[i]] /\ types[1] = Word
      /\ \A i \in 1 .. n : types[i + 1] = fields[i].type
  BY DEF AnswerTypes
<1>1. PICK data, buf : data = pack_size_prefix(fields) /\ buf = pack(fields)
  OBVIOUS
<1>2. /\ IsCat(data, <<Len(buf)>>, buf) /\ buf \in Seq(Int) /\ Len(data) = Len(buf) + 1
      /\ data[1] + 1 = Len(data)
  BY <1>1, SizePrefix
<1>3. PICK f : f = Field(Word, Len(buf))
  OBVIOUS
<1>4. f.type = Word /\ f.value = Len(buf) /\ Len(buf) \in Int /\ FieldOK(f)
  BY <1>2, <1>3 DEF Field, FieldOK
<1>5. writebuf(f) = <<Len(buf)>>
  <2>1. f.type.name = "int"
    BY <1>4 DEF Word, Type
  <2>. QED  BY <1>4, <2>1 DEF writebuf
<1> DEFINE all == [i \in 1 .. (n + 1) |-> IF i = 1 THEN f ELSE fields[i - 1]]
<1>6. Len(all) = n + 1 /\ all[1] = f
  OBVIOUS
<1>7. ASSUME NEW i \in 1 .. n PROVE all[i + 1] = fields[i]
  OBVIOUS
<1> HIDE DEF all
<1>8. IsCat(pack(all), writebuf(f), buf)
  BY <1>1, <1>4, <1>6, <1>7, PackFirst
<1>9. data = pack(all)
  <2>1. PICK one : one = <<Len(buf)>>
    OBVIOUS
  <2>2. Len(one) \in Nat /\ Len(buf) \in Nat
    BY <1>2, <2>1
  <2>3. IsCat(data, one, buf) /\ IsCat(pack(all), one, buf)
    BY <1>2, <1>5, <1>8, <2>1
  <2>. QED  BY <2>2, <2>3, CatSame
<1>10. FieldsOK(all)
  <2> SUFFICES ASSUME NEW i \in 1 .. (n + 1) PROVE FieldOK(all[i])
    BY <1>6 DEF FieldsOK
  <2>1. CASE i = 1
    BY <1>4, <1>6, <2>1
  <2>2. CASE i # 1
    <3>1. i - 1 \in 1 .. n /\ (i - 1) + 1 = i
      BY <2>2
    <3>2. all[i] = fields[i - 1] /\ FieldOK(fields[i - 1])
      BY <1>7, <3>1 DEF FieldsOK
    <3>. QED  BY <3>2
  <2>. QED  BY <2>1, <2>2
<1>11. TypesOf(all) = types
  <2>1. ASSUME NEW i \in 1 .. (n + 1) PROVE all[i].type = types[i]
    <3>1. CASE i = 1
      BY <1>0, <1>4, <1>6, <3>1
    <3>2. CASE i # 1
      <4>1. i - 1 \in 1 .. n /\ (i - 1) + 1 = i
        BY <3>2
      <4>2. all[i] = fields[i - 1] /\ types[i] = fields[i - 1].type
        BY <1>0, <1>7, <4>1
      <4>. QED  BY <4>2
    <3>. QED  BY <3>1, <3>2
  <2>2. TypesOf(all) = [i \in 1 .. (n + 1) |-> all[i].type]
    BY <1>6, Zenon DEF TypesOf
  <2>. QED  BY <1>0, <2>1, <2>2
<1>12. RoundTrips(all)
  BY <1>6, <1>10, RoundTrip
<1>13. /\ check_completed(types, data) /\ get_size(types, data) = Len(data)
       /\ unpack(types, data) = ValuesOf(all)
  BY <1>9, <1>11, <1>12 DEF RoundTrips
<1>14. ASSUME NEW i \in 1 .. n PROVE unpack(types, data)[i + 1] = fields[i].value
  <2>1. ValuesOf(all)[i + 1] = all[i + 1].value
    BY <1>6 DEF ValuesOf
  <2>. QED  BY <1>7, <1>13, <2>1
<1>15. ASSUME fields[1].type = Word PROVE data[2] = fields[1].value
  <2>1. PICK w : Packed(fields, n, w) /\ pack(fields) = w[n]
    BY PackIs
  <2>2. w[0] = <<>>
    BY <2>1, PackedCells
  <2>3. PICK b : b = writebuf(fields[1])
    OBVIOUS
  <2>4. PICK at : at = Len(w[0])
    OBVIOUS
  <2>5. at = 0 /\ 1 \in 1 .. n /\ 1 - 1 = 0
    BY <2>2, <2>4
  <2>6. Holds(w[n], at, b)
    BY <2>1, <2>3, <2>4, <2>5, FieldAt
  <2>7. FieldOK(fields[1])
    BY <2>5 DEF FieldsOK
  <2>8. Len(b) = 1 /\ b[1] = fields[1].value
    BY <1>15, <2>3, <2>7, Written
  <2>9. buf[1] = fields[1].value /\ Len(buf) >= 1
    <3>1. 0 + Len(b) <= Len(buf) /\ \A k \in 1 .. Len(b) : buf[0 + k] = b[k]
      BY <1>1, <2>1, <2>5, <2>6 DEF Holds
    <3>. QED  BY <2>8, <3>1
  <2>10. \A k \in 1 .. Len(buf) : data[k + 1] = buf[k]
    BY <1>1, SizePrefix
  <2>11. 1 \in 1 .. Len(buf) /\ 1 + 1 = 2
    BY <1>2, <2>9
  <2>. QED  BY <2>9, <2>10, <2>11
<1>. QED  BY <1>1, <1>2, <1>13, <1>14, <1>15 DEF ReadsAnswer

-----------------------------------------------------------------------------
(* Requests.                                                               *)

AnsweredOps == {"openat", "access", "fstat", "stat", "lstat", "unlink", "readlink"}
OpenCall == Call("open", 1, -1, 0)

LEMMA CallKinds ==
    ASSUME NEW c \in Calls
    PROVE  /\ c.op \in AnsweredOps \cup {"open"} /\ c.path \in PathIds /\ c.fd \in Fds \cup {-1}
           /\ c.bufsize \in Nat
           /\ c.op \notin {"openat", "fstat"} => c.fd = -1
           /\ c.op = "open" => c = OpenCall
<1>1. CASE c \in {Call(op, i, -1, 0) : op \in {"access", "stat", "lstat", "unlink"}, i \in PathIds}
  BY <1>1 DEF Call, AnsweredOps
<1>2. CASE c \in {Call("openat", i, fd, 0) : i \in PathIds, fd \in Fds \cup {-1}}
  BY <1>2 DEF Call, AnsweredOps
<1>3. CASE c \in {Call("fstat", 1, fd, 0) : fd \in Fds \cup {-1}}
  BY <1>3, BridgeAssumption DEF Call, AnsweredOps, PathIds
<1>4. CASE c \in {Call("readlink", i, -1, n) : i \in PathIds, n \in BufSizes}
  BY <1>4, BridgeAssumption DEF Call, AnsweredOps
<1>5. CASE c = Call("open", 1, -1, 0)
  BY <1>5, BridgeAssumption DEF Call, AnsweredOps, PathIds, OpenCall
<1>. QED  BY <1>1, <1>2, <1>3, <1>4, <1>5 DEF Calls

\* What the bridge packs for a call behind the command.
Args(c) ==
    LET int(v) == Field(Word, v)
        path == Field(Str, Path(c.path)) IN
    CASE c.op = "open" -> <<path, int(Flags), int(Flags)>>
      [] c.op = "openat" -> <<int(c.fd), path, int(Flags), int(Flags)>>
      [] c.op = "access" -> <<path, int(Flags)>>
      [] c.op = "fstat" -> <<int(c.fd)>>
      [] c.op \in {"stat", "lstat", "unlink"} -> <<path>>
      [] c.op = "readlink" -> <<path, Field(Long, c.bufsize)>>

LEMMA CmdIs ==
    ASSUME NEW c \in Calls
    PROVE  Cmd(c.op) \in 1 .. 11 /\ Cmds[Cmd(c.op)] = c.op
<1>1. Len(Cmds) = 11
  BY DEF Cmds
<1>2. /\ Cmds[2] = "open" /\ Cmds[3] = "openat" /\ Cmds[4] = "access" /\ Cmds[5] = "fstat"
      /\ Cmds[6] = "stat" /\ Cmds[7] = "lstat" /\ Cmds[9] = "readlink" /\ Cmds[10] = "unlink"
  BY DEF Cmds
<1>3. \E i \in 1 .. Len(Cmds) : Cmds[i] = c.op
  <2>1. c.op \in AnsweredOps \cup {"open"}
    BY CallKinds
  <2>. QED  BY <1>1, <1>2, <2>1 DEF AnsweredOps
<1>4. Cmd(c.op) \in 1 .. Len(Cmds) /\ Cmds[Cmd(c.op)] = c.op
  BY <1>3, Zenon DEF Cmd
<1>. QED  BY <1>1, <1>4

\* The fields of a list, one by one.
LEMMA FieldFacts ==
    /\ \A v \in Int : LET f == Field(Word, v) IN
        FieldOK(f) /\ f.type = Word /\ f.value = v /\ Len(writebuf(f)) = 1 /\ writebuf(f)[1] = v
    /\ \A v \in Int : LET f == Field(Long, v) IN
        FieldOK(f) /\ f.type = Long /\ f.value = v /\ Len(writebuf(f)) = 2
    /\ \A v \in Int : LET f == Field(Struct, v) IN
        FieldOK(f) /\ f.type = Struct /\ f.value = v /\ Len(writebuf(f)) = 3
    /\ \A i \in PathIds : LET f == Field(Str, Path(i)) IN
        FieldOK(f) /\ f.type = Str /\ f.value = Path(i) /\ Len(writebuf(f)) = i + 2 /\ Path(i)[1] = i
    /\ \A n \in Nat : \A buf \in Seq(Int) : LET f == Field(Buf(n), buf) IN
        Len(buf) = n => FieldOK(f) /\ f.type = Buf(n) /\ f.value = buf /\ Len(writebuf(f)) = n + 1
<1>1. \A t, v : Field(t, v).type = t /\ Field(t, v).value = v
  BY DEF Field
<1>2. Long # Word /\ Struct # Word /\ Struct # Long
  BY DEF Word, Long, Struct, Type
<1>3. ASSUME NEW v \in Int, NEW f, f = Field(Word, v)
      PROVE  FieldOK(f) /\ f.type = Word /\ f.value = v /\ Len(writebuf(f)) = 1 /\ writebuf(f)[1] = v
  <2>1. f.type = Word /\ f.value = v
    BY <1>1, <1>3
  <2>2. FieldOK(f)
    BY <2>1 DEF FieldOK
  <2>3. Len(writebuf(f)) = 1 /\ writebuf(f)[1] = v
    BY <2>1, <2>2, Written
  <2>. QED  BY <2>1, <2>2, <2>3
<1>4. ASSUME NEW v \in Int, NEW f, f = Field(Long, v)
      PROVE  FieldOK(f) /\ f.type = Long /\ f.value = v /\ Len(writebuf(f)) = 2
  <2>1. f.type = Long /\ f.value = v
    BY <1>1, <1>4
  <2>2. FieldOK(f)
    BY <2>1 DEF FieldOK
  <2>3. Len(writebuf(f)) = 2
    BY <1>2, <2>1, <2>2, Written DEF LongSize
  <2>. QED  BY <2>1, <2>2, <2>3
<1>5. ASSUME NEW v \in Int, NEW f, f = Field(Struct, v)
      PROVE  FieldOK(f) /\ f.type = Struct /\ f.value = v /\ Len(writebuf(f)) = 3
  <2>1. f.type = Struct /\ f.value = v
    BY <1>1, <1>5
  <2>2. FieldOK(f)
    BY <2>1 DEF FieldOK
  <2>3. Len(writebuf(f)) = 3
    BY <1>2, <2>1, <2>2, Written DEF StructSize
  <2>. QED  BY <2>1, <2>2, <2>3
<1>6. ASSUME NEW i \in PathIds, NEW f, f = Field(Str, Path(i))
      PROVE  FieldOK(f) /\ f.type = Str /\ f.value = Path(i) /\ Len(writebuf(f)) = i + 2 /\ Path(i)[1] = i
  <2>1. f.type = Str /\ f.value = Path(i)
    BY <1>1, <1>6
  <2>2. i \in Nat \ {0}
    BY BridgeAssumption DEF PathIds
  <2>3. Path(i) \in Seq(Int) /\ Len(Path(i)) = i /\ Path(i)[1] = i
    BY <2>2 DEF Path
  <2>4. FieldOK(f)
    BY <2>1, <2>3 DEF FieldOK
  <2>5. Len(writebuf(f)) = Len(f.value) + 2
    BY <2>1, <2>4, Written
  <2>. QED  BY <2>1, <2>3, <2>4, <2>5
<1>7. ASSUME NEW n \in Nat, NEW buf \in Seq(Int), Len(buf) = n, NEW f, f = Field(Buf(n), buf)
      PROVE  FieldOK(f) /\ f.type = Buf(n) /\ f.value = buf /\ Len(writebuf(f)) = n + 1
  <2>1. f.type = Buf(n) /\ f.value = buf
    BY <1>1, <1>7
  <2>2. FieldOK(f)
    BY <1>7, <2>1 DEF FieldOK
  <2>3. Len(writebuf(f)) = n + 1
    BY <2>1, <2>2, Written
  <2>. QED  BY <2>1, <2>2, <2>3
<1>. QED  BY <1>3, <1>4, <1>5, <1>6, <1>7

\* The fields behind the command have the types the Command Center reads.
LEMMA ArgsMatch ==
    ASSUME NEW c \in Calls, c.op # "open", NEW a, a = Args(c)
    PROVE  /\ Len(a) \in {1, 2, 4} /\ FieldsOK(a) /\ TypesOf(a) = RequestTypes(c.op)
           /\ Len(pack(a)) \in Nat /\ Len(pack(a)) <= c.path + 5
           /\ c.op \in {"openat", "fstat"} => a[1].value = c.fd
           /\ c.op = "openat" => a[2].value[1] = c.path
           /\ c.op \in {"access", "stat", "lstat", "unlink", "readlink"} => a[1].value[1] = c.path
           /\ c.op = "readlink" => a[2].value = c.bufsize
<1>1. /\ c.op \in AnsweredOps /\ c.path \in PathIds /\ c.fd \in Int /\ c.bufsize \in Nat /\ c.path \in Nat \ {0}
  BY CallKinds, BridgeAssumption DEF Fds, PathIds
<1>2. PICK p : p = Field(Str, Path(c.path))
  OBVIOUS
<1>3. /\ FieldOK(p) /\ p.type = Str /\ p.value[1] = c.path /\ Len(writebuf(p)) = c.path + 2
  BY <1>1, <1>2, FieldFacts
<1>4. PICK g : g = Field(Word, Flags)
  OBVIOUS
<1>5. FieldOK(g) /\ g.type = Word /\ Len(writebuf(g)) = 1
  <2>1. Flags \in Int
    BY DEF Flags
  <2>. QED  BY <1>4, <2>1, FieldFacts
<1>6. CASE c.op = "openat"
  <2>1. PICK d : d = Field(Word, c.fd)
    OBVIOUS
  <2>2. FieldOK(d) /\ d.type = Word /\ d.value = c.fd /\ Len(writebuf(d)) = 1
    BY <1>1, <2>1, FieldFacts
  <2>3. a = <<d, p, g, g>>
    BY <1>2, <1>4, <1>6, <2>1 DEF Args
  <2>4. Len(a) = 4 /\ a[1] = d /\ a[2] = p /\ a[3] = g /\ a[4] = g
    BY <2>3
  <2>5. FieldsOK(a)
    BY <1>3, <1>5, <2>2, <2>4 DEF FieldsOK
  <2>6. TypesOf(a) = <<Word, Str, Word, Word>>
    BY <1>3, <1>5, <2>2, <2>4 DEF TypesOf
  <2>7. RequestTypes(c.op) = <<Word, Str, Word, Word>>
    BY <1>6 DEF RequestTypes
  <2>8. Len(pack(a)) = 1 + (c.path + 2) + 1 + 1
    <3>1. Len(pack(a)) = CellsOf(a, 1) + CellsOf(a, 2) + CellsOf(a, 3) + CellsOf(a, 4)
      BY <2>4, <2>5, PackLength
    <3>. QED  BY <1>3, <1>5, <2>2, <2>4, <3>1 DEF CellsOf
  <2>. QED  BY <1>1, <1>3, <1>6, <2>2, <2>4, <2>5, <2>6, <2>7, <2>8
<1>7. CASE c.op = "access"
  <2>3. a = <<p, g>>
    BY <1>2, <1>4, <1>7 DEF Args
  <2>4. Len(a) = 2 /\ a[1] = p /\ a[2] = g
    BY <2>3
  <2>5. FieldsOK(a)
    BY <1>3, <1>5, <2>4 DEF FieldsOK
  <2>6. TypesOf(a) = <<Str, Word>>
    BY <1>3, <1>5, <2>4 DEF TypesOf
  <2>7. RequestTypes(c.op) = <<Str, Word>>
    BY <1>7 DEF RequestTypes
  <2>8. Len(pack(a)) = (c.path + 2) + 1
    <3>1. Len(pack(a)) = CellsOf(a, 1) + CellsOf(a, 2)
      BY <2>4, <2>5, PackLength
    <3>. QED  BY <1>3, <1>5, <2>4, <3>1 DEF CellsOf
  <2>. QED  BY <1>1, <1>3, <1>7, <2>4, <2>5, <2>6, <2>7, <2>8
<1>8. CASE c.op = "fstat"
  <2>1. PICK d : d = Field(Word, c.fd)
    OBVIOUS
  <2>2. FieldOK(d) /\ d.type = Word /\ d.value = c.fd /\ Len(writebuf(d)) = 1
    BY <1>1, <2>1, FieldFacts
  <2>3. a = <<d>>
    BY <1>8, <2>1 DEF Args
  <2>4. Len(a) = 1 /\ a[1] = d
    BY <2>3
  <2>5. FieldsOK(a)
    BY <2>2, <2>4 DEF FieldsOK
  <2>6. TypesOf(a) = <<Word>>
    BY <2>2, <2>4 DEF TypesOf
  <2>7. RequestTypes(c.op) = <<Word>>
    BY <1>8 DEF RequestTypes
  <2>8. Len(pack(a)) = 1
    BY <2>2, <2>4, <2>5, PackLength DEF CellsOf
  <2>. QED  BY <1>1, <1>8, <2>2, <2>4, <2>5, <2>6, <2>7, <2>8
<1>9. CASE c.op \in {"stat", "lstat", "unlink"}
  <2>3. a = <<p>>
    BY <1>2, <1>9 DEF Args
  <2>4. Len(a) = 1 /\ a[1] = p
    BY <2>3
  <2>5. FieldsOK(a)
    BY <1>3, <2>4 DEF FieldsOK
  <2>6. TypesOf(a) = <<Str>>
    BY <1>3, <2>4 DEF TypesOf
  <2>7. RequestTypes(c.op) = <<Str>>
    BY <1>9 DEF RequestTypes
  <2>8. Len(pack(a)) = c.path + 2
    BY <1>3, <2>4, <2>5, PackLength DEF CellsOf
  <2>. QED  BY <1>1, <1>3, <1>9, <2>4, <2>5, <2>6, <2>7, <2>8
<1>10. CASE c.op = "readlink"
  <2>1. PICK d : d = Field(Long, c.bufsize)
    OBVIOUS
  <2>2. FieldOK(d) /\ d.type = Long /\ d.value = c.bufsize /\ Len(writebuf(d)) = 2
    BY <1>1, <2>1, FieldFacts
  <2>3. a = <<p, d>>
    BY <1>2, <1>10, <2>1 DEF Args
  <2>4. Len(a) = 2 /\ a[1] = p /\ a[2] = d
    BY <2>3
  <2>5. FieldsOK(a)
    BY <1>3, <2>2, <2>4 DEF FieldsOK
  <2>6. TypesOf(a) = <<Str, Long>>
    BY <1>3, <2>2, <2>4 DEF TypesOf
  <2>7. RequestTypes(c.op) = <<Str, Long>>
    BY <1>10 DEF RequestTypes
  <2>8. Len(pack(a)) = (c.path + 2) + 2
    <3>1. Len(pack(a)) = CellsOf(a, 1) + CellsOf(a, 2)
      BY <2>4, <2>5, PackLength
    <3>. QED  BY <1>3, <2>2, <2>4, <3>1 DEF CellsOf
  <2>. QED  BY <1>1, <1>3, <1>10, <2>2, <2>4, <2>5, <2>6, <2>7, <2>8
<1>. QED  BY <1>1, <1>6, <1>7, <1>8, <1>9, <1>10 DEF AnsweredOps

\* The command and the fields behind it.
LEMMA FieldsSplit ==
    ASSUME NEW c \in Calls, NEW a, a = Args(c), NEW all, all = Fields(c)
    PROVE  /\ Len(a) \in 1 .. 4 /\ Len(all) = Len(a) + 1 /\ all[1] = Field(Word, Cmd(c.op))
           /\ \A i \in 1 .. Len(a) : all[i + 1] = a[i]
<1>1. PICK S : a \in Seq(S) /\ Len(a) \in 1 .. 4
  <2>1. c.op \in AnsweredOps \cup {"open"}
    BY CallKinds
  <2>2. PICK p, g, d, n : /\ p = Field(Str, Path(c.path)) /\ g = Field(Word, Flags)
                          /\ d = Field(Word, c.fd) /\ n = Field(Long, c.bufsize)
    OBVIOUS
  <2>3. a \in {<<p, g, g>>, <<d, p, g, g>>, <<p, g>>, <<d>>, <<p>>, <<p, n>>}
    BY <2>1, <2>2 DEF Args, AnsweredOps
  <2>4. a \in Seq({p, g, d, n}) /\ Len(a) \in 1 .. 4
    <3>1. ASSUME NEW S, p \in S, g \in S, d \in S, n \in S PROVE a \in Seq(S)
      <4>1. CASE a = <<p, g, g>>
        BY <3>1, <4>1
      <4>2. CASE a = <<d, p, g, g>>
        BY <3>1, <4>2
      <4>3. CASE a = <<p, g>>
        BY <3>1, <4>3
      <4>4. CASE a = <<p, n>>
        BY <3>1, <4>4
      <4>5. CASE a = <<d>>
        BY <3>1, <4>5
      <4>6. CASE a = <<p>>
        BY <3>1, <4>6
      <4>. QED  BY <2>3, <4>1, <4>2, <4>3, <4>4, <4>5, <4>6
    <3>2. Len(a) \in 1 .. 4
      BY <2>3
    <3>. QED  BY <3>1, <3>2
  <2>. QED  BY <2>4
<1>2. PICK f : f = Field(Word, Cmd(c.op))
  OBVIOUS
<1>3. all = <<f>> \o a
  BY <1>2, Zenon DEF Fields, Args
<1>4. PICK T : T = S \cup {f}
  OBVIOUS
<1>5. a \in Seq(T) /\ <<f>> \in Seq(T) /\ Len(<<f>>) = 1
  BY <1>1, <1>4
<1>6. PICK one \in Seq(T) : one = <<f>> /\ Len(one) = 1 /\ one[1] = f
  BY <1>5
<1>7. /\ Len(all) = 1 + Len(a)
      /\ \A i \in 1 .. (1 + Len(a)) : all[i] = IF i <= 1 THEN one[i] ELSE a[i - 1]
  <2>1. all = one \o a
    BY <1>3, <1>6
  <2>. QED  BY <2>1, <1>5, <1>6, ConcatProperties
<1>8. all[1] = f
  BY <1>1, <1>6, <1>7
<1>9. ASSUME NEW i \in 1 .. Len(a) PROVE all[i + 1] = a[i]
  BY <1>1, <1>7
<1>. QED  BY <1>1, <1>2, <1>7, <1>8, <1>9

LEMMA ArgsOK ==
    ASSUME NEW c \in Calls
    PROVE  FieldsOK(Args(c))
<1>1. CASE c.op # "open"
  BY <1>1, ArgsMatch
<1>2. CASE c.op = "open"
  <2>1. PICK p, g : p = Field(Str, Path(c.path)) /\ g = Field(Word, Flags)
    OBVIOUS
  <2>2. c.path \in PathIds /\ Flags \in Int
    BY CallKinds DEF Flags
  <2>3. FieldOK(p) /\ FieldOK(g)
    BY <2>1, <2>2, FieldFacts
  <2>4. Args(c) = <<p, g, g>>
    BY <1>2, <2>1 DEF Args
  <2>. QED  BY <2>3, <2>4 DEF FieldsOK
<1>. QED  BY <1>1, <1>2

\* What the Command Center reads of a request.
ReadsRequest(c, data) ==
    LET body == SubSeq(data, 3, Len(data))
        arg == unpack(RequestTypes(c.op), body) IN
    /\ check_completed(RequestTypes(c.op), body)
    /\ c.op \in {"openat", "fstat"} => arg[1] = c.fd
    /\ c.op = "openat" => arg[2][1] = c.path
    /\ c.op \in {"access", "stat", "lstat", "unlink", "readlink"} => arg[1][1] = c.path
    /\ c.op = "readlink" => arg[2] = c.bufsize

LEMMA RequestRead ==
    ASSUME NEW c \in Calls, NEW data, data = pack_size_prefix(Fields(c))
    PROVE  /\ Cmds[data[2]] = c.op /\ data \in Seq(Int) /\ Len(data) = data[1] + 1
           /\ c.op # "open" => Len(data) <= c.path + 7 /\ ReadsRequest(c, data)
<1>1. PICK a, all, f : a = Args(c) /\ all = Fields(c) /\ f = Field(Word, Cmd(c.op))
  OBVIOUS
<1>2. PICK n \in 1 .. 4 : n = Len(a)
  <2>1. Len(a) \in 1 .. 4
    BY <1>1, FieldsSplit
  <2>. QED  BY <2>1, Zenon
<1>3. Len(all) = n + 1 /\ all[1] = f
  BY <1>1, <1>2, FieldsSplit
<1>4. ASSUME NEW i \in 1 .. n PROVE all[i + 1] = a[i]
  BY <1>1, <1>2, FieldsSplit
<1>5. FieldsOK(a)
  BY <1>1, ArgsOK
<1>6. Cmd(c.op) \in Int /\ Cmds[Cmd(c.op)] = c.op
  BY CmdIs
<1>7. FieldOK(f) /\ Len(writebuf(f)) = 1 /\ writebuf(f)[1] = Cmd(c.op)
  BY <1>1, <1>6, FieldFacts
<1>8. FieldsOK(all)
  <2> SUFFICES ASSUME NEW i \in 1 .. (n + 1) PROVE FieldOK(all[i])
    BY <1>3 DEF FieldsOK
  <2>1. CASE i = 1
    BY <1>3, <1>7, <2>1
  <2>2. CASE i # 1
    <3>1. i - 1 \in 1 .. n /\ (i - 1) + 1 = i
      BY <2>2
    <3>2. all[i] = a[i - 1] /\ FieldOK(a[i - 1])
      BY <1>2, <1>4, <1>5, <3>1 DEF FieldsOK
    <3>. QED  BY <3>2
  <2>. QED  BY <2>1, <2>2
<1>9. IsCat(pack(all), writebuf(f), pack(a))
  BY <1>2, <1>3, <1>4, <1>5, <1>7, PackFirst
<1>10. PICK buf, body : buf = pack(all) /\ body = pack(a)
  OBVIOUS
<1>11. body \in Seq(Int)
  BY <1>2, <1>5, <1>10, RoundTrip DEF RoundTrips
<1>12. /\ buf \in Seq(Int) /\ Len(buf) = Len(body) + 1 /\ buf[1] = Cmd(c.op)
       /\ \A k \in 1 .. Len(body) : buf[1 + k] = body[k]
  <2>1. Len(body) \in Nat
    BY <1>11
  <2>. QED  BY <1>7, <1>9, <1>10, <2>1 DEF IsCat
<1>13. /\ IsCat(data, <<Len(buf)>>, buf) /\ Len(data) = Len(buf) + 1 /\ data[1] + 1 = Len(data)
       /\ \A k \in 1 .. Len(buf) : data[k + 1] = buf[k]
  <2>1. Len(all) \in Nat
    BY <1>3
  <2>2. data = pack_size_prefix(all)
    BY <1>1
  <2>3. IsCat(data, <<Len(buf)>>, buf)
    BY <1>8, <1>10, <2>1, <2>2, SizePrefix
  <2>4. Len(data) = Len(buf) + 1 /\ data[1] + 1 = Len(data)
    BY <1>8, <1>10, <2>1, <2>2, SizePrefix
  <2>5. \A k \in 1 .. Len(buf) : data[k + 1] = buf[k]
    BY <1>8, <1>10, <2>1, <2>2, SizePrefix
  <2>. QED  BY <2>3, <2>4, <2>5
<1>14. data \in Seq(Int)
  BY <1>13 DEF IsCat
<1>15. data[2] = Cmd(c.op)
  <2>1. 1 \in 1 .. Len(buf) /\ 1 + 1 = 2
    BY <1>11, <1>12
  <2>. QED  BY <1>12, <1>13, <2>1
<1>16. SubSeq(data, 3, Len(data)) = body
  <2>1. PICK m \in Nat : m = Len(body)
    BY <1>11
  <2>2. Len(data) = 2 + m /\ 2 + m <= Len(data)
    BY <1>12, <1>13, <2>1
  <2>3. PICK r : r = Sub(data, 2, m)
    OBVIOUS
  <2>4. IsSub(r, data, 2, m)
    BY <1>14, <2>2, <2>3, Slice
  <2>5. r \in Seq(Int) /\ Len(r) = m /\ \A k \in 1 .. m : r[k] = data[2 + k]
    BY <2>4 DEF IsSub
  <2>6. ASSUME NEW k \in 1 .. m PROVE data[2 + k] = body[k]
    <3>1. 1 + k \in 1 .. Len(buf) /\ (1 + k) + 1 = 2 + k
      BY <1>12, <2>1
    <3>. QED  BY <1>12, <1>13, <2>1, <3>1
  <2>7. r = body
    <3>1. \A k \in 1 .. m : r[k] = body[k]
      BY <2>5, <2>6
    <3>. QED  BY <1>11, <2>1, <2>5, <3>1, SeqSame
  <2>8. 2 + 1 = 3
    OBVIOUS
  <2>. QED  BY <2>2, <2>3, <2>7, <2>8, Zenon DEF Sub
<1>17. ASSUME c.op # "open" PROVE Len(data) <= c.path + 7 /\ ReadsRequest(c, data)
  <2>1. /\ TypesOf(a) = RequestTypes(c.op) /\ Len(body) \in Nat /\ Len(body) <= c.path + 5
        /\ c.op \in {"openat", "fstat"} => a[1].value = c.fd
        /\ c.op = "openat" => a[2].value[1] = c.path
        /\ c.op \in {"access", "stat", "lstat", "unlink", "readlink"} => a[1].value[1] = c.path
        /\ c.op = "readlink" => a[2].value = c.bufsize
    BY <1>1, <1>10, <1>17, ArgsMatch
  <2>2. RoundTrips(a)
    BY <1>2, <1>5, RoundTrip
  <2>3. check_completed(RequestTypes(c.op), body) /\ unpack(RequestTypes(c.op), body) = ValuesOf(a)
    BY <1>10, <2>1, <2>2 DEF RoundTrips
  <2>4. c.path \in Nat /\ Len(data) = Len(body) + 2
    <3>1. c.path \in PathIds /\ Len(body) \in Nat
      BY CallKinds, <1>11
    <3>2. c.path \in Nat
      BY <3>1 DEF PathIds
    <3>. QED  BY <1>12, <1>13, <3>1, <3>2
  <2>5. Len(data) <= c.path + 7
    BY <2>1, <2>4
  <2>6. PICK arg : arg = unpack(RequestTypes(c.op), body)
    OBVIOUS
  <2>7. \A i \in 1 .. n : arg[i] = a[i].value
    BY <1>2, <2>3, <2>6 DEF ValuesOf
  <2>8. arg[1] = a[1].value
    BY <1>2, <2>7
  <2>9. c.op \in {"openat", "readlink"} => arg[2] = a[2].value
    <3>1. c.op \in {"openat", "readlink"} => 2 \in 1 .. n
      <4>1. TypesOf(a) = RequestTypes(c.op)
        BY <2>1
      <4>2. DOMAIN TypesOf(a) = 1 .. n
        BY <1>2 DEF TypesOf
      <4>3. c.op \in {"openat", "readlink"} => 2 \in DOMAIN RequestTypes(c.op)
        BY DEF RequestTypes
      <4>. QED  BY <4>1, <4>2, <4>3
    <3>. QED  BY <2>7, <3>1
  <2>10. ReadsRequest(c, data)
    BY <1>16, <2>1, <2>3, <2>6, <2>8, <2>9 DEF ReadsRequest
  <2>. QED  BY <2>5, <2>10
<1>. QED  BY <1>6, <1>13, <1>14, <1>15, <1>17

-----------------------------------------------------------------------------
(* Descriptors.                                                            *)

Tables == [Fds -> Files \cup {Free}]

LEMMA Numbers ==
    /\ Fds \subseteq Nat /\ Free = 0 /\ Free \notin Files /\ Files \subseteq Nat /\ Dir \in Files
    /\ PathIds \subseteq Files /\ \A i \in PathIds : i \in Nat \ {0} /\ AtDir(i) \in Files
    /\ 0 \in Fds
BY BridgeAssumption DEF Fds, Free, Files, Dir, PathIds, AtDir

LEMMA LowestIs ==
    ASSUME NEW S, S \subseteq Fds, S # {}
    PROVE  Lowest(S) \in S
<1>1. S \in SUBSET Nat
  BY Numbers
<1>2. \E fd \in S : \A k \in S : fd <= k
  BY <1>1, LeastNumber
<1>. QED  BY <1>2, Zenon DEF Lowest

\* recvmsg into a table, with a receiver.
LEMMA Received ==
    ASSUME NEW t \in Tables, NEW msg, msg.file \in Files \cup {Free}, NEW r
    PROVE  /\ FreeFds(t) \subseteq Fds
           /\ Lands(t, msg) =>
                \E fd \in Fds : /\ t[fd] = Free /\ msg.file \in Files
                                /\ Installed(t, msg) = [t EXCEPT ![fd] = msg.file]
                                /\ Receives(r, t, msg) = Receiver(1, fd)
           /\ ~ Lands(t, msg) => Installed(t, msg) = t /\ Receives(r, t, msg) = r
           /\ Installed(t, msg) \in Tables
<1>1. FreeFds(t) \subseteq Fds
  BY DEF FreeFds
<1>2. ~ Lands(t, msg) => Installed(t, msg) = t /\ Receives(r, t, msg) = r
  BY DEF Installed, Receives
<1>3. ASSUME Lands(t, msg)
      PROVE  \E fd \in Fds : /\ t[fd] = Free /\ msg.file \in Files
                             /\ Installed(t, msg) = [t EXCEPT ![fd] = msg.file]
                             /\ Receives(r, t, msg) = Receiver(1, fd)
  <2>1. FreeFds(t) # {} /\ msg.file # Free
    BY <1>3 DEF Lands
  <2>2. PICK fd : fd = Lowest(FreeFds(t))
    OBVIOUS
  <2>3. fd \in FreeFds(t)
    BY <1>1, <2>1, <2>2, LowestIs
  <2>4. fd \in Fds /\ t[fd] = Free
    BY <2>3 DEF FreeFds
  <2>5. Installed(t, msg) = [t EXCEPT ![fd] = msg.file] /\ Receives(r, t, msg) = Receiver(1, fd)
    BY <1>3, <2>2 DEF Installed, Receives
  <2>. QED  BY <2>1, <2>4, <2>5
<1>4. Installed(t, msg) \in Tables
  <2>1. CASE Lands(t, msg)
    <3>1. PICK fd \in Fds : Installed(t, msg) = [t EXCEPT ![fd] = msg.file]
      BY <1>3, <2>1
    <3>. QED  BY <3>1 DEF Tables
  <2>2. CASE ~ Lands(t, msg)
    BY <1>2, <2>2
  <2>. QED  BY <2>1, <2>2
<1>. QED  BY <1>1, <1>2, <1>3, <1>4

-----------------------------------------------------------------------------
(* The invariant.                                                          *)

\* The longest path fits into a datagram.
PathsFit == NPaths + 7 <= data_buf_size

Datagrams == [data : Seq(Int), file : Files \cup {Free}]
OpenMsg == Datagram(pack_size_prefix(Fields(OpenCall)), Free)

\* A request that waits to be answered: it is that of the call under way, and what
\* the call should give still is what it would give.
Asked(msg) ==
    /\ pc = "wait" /\ reply = <<>> /\ Sendable(scoutFds, call.fd)
    /\ msg = Sent(scoutFds, pack_size_prefix(Fields(call)), call.fd)
    /\ want = Wanted(call)

\* Requests that nobody waits for, and behind them at most one that somebody does.
QueueOK ==
    /\ request \in Seq(Datagrams) /\ Len(request) <= QueueMax
    /\ \A i \in 1 .. Len(request) : request[i] = OpenMsg \/ (i = Len(request) /\ Asked(request[i]))

\* An answer says what the call should give, save EMFILE.
IntAnswer(r, file) == Datagram(pack_size_prefix(<<Field(Word, r)>>), file)
AnswerOK(msg) ==
    \E r \in Int :
        \/ /\ call.op \in {"access", "unlink"} /\ msg = IntAnswer(r, Free)
           /\ want = Result(r, IF r < 0 THEN Free ELSE call.path)
        \/ /\ call.op = "openat" /\ r < 0 /\ msg = IntAnswer(r, Free)
           /\ r = EMFILE \/ want = Result(r, Free)
        \/ /\ call.op = "openat" /\ r >= 0
           /\ \E file \in Files : msg = IntAnswer(r, file) /\ want = Result(0, file)
        \/ /\ call.op \in {"fstat", "stat", "lstat"}
           /\ \E file \in Int :
                /\ msg = Datagram(pack_size_prefix(<<Field(Word, r), Field(Struct, file)>>), Free)
                /\ want = Result(r, file) /\ (r < 0 => file = Free)
        \/ /\ call.op = "readlink"
           /\ \E buf \in [1 .. call.bufsize -> Int] :
                /\ msg = Datagram(pack_size_prefix(<<Field(Word, r), Field(Buf(call.bufsize), buf)>>), Free)
                /\ want = Result(r, IF r < 0 THEN Free ELSE call.path)
                /\ r > 0 => call.bufsize > 0 /\ buf[1] = call.path

ReplyOK == reply = <<>> \/ \E msg : reply = <<msg>> /\ pc = "wait" /\ request = <<>> /\ AnswerOK(msg)

CallOK ==
    /\ pc = "run" => call = NoCall /\ result = NoResult
    /\ pc # "run" => call \in Calls
    /\ pc = "wait" => call.op # "open" /\ result = NoResult
    /\ AnswerMatches
    /\ pc = "aborted" => (PathsFit => dropped \/ TooLong(call))

\* The Carrier stops only while a call waits for it.
AbortOK ==
    carrier = "aborted" => pc = "wait" /\ request = <<>> /\ reply = <<>> /\ (PathsFit => dropped)

BridgeInv == TypeOK /\ QueueOK /\ ReplyOK /\ CallOK /\ AbortOK

LEMMA TypeParts ==
    ASSUME TypeOK
    PROVE  /\ scoutFds \in Tables /\ carrierFds \in Tables /\ fs \subseteq Files
           /\ pc \in {"run", "wait", "returned", "aborted"} /\ carrier \in {"loop", "aborted"}
           /\ rcvr.num \in 0 .. 1 /\ rcvr.fd \in Fds /\ dropped \in BOOLEAN
BY DEF TypeOK, Tables

\* What a call should give, as a function of the state it depends on.
WantedIn(c, table, files) ==
    LET file == IF c.fd \in Fds THEN table[c.fd] ELSE Free
        Err(dir, path) == IF dir \notin {Free, Dir} THEN ENOTDIR
                          ELSE IF OpenedFile(dir, path) \notin files THEN ENOENT ELSE 0
        Res(f, r) == IF f \in files THEN Result(r, f) ELSE Result(ENOENT, Free) IN
    CASE c.op \in Unanswered -> NoResult
      [] c.op = "openat" -> IF Err(file, c.path) < 0 THEN Result(Err(file, c.path), Free)
                            ELSE Result(0, OpenedFile(file, c.path))
      [] c.op = "fstat" -> IF file = Free THEN Result(EBADF, Free) ELSE Result(0, file)
      [] c.op = "readlink" -> Res(c.path, Least(c.path, c.bufsize))
      [] OTHER -> Res(c.path, 0)

LEMMA WantedIs ==
    \A c : /\ Wanted(c) = WantedIn(c, scoutFds, fs)
           /\ Wanted(c)' = WantedIn(c, scoutFds', fs')
BY DEF Wanted, WantedIn, OpenError, PathResult

LEMMA BridgeInit == Init => BridgeInv
<1> SUFFICES ASSUME Init PROVE BridgeInv
  OBVIOUS
<1>1. TypeOK
  <2>1. scoutFds \in [Fds -> Files \cup {Free}]
    BY Numbers DEF Init
  <2>2. carrierFds \in [Fds -> Files \cup {Free}]
    <3>1. PICK n \in 0 .. (MaxFd + 1) : carrierFds = [fd \in Fds |-> IF fd < n THEN Dir ELSE Free]
      BY Zenon DEF Init
    <3>. QED  BY <3>1, Numbers
  <2>3. rcvr.num = 0 /\ rcvr.fd = 0
    BY DEF Init, NewReceiver, Receiver
  <2>4. fs \subseteq Files /\ request = <<>> /\ reply = <<>> /\ pc = "run" /\ carrier = "loop" /\ dropped = FALSE
    BY DEF Init
  <2>5. Len(request) = 0 /\ Len(reply) = 0 /\ 0 <= QueueMax
    BY <2>4, BridgeAssumption
  <2>. QED  BY <2>1, <2>2, <2>3, <2>4, <2>5, Numbers DEF TypeOK
<1>2. QueueOK
  <2>1. request = <<>> /\ QueueMax \in Nat
    BY BridgeAssumption DEF Init
  <2>2. request \in Seq(Datagrams) /\ Len(request) = 0
    BY <2>1
  <2>. QED  BY <2>1, <2>2 DEF QueueOK
<1>3. ReplyOK /\ CallOK /\ AbortOK
  BY DEF Init, ReplyOK, CallOK, AbortOK, AnswerMatches
<1>. QED  BY <1>1, <1>2, <1>3 DEF BridgeInv

-----------------------------------------------------------------------------
(* The steps of the subject.                                               *)

LEMMA NotWaiting ==
    ASSUME BridgeInv, pc # "wait"
    PROVE  /\ reply = <<>> /\ carrier = "loop"
           /\ request \in Seq(Datagrams) /\ Len(request) <= QueueMax
           /\ \A i \in 1 .. Len(request) : request[i] = OpenMsg
<1>1. reply = <<>>
  BY DEF BridgeInv, ReplyOK
<1>2. carrier = "loop"
  BY TypeParts DEF BridgeInv, AbortOK
<1>3. request \in Seq(Datagrams) /\ Len(request) <= QueueMax /\ \A i \in 1 .. Len(request) : request[i] = OpenMsg
  BY DEF BridgeInv, QueueOK, Asked
<1>. QED  BY <1>1, <1>2, <1>3

\* A step after which no call waits, and that leaves the queues alone.
LEMMA QuietStep ==
    ASSUME BridgeInv, pc # "wait", request' = request, reply' = reply, carrier' = carrier, TypeOK', CallOK'
    PROVE  BridgeInv'
<1>1. /\ reply' = <<>> /\ carrier' = "loop"
      /\ request' \in Seq(Datagrams) /\ Len(request') <= QueueMax
      /\ \A i \in 1 .. Len(request') : request'[i] = OpenMsg
  BY NotWaiting
<1>2. QueueOK'
  BY <1>1 DEF QueueOK
<1>3. ReplyOK' /\ AbortOK'
  BY <1>1 DEF ReplyOK, AbortOK
<1>. QED  BY <1>2, <1>3 DEF BridgeInv

LEMMA DescriptorStep ==
    ASSUME BridgeInv, pc = "run", scoutFds' \in Tables, UNCHANGED notFds
    PROVE  BridgeInv'
<1>1. /\ carrierFds' = carrierFds /\ fs' = fs /\ request' = request /\ reply' = reply /\ pc' = pc
      /\ carrier' = carrier /\ rcvr' = rcvr /\ call' = call /\ result' = result /\ want' = want
      /\ dropped' = dropped
  BY DEF notFds
<1>2. TypeOK'
  BY <1>1 DEF BridgeInv, TypeOK, Tables
<1>3. CallOK'
  BY <1>1 DEF BridgeInv, CallOK, AnswerMatches, TooLong
<1>. QED  BY <1>1, <1>2, <1>3, QuietStep

LEMMA DescriptorSteps ==
    ASSUME BridgeInv, NEW fd \in Fds, NEW new \in Fds, Close(fd) \/ send_dup(fd) \/ send_dup2(fd, new)
    PROVE  BridgeInv'
<1>1. scoutFds \in Tables
  BY TypeParts DEF BridgeInv
<1>2. CASE Close(fd)
  <2>1. scoutFds' \in Tables
    BY <1>1, <1>2 DEF Close, Tables
  <2>2. pc = "run" /\ UNCHANGED notFds
    BY <1>2, Zenon DEF Close
  <2>. QED  BY <2>1, <2>2, DescriptorStep
<1>3. CASE send_dup(fd)
  <2>1. scoutFds' \in Tables
    <3>1. scoutFds' = [scoutFds EXCEPT ![Lowest(FreeFds(scoutFds))] = scoutFds[fd]]
      BY <1>3 DEF send_dup
    <3>. QED  BY <1>1, <3>1 DEF Tables
  <2>2. pc = "run" /\ UNCHANGED notFds
    BY <1>3, Zenon DEF send_dup
  <2>. QED  BY <2>1, <2>2, DescriptorStep
<1>4. CASE send_dup2(fd, new)
  <2>1. scoutFds' \in Tables
    BY <1>1, <1>4 DEF send_dup2, Tables
  <2>2. pc = "run" /\ UNCHANGED notFds
    BY <1>4, Zenon DEF send_dup2
  <2>. QED  BY <2>1, <2>2, DescriptorStep
<1>. QED  BY <1>2, <1>3, <1>4

LEMMA ReturnStep ==
    ASSUME BridgeInv, Return
    PROVE  BridgeInv'
<1>1. /\ pc = "returned" /\ pc' = "run" /\ call' = NoCall /\ result' = NoResult /\ dropped' = FALSE
      /\ scoutFds' = scoutFds /\ carrierFds' = carrierFds /\ fs' = fs /\ request' = request
      /\ reply' = reply /\ carrier' = carrier /\ rcvr' = rcvr
  BY DEF Return
<1>2. TypeOK'
  BY <1>1 DEF BridgeInv, TypeOK
<1>3. CallOK'
  BY <1>1 DEF CallOK, AnswerMatches
<1>. QED  BY <1>1, <1>2, <1>3, QuietStep

LEMMA OpenRequest ==
    ASSUME NEW c \in Calls, c.op = "open"
    PROVE  /\ Sendable(scoutFds, c.fd) /\ Wanted(c) = NoResult
           /\ Sent(scoutFds, pack_size_prefix(Fields(c)), c.fd) = OpenMsg
<1>1. c = OpenCall /\ c.fd = -1
  BY CallKinds
<1>2. Sendable(scoutFds, c.fd)
  BY <1>1 DEF Sendable
<1>3. Sent(scoutFds, pack_size_prefix(Fields(c)), c.fd) = OpenMsg
  BY <1>1 DEF Sent, OpenMsg
<1>4. Wanted(c) = NoResult
  BY DEF Wanted, Unanswered
<1>. QED  BY <1>2, <1>3, <1>4

\* What is sent is a datagram.
LEMMA SentIs ==
    ASSUME NEW c \in Calls, NEW t \in Tables, Sendable(t, c.fd), NEW msg,
           msg = Sent(t, pack_size_prefix(Fields(c)), c.fd)
    PROVE  /\ msg \in Datagrams /\ msg.data = pack_size_prefix(Fields(c))
           /\ c.fd < 0 => msg.file = Free
           /\ ~ (c.fd < 0) => c.fd \in Fds /\ msg.file = t[c.fd] /\ msg.file \in Files
<1>1. c.fd \in Fds \cup {-1} /\ Fds \subseteq Nat
  BY CallKinds, Numbers
<1>2. PICK data \in Seq(Int) : data = pack_size_prefix(Fields(c))
  BY RequestRead
<1>3. CASE c.fd < 0
  <2>1. msg = Datagram(data, Free)
    BY <1>2, <1>3 DEF Sent
  <2>. QED  BY <1>2, <1>3, <2>1 DEF Datagram, Datagrams
<1>4. CASE ~ (c.fd < 0)
  <2>1. WireFd(c.fd) = c.fd /\ c.fd \in Fds /\ t[c.fd] # Free
    BY <1>1, <1>4, Numbers DEF Sendable, WireFd
  <2>2. msg = Datagram(data, t[c.fd]) /\ t[c.fd] \in Files
    BY <1>2, <1>4, <2>1 DEF Sent, Tables
  <2>. QED  BY <1>2, <1>4, <2>1, <2>2 DEF Datagram, Datagrams
<1>. QED  BY <1>3, <1>4

LEMMA SendStep ==
    ASSUME BridgeInv, NEW c \in Calls, SendCall(c)
    PROVE  BridgeInv'
<1>1. /\ pc = "run" /\ Len(request) < QueueMax /\ call' = c /\ want' = Wanted(c)
      /\ scoutFds' = scoutFds /\ carrierFds' = carrierFds /\ fs' = fs /\ reply' = reply
      /\ carrier' = carrier /\ rcvr' = rcvr /\ result' = result /\ dropped' = dropped
      /\ pc' = IF c.op \in Unanswered THEN "returned" ELSE "wait"
      /\ request' = IF Sendable(scoutFds, c.fd)
                    THEN Append(request, Sent(scoutFds, pack_size_prefix(Fields(c)), c.fd))
                    ELSE request
  BY DEF SendCall
<1>2. /\ reply = <<>> /\ carrier = "loop" /\ request \in Seq(Datagrams) /\ Len(request) <= QueueMax
      /\ \A i \in 1 .. Len(request) : request[i] = OpenMsg
  BY <1>1, NotWaiting
<1>3. result = NoResult /\ call = NoCall
  BY <1>1 DEF BridgeInv, CallOK
<1>4. scoutFds \in Tables
  BY TypeParts DEF BridgeInv
<1>5. CallOK'
  <2>1. CASE c.op = "open"
    <3>1. pc' = "returned" /\ want' = NoResult
      BY <1>1, <2>1, OpenRequest DEF Unanswered
    <3>. QED  BY <1>1, <1>3, <3>1 DEF CallOK, AnswerMatches
  <2>2. CASE c.op # "open"
    <3>1. pc' = "wait"
      BY <1>1, <2>2 DEF Unanswered
    <3>. QED  BY <1>1, <1>3, <2>2, <3>1 DEF CallOK, AnswerMatches
  <2>. QED  BY <2>1, <2>2
<1>6. QueueOK'
  <2>1. CASE ~ Sendable(scoutFds, c.fd)
    <3>1. request' = request
      BY <1>1, <2>1
    <3>. QED  BY <1>2, <3>1 DEF QueueOK
  <2>2. CASE Sendable(scoutFds, c.fd)
    <3>1. PICK msg : msg = Sent(scoutFds, pack_size_prefix(Fields(c)), c.fd)
      OBVIOUS
    <3>2. msg \in Datagrams
      BY <1>4, <2>2, <3>1, SentIs
    <3>3. request' = Append(request, msg)
      BY <1>1, <2>2, <3>1
    <3>4. /\ request' \in Seq(Datagrams) /\ Len(request') = Len(request) + 1
          /\ \A i \in 1 .. Len(request) : request'[i] = request[i]
          /\ request'[Len(request) + 1] = msg
      BY <1>2, <3>2, <3>3
    <3>5. msg = OpenMsg \/ Asked(msg)'
      <4>1. CASE c.op = "open"
        BY <3>1, <4>1, OpenRequest
      <4>2. CASE c.op # "open"
        <5>1. pc' = "wait"
          BY <1>1, <4>2 DEF Unanswered
        <5>2. Wanted(c)' = Wanted(c)
          BY <1>1, WantedIs
        <5>3. Sendable(scoutFds, c.fd)' /\ Sent(scoutFds, pack_size_prefix(Fields(c)), c.fd)' = msg
          BY <1>1, <2>2, <3>1 DEF Sendable, Sent
        <5>. QED  BY <1>1, <1>2, <5>1, <5>2, <5>3 DEF Asked
      <4>. QED  BY <4>1, <4>2
    <3>6. ASSUME NEW i \in 1 .. Len(request')
          PROVE  (request[i] = OpenMsg \/ (i = Len(request) /\ Asked(request[i])))'
      <4>1. CASE i \in 1 .. Len(request)
        BY <1>2, <3>4, <4>1
      <4>2. CASE i = Len(request) + 1
        <5>1. request'[i] = msg /\ i = Len(request')
          BY <3>4, <4>2
        <5>. QED  BY <3>5, <5>1 DEF Asked
      <4>. QED  BY <1>2, <3>4, <4>1, <4>2
    <3>7. Len(request') <= QueueMax
      BY <1>1, <1>2, <3>4, BridgeAssumption
    <3>. QED  BY <3>4, <3>6, <3>7 DEF QueueOK
  <2>. QED  BY <2>1, <2>2
<1>7. TypeOK'
  <2>1. Len(request') <= QueueMax
    BY <1>6 DEF QueueOK
  <2>2. pc' \in {"returned", "wait"}
    BY <1>1
  <2>. QED  BY <1>1, <2>1, <2>2 DEF BridgeInv, TypeOK
<1>8. ReplyOK' /\ AbortOK'
  BY <1>1, <1>2 DEF ReplyOK, AbortOK
<1>. QED  BY <1>5, <1>6, <1>7, <1>8 DEF BridgeInv

-----------------------------------------------------------------------------
(* Answers.                                                                *)

\* An answer of this length passes the assertions on it, and reads as r.
ReadsAs(types, data, len, r) ==
    /\ Len(data) = len /\ data[1] + 1 = Len(data) /\ data[2] = r
    /\ check_completed(types, data) /\ get_size(types, data) = Len(data)
    /\ unpack(types, data)[2] = r

LEMMA Tuple2 ==
    ASSUME NEW a, NEW b, NEW s, s = <<a>> \o <<b>>
    PROVE  s = [i \in 1 .. 2 |-> s[i]] /\ s[1] = a /\ s[2] = b
<1>1. PICK T : T = {a, b}
  OBVIOUS
<1>2. PICK one \in Seq(T), two \in Seq(T) :
        one = <<a>> /\ two = <<b>> /\ Len(one) = 1 /\ Len(two) = 1 /\ one[1] = a /\ two[1] = b
  <2>1. a \in T /\ b \in T
    BY <1>1
  <2>2. <<a>> \in Seq(T) /\ <<b>> \in Seq(T)
    BY <2>1
  <2>. QED  BY <2>2
<1>3. s = one \o two
  BY <1>2, Zenon
<1>5. /\ s \in Seq(T) /\ Len(s) = 2
      /\ \A i \in 1 .. 2 : s[i] = IF i <= 1 THEN one[i] ELSE two[i - 1]
  BY <1>2, <1>3, ConcatProperties
<1>6. s[1] = a /\ s[2] = b
  BY <1>2, <1>5
<1>7. s = [i \in 1 .. 2 |-> s[i]]
  BY <1>5
<1>. QED  BY <1>6, <1>7

LEMMA Tuple3 ==
    ASSUME NEW a, NEW b, NEW c, NEW s, s = <<a>> \o <<b, c>>
    PROVE  s = [i \in 1 .. 3 |-> s[i]] /\ s[1] = a /\ s[2] = b /\ s[3] = c
<1>1. PICK T : T = {a, b, c}
  OBVIOUS
<1>2. PICK one \in Seq(T), two \in Seq(T) :
        one = <<a>> /\ two = <<b, c>> /\ Len(one) = 1 /\ Len(two) = 2 /\ one[1] = a /\ two[1] = b /\ two[2] = c
  <2>1. a \in T /\ b \in T /\ c \in T
    BY <1>1
  <2>2. <<a>> \in Seq(T) /\ <<b, c>> \in Seq(T)
    BY <2>1
  <2>. QED  BY <2>2
<1>3. s = one \o two
  BY <1>2, Zenon
<1>5. /\ s \in Seq(T) /\ Len(s) = 3
      /\ \A i \in 1 .. 3 : s[i] = IF i <= 1 THEN one[i] ELSE two[i - 1]
  BY <1>2, <1>3, ConcatProperties
<1>6. s[1] = a /\ s[2] = b /\ s[3] = c
  BY <1>2, <1>5
<1>7. s = [i \in 1 .. 3 |-> s[i]]
  BY <1>5
<1>. QED  BY <1>6, <1>7

LEMMA ReadInt ==
    ASSUME NEW r \in Int, NEW data, data = pack_size_prefix(<<Field(Word, r)>>),
           NEW types, types = <<Word>> \o <<Word>>
    PROVE  ReadsAs(types, data, 2, r)
<1>1. PICK f : f = Field(Word, r)
  OBVIOUS
<1>2. FieldOK(f) /\ f.type = Word /\ f.value = r /\ Len(writebuf(f)) = 1
  BY <1>1, FieldFacts
<1>3. PICK F : F = <<f>>
  OBVIOUS
<1>4. Len(F) = 1 /\ F[1] = f
  BY <1>3
<1>5. FieldsOK(F)
  BY <1>2, <1>4 DEF FieldsOK
<1>6. types = [i \in 1 .. 2 |-> types[i]] /\ types[1] = Word /\ types[2] = Word
  BY Tuple2
<1>7. PICK n \in Nat \ {0} : n = 1 /\ n + 1 = 2
  OBVIOUS
<1>8. ReadsAnswer(F, types, pack_size_prefix(F))
  <2>1. \A i \in 1 .. n : types[i + 1] = F[i].type
    BY <1>2, <1>4, <1>6, <1>7
  <2>2. types = [i \in 1 .. (n + 1) |-> types[i]]
    BY <1>6, <1>7
  <2>3. AnswerTypes(F, n, types)
    BY <1>6, <2>1, <2>2, Zenon DEF AnswerTypes
  <2>4. Len(F) = n
    BY <1>4, <1>7
  <2>. QED  BY <1>5, <2>3, <2>4, AnswerRead
<1>9. Len(pack(F)) = 1
  <2>1. Len(pack(F)) = CellsOf(F, 1)
    BY <1>4, <1>5, PackLength
  <2>. QED  BY <1>2, <1>4, <2>1 DEF CellsOf
<1>10. data = pack_size_prefix(F)
  BY <1>1, <1>3
<1>11. /\ Len(data) = Len(pack(F)) + 1 /\ data[1] + 1 = Len(data)
       /\ check_completed(types, data) /\ get_size(types, data) = Len(data)
       /\ \A i \in 1 .. Len(F) : unpack(types, data)[i + 1] = F[i].value
       /\ F[1].type = Word => data[2] = F[1].value
  BY <1>8, <1>10, Zenon DEF ReadsAnswer
<1>12. unpack(types, data)[2] = r
  <2>1. unpack(types, data)[1 + 1] = F[1].value
    BY <1>4, <1>11
  <2>. QED  BY <1>2, <1>4, <2>1
<1>13. Len(data) = 2
  <2>1. Len(data) = Len(pack(F)) + 1
    BY <1>11
  <2>. QED  BY <1>9, <2>1
<1>14. data[2] = r
  BY <1>2, <1>4, <1>11, Zenon
<1>. QED  BY <1>11, <1>12, <1>13, <1>14, Zenon DEF ReadsAs

LEMMA ReadStat ==
    ASSUME NEW r \in Int, NEW file \in Int, NEW data,
           data = pack_size_prefix(<<Field(Word, r), Field(Struct, file)>>),
           NEW types, types = <<Word>> \o <<Word, Struct>>
    PROVE  ReadsAs(types, data, 5, r) /\ unpack(types, data)[3] = file
<1>1. PICK f, g : f = Field(Word, r) /\ g = Field(Struct, file)
  OBVIOUS
<1>2. /\ FieldOK(f) /\ f.type = Word /\ f.value = r /\ Len(writebuf(f)) = 1
      /\ FieldOK(g) /\ g.type = Struct /\ g.value = file /\ Len(writebuf(g)) = 3
  BY <1>1, FieldFacts
<1>3. PICK F : F = <<f, g>>
  OBVIOUS
<1>4. Len(F) = 2 /\ F[1] = f /\ F[2] = g
  BY <1>3
<1>5. FieldsOK(F)
  BY <1>2, <1>4 DEF FieldsOK
<1>6. types = [i \in 1 .. 3 |-> types[i]] /\ types[1] = Word /\ types[2] = Word /\ types[3] = Struct
  BY  Tuple3
<1>7. PICK n \in Nat \ {0} : n = 2 /\ n + 1 = 3
  OBVIOUS
<1>8. ReadsAnswer(F, types, pack_size_prefix(F))
  <2>1. \A i \in 1 .. n : types[i + 1] = F[i].type
    <3>1. ASSUME NEW i \in 1 .. n PROVE types[i + 1] = F[i].type
      <4>1. i = 1 \/ i = 2
        BY <1>7
      <4>2. 1 + 1 = 2 /\ 2 + 1 = 3
        OBVIOUS
      <4>3. CASE i = 1
        BY <1>2, <1>4, <1>6, <4>2, <4>3
      <4>4. CASE i = 2
        BY <1>2, <1>4, <1>6, <4>2, <4>4
      <4>. QED  BY <4>1, <4>3, <4>4
    <3>. QED  BY <3>1
  <2>2. types = [i \in 1 .. (n + 1) |-> types[i]]
    BY <1>6, <1>7
  <2>3. AnswerTypes(F, n, types)
    BY <1>6, <2>1, <2>2, Zenon DEF AnswerTypes
  <2>4. Len(F) = n
    BY <1>4, <1>7
  <2>. QED  BY <1>5, <2>3, <2>4, AnswerRead
<1>9. Len(pack(F)) = 4
  <2>1. Len(pack(F)) = CellsOf(F, 1) + CellsOf(F, 2)
    BY <1>4, <1>5, PackLength
  <2>. QED  BY <1>2, <1>4, <2>1 DEF CellsOf
<1>10. data = pack_size_prefix(F)
  BY <1>1, <1>3
<1>11. /\ Len(data) = Len(pack(F)) + 1 /\ data[1] + 1 = Len(data)
       /\ check_completed(types, data) /\ get_size(types, data) = Len(data)
       /\ \A i \in 1 .. Len(F) : unpack(types, data)[i + 1] = F[i].value
       /\ F[1].type = Word => data[2] = F[1].value
  BY <1>8, <1>10, Zenon DEF ReadsAnswer
<1>12. unpack(types, data)[2] = r /\ unpack(types, data)[3] = file
  <2>0. \A i \in 1 .. Len(F) : unpack(types, data)[i + 1] = F[i].value
    BY <1>11
  <2>01. 1 \in 1 .. Len(F) /\ 2 \in 1 .. Len(F)
    BY <1>4
  <2>1. unpack(types, data)[1 + 1] = F[1].value /\ unpack(types, data)[2 + 1] = F[2].value
    BY <2>0, <2>01, Zenon
  <2>2. 1 + 1 = 2 /\ 2 + 1 = 3
    OBVIOUS
  <2>. QED  BY <1>2, <1>4, <2>1, <2>2, Zenon
<1>13. Len(data) = 5
  <2>1. Len(data) = Len(pack(F)) + 1
    BY <1>11
  <2>. QED  BY <1>9, <2>1
<1>14. data[2] = r
  BY <1>2, <1>4, <1>11, Zenon
<1>. QED  BY <1>11, <1>12, <1>13, <1>14, Zenon DEF ReadsAs

\* The answer to readlink.
LinkData(r, size, buf) == pack_size_prefix(<<Field(Word, r), Field(Buf(size), buf)>>)
LinkTypes(size) == <<Word>> \o <<Word, Buf(size)>>
LinkBuf(buf, size) == buf \in [1 .. size -> Int]

LinkRead(types, data, size, r, buf) == ReadsAs(types, data, size + 3, r) /\ unpack(types, data)[3] = buf

LEMMA ReadLink ==
    ASSUME NEW r \in Int, NEW size \in Nat, NEW buf, LinkBuf(buf, size), NEW data,
           data = LinkData(r, size, buf), NEW types, types = LinkTypes(size)
    PROVE  LinkRead(types, data, size, r, buf)
<1>0. buf \in Seq(Int) /\ Len(buf) = size
  <2>1. buf \in Seq(Int)
    BY SeqDef DEF LinkBuf
  <2>2. 1 .. size = 1 .. Len(buf) /\ Len(buf) \in Nat
    BY <2>1, LenProperties DEF LinkBuf
  <2>3. Len(buf) = size
    BY <2>2
  <2>. QED  BY <2>1, <2>3
<1>1. PICK f, g, t : f = Field(Word, r) /\ g = Field(Buf(size), buf) /\ t = Buf(size)
  OBVIOUS
<1>2. /\ FieldOK(f) /\ f.type = Word /\ f.value = r /\ Len(writebuf(f)) = 1
      /\ FieldOK(g) /\ g.type = t /\ g.value = buf /\ Len(writebuf(g)) = size + 1
  BY <1>0, <1>1, FieldFacts
<1>3. PICK F : F = <<f, g>>
  OBVIOUS
<1>4. Len(F) = 2 /\ F[1] = f /\ F[2] = g
  BY <1>3
<1>5. FieldsOK(F)
  BY <1>2, <1>4 DEF FieldsOK
<1>6. types = [i \in 1 .. 3 |-> types[i]] /\ types[1] = Word /\ types[2] = Word /\ types[3] = t
  BY <1>1, Tuple3 DEF LinkTypes
<1>7. PICK n \in Nat \ {0} : n = 2 /\ n + 1 = 3
  OBVIOUS
<1>8. ReadsAnswer(F, types, pack_size_prefix(F))
  <2>1. \A i \in 1 .. n : types[i + 1] = F[i].type
    <3>1. ASSUME NEW i \in 1 .. n PROVE types[i + 1] = F[i].type
      <4>1. i = 1 \/ i = 2
        BY <1>7
      <4>2. 1 + 1 = 2 /\ 2 + 1 = 3
        OBVIOUS
      <4>3. CASE i = 1
        BY <1>2, <1>4, <1>6, <4>2, <4>3
      <4>4. CASE i = 2
        BY <1>2, <1>4, <1>6, <4>2, <4>4
      <4>. QED  BY <4>1, <4>3, <4>4
    <3>. QED  BY <3>1
  <2>2. types = [i \in 1 .. (n + 1) |-> types[i]]
    BY <1>6, <1>7
  <2>3. AnswerTypes(F, n, types)
    BY <1>6, <2>1, <2>2, Zenon DEF AnswerTypes
  <2>4. Len(F) = n
    BY <1>4, <1>7
  <2>. QED  BY <1>5, <2>3, <2>4, AnswerRead
<1>9. Len(pack(F)) = size + 2
  <2>1. Len(pack(F)) = CellsOf(F, 1) + CellsOf(F, 2)
    BY <1>4, <1>5, PackLength
  <2>. QED  BY <1>2, <1>4, <2>1 DEF CellsOf
<1>10. data = pack_size_prefix(F)
  BY <1>1, <1>3 DEF LinkData
<1>11. /\ Len(data) = Len(pack(F)) + 1 /\ data[1] + 1 = Len(data)
       /\ check_completed(types, data) /\ get_size(types, data) = Len(data)
       /\ \A i \in 1 .. Len(F) : unpack(types, data)[i + 1] = F[i].value
       /\ F[1].type = Word => data[2] = F[1].value
  BY <1>8, <1>10, Zenon DEF ReadsAnswer
<1>12. unpack(types, data)[2] = r /\ unpack(types, data)[3] = buf
  <2>0. \A i \in 1 .. Len(F) : unpack(types, data)[i + 1] = F[i].value
    BY <1>11
  <2>01. 1 \in 1 .. Len(F) /\ 2 \in 1 .. Len(F)
    BY <1>4
  <2>1. unpack(types, data)[1 + 1] = F[1].value /\ unpack(types, data)[2 + 1] = F[2].value
    BY <2>0, <2>01, Zenon
  <2>2. 1 + 1 = 2 /\ 2 + 1 = 3
    OBVIOUS
  <2>. QED  BY <1>2, <1>4, <2>1, <2>2, Zenon
<1>13. Len(data) = size + 3
  <2>1. Len(data) = Len(pack(F)) + 1
    BY <1>11
  <2>. QED  BY <1>9, <2>1
<1>14. data[2] = r
  BY <1>2, <1>4, <1>11, Zenon
<1>. QED  BY <1>11, <1>12, <1>13, <1>14, Zenon DEF ReadsAs, LinkRead

\* What a call makes of its answer: its value r, and the file it tells of.
AnswerFile(types, data, r) ==
    IF r < 0 THEN Free
    ELSE CASE call.op \in {"fstat", "stat", "lstat"} -> unpack(types, data)[3]
           [] call.op = "readlink" -> IF r > 0 THEN unpack(types, data)[3][1] ELSE call.path
           [] OTHER -> call.path

Understood(types, msg, len, r) ==
    /\ ReadsAs(types, msg.data, len, r)
    /\ call.op # "readlink" => len <= 5
    /\ call.op = "readlink" => len = call.bufsize + 3
    /\ msg.file \in Files \cup {Free}
    /\ call.op # "openat" => msg.file = Free /\ want = Result(r, AnswerFile(types, msg.data, r))
    /\ call.op = "openat" /\ r < 0 => msg.file = Free /\ (r = EMFILE \/ want = Result(r, Free))
    /\ call.op = "openat" /\ r >= 0 => msg.file \in Files /\ want = Result(0, msg.file)

LEMMA AnswerFacts ==
    ASSUME call \in Calls, NEW msg, AnswerOK(msg), NEW types, types = <<Word>> \o ReplyTypes(call)
    PROVE  \E len \in Nat, r \in Int : Understood(types, msg, len, r)
<1>1. PICK r \in Int :
        \/ /\ call.op \in {"access", "unlink"} /\ msg = IntAnswer(r, Free)
           /\ want = Result(r, IF r < 0 THEN Free ELSE call.path)
        \/ /\ call.op = "openat" /\ r < 0 /\ msg = IntAnswer(r, Free)
           /\ r = EMFILE \/ want = Result(r, Free)
        \/ /\ call.op = "openat" /\ r >= 0
           /\ \E file \in Files : msg = IntAnswer(r, file) /\ want = Result(0, file)
        \/ /\ call.op \in {"fstat", "stat", "lstat"}
           /\ \E file \in Int :
                /\ msg = Datagram(pack_size_prefix(<<Field(Word, r), Field(Struct, file)>>), Free)
                /\ want = Result(r, file) /\ (r < 0 => file = Free)
        \/ /\ call.op = "readlink"
           /\ \E buf \in [1 .. call.bufsize -> Int] :
                /\ msg = Datagram(pack_size_prefix(<<Field(Word, r), Field(Buf(call.bufsize), buf)>>), Free)
                /\ want = Result(r, IF r < 0 THEN Free ELSE call.path)
                /\ r > 0 => call.bufsize > 0 /\ buf[1] = call.path
  BY Zenon DEF AnswerOK
<1>2. call.bufsize \in Nat
  BY CallKinds
<1>3. \A data, file : Datagram(data, file).data = data /\ Datagram(data, file).file = file
  BY DEF Datagram
<1>4. ASSUME call.op \in {"openat", "access", "unlink"}, NEW file, msg = IntAnswer(r, file)
      PROVE  ReadsAs(types, msg.data, 2, r) /\ msg.file = file
  <2>1. ReplyTypes(call) = <<Word>>
    BY <1>4 DEF ReplyTypes
  <2>2. msg.data = pack_size_prefix(<<Field(Word, r)>>) /\ msg.file = file
    BY <1>3, <1>4, Zenon DEF IntAnswer
  <2>3. PICK data : data = msg.data
    OBVIOUS
  <2>4. types = <<Word>> \o <<Word>>
    BY <2>1, Zenon
  <2>5. ReadsAs(types, data, 2, r)
    BY <2>2, <2>3, <2>4, ReadInt
  <2>. QED  BY <2>2, <2>3, <2>5, Zenon
<1>5. 2 \in Nat /\ 5 \in Nat /\ 2 <= 5 /\ 5 <= 5
  OBVIOUS
<1>6. CASE call.op \in {"access", "unlink"}
  <2>1. msg = IntAnswer(r, Free) /\ want = Result(r, IF r < 0 THEN Free ELSE call.path)
    BY <1>1, <1>6
  <2>2. ReadsAs(types, msg.data, 2, r) /\ msg.file = Free
    BY <1>4, <1>6, <2>1
  <2>3. AnswerFile(types, msg.data, r) = IF r < 0 THEN Free ELSE call.path
    BY <1>6 DEF AnswerFile
  <2>4. Understood(types, msg, 2, r)
    BY <1>5, <1>6, <2>1, <2>2, <2>3 DEF Understood
  <2>. QED  BY <1>5, <2>4
<1>7. CASE call.op = "openat" /\ r < 0
  <2>1. msg = IntAnswer(r, Free) /\ (r = EMFILE \/ want = Result(r, Free))
    BY <1>1, <1>7
  <2>2. ReadsAs(types, msg.data, 2, r) /\ msg.file = Free
    BY <1>4, <1>7, <2>1
  <2>3. Understood(types, msg, 2, r)
    BY <1>5, <1>7, <2>1, <2>2 DEF Understood
  <2>. QED  BY <1>5, <2>3
<1>8. CASE call.op = "openat" /\ r >= 0
  <2>1. PICK file \in Files : msg = IntAnswer(r, file) /\ want = Result(0, file)
    BY <1>1, <1>8
  <2>2. ReadsAs(types, msg.data, 2, r) /\ msg.file = file
    BY <1>4, <1>8, <2>1
  <2>3. Understood(types, msg, 2, r)
    BY <1>5, <1>8, <2>1, <2>2 DEF Understood
  <2>. QED  BY <1>5, <2>3
<1>9. CASE call.op \in {"fstat", "stat", "lstat"}
  <2>1. PICK file \in Int :
            /\ msg = Datagram(pack_size_prefix(<<Field(Word, r), Field(Struct, file)>>), Free)
            /\ want = Result(r, file) /\ (r < 0 => file = Free)
    BY <1>1, <1>9
  <2>2. msg.data = pack_size_prefix(<<Field(Word, r), Field(Struct, file)>>) /\ msg.file = Free
    BY <1>3, <2>1, Zenon
  <2>3. types = <<Word>> \o <<Word, Struct>>
    <3>1. ReplyTypes(call) = <<Word, Struct>>
      BY <1>9 DEF ReplyTypes
    <3>. QED  BY <3>1, Zenon
  <2>4. PICK data : data = msg.data
    OBVIOUS
  <2>5. ReadsAs(types, data, 5, r) /\ unpack(types, data)[3] = file
    BY <2>2, <2>3, <2>4, ReadStat
  <2>6. AnswerFile(types, data, r) = file
    BY <1>9, <2>1, <2>5 DEF AnswerFile
  <2>7. Understood(types, msg, 5, r)
    BY <1>5, <1>9, <2>1, <2>2, <2>4, <2>5, <2>6 DEF Understood
  <2>. QED  BY <1>5, <2>7
<1>10. CASE call.op = "readlink"
  <2>1. PICK size \in Nat : size = call.bufsize
    BY <1>2
  <2>2. PICK buf \in [1 .. size -> Int] :
            /\ msg = Datagram(pack_size_prefix(<<Field(Word, r), Field(Buf(size), buf)>>), Free)
            /\ want = Result(r, IF r < 0 THEN Free ELSE call.path)
            /\ r > 0 => size > 0 /\ buf[1] = call.path
    BY <1>1, <1>10, <2>1
  <2>3. msg.data = pack_size_prefix(<<Field(Word, r), Field(Buf(size), buf)>>) /\ msg.file = Free
    BY <1>3, <2>2, Zenon
  <2>4. types = <<Word>> \o <<Word, Buf(size)>>
    <3>1. ReplyTypes(call) = <<Word, Buf(size)>>
      BY <1>10, <2>1 DEF ReplyTypes
    <3>. QED  BY <3>1, Zenon
  <2>5. PICK data : data = msg.data
    OBVIOUS
  <2>6. ReadsAs(types, data, size + 3, r) /\ unpack(types, data)[3] = buf
    <3>1. data = LinkData(r, size, buf)
      BY <2>3, <2>5, Zenon DEF LinkData
    <3>2. types = LinkTypes(size)
      BY <2>4, Zenon DEF LinkTypes
    <3>3. LinkBuf(buf, size)
      BY Zenon DEF LinkBuf
    <3>4. LinkRead(types, data, size, r, buf)
      BY <3>1, <3>2, <3>3, ReadLink, Zenon
    <3>. QED  BY <3>4, Zenon DEF LinkRead
  <2>7. AnswerFile(types, data, r) = IF r < 0 THEN Free ELSE call.path
    <3>1. CASE r < 0
      BY <3>1 DEF AnswerFile
    <3>2. CASE ~ (r < 0)
      <4>1. AnswerFile(types, data, r) = IF r > 0 THEN buf[1] ELSE call.path
        BY <1>10, <2>6, <3>2, Zenon DEF AnswerFile
      <4>. QED  BY <2>2, <3>2, <4>1
    <3>. QED  BY <3>1, <3>2
  <2>8. PICK len \in Nat : len = size + 3
    OBVIOUS
  <2>9. Understood(types, msg, len, r)
    BY <1>10, <2>1, <2>2, <2>3, <2>5, <2>6, <2>7, <2>8 DEF Understood
  <2>. QED  BY <2>9
<1>. QED  BY <1>1, <1>6, <1>7, <1>8, <1>9, <1>10

LEMMA TakeStep ==
    ASSUME BridgeInv, TakeReply
    PROVE  BridgeInv'
<1>1. PICK msg : reply = <<msg>> /\ pc = "wait" /\ request = <<>> /\ AnswerOK(msg)
  BY Zenon DEF TakeReply, BridgeInv, ReplyOK
<1>2. Head(reply) = msg /\ Tail(reply) = <<>>
  BY <1>1
<1>3. /\ call \in Calls /\ result = NoResult /\ scoutFds \in Tables /\ rcvr.num \in 0 .. 1
      /\ rcvr.fd \in Fds /\ dropped \in BOOLEAN
  BY <1>1, TypeParts DEF BridgeInv, CallOK
<1>4. carrier = "loop"
  <2>1. reply # <<>>
    BY <1>1
  <2>. QED  BY <2>1, TypeParts, Zenon DEF BridgeInv, AbortOK
<1>5. PICK types : types = <<Word>> \o ReplyTypes(call)
  OBVIOUS
<1>6. PICK len \in Nat, r \in Int : Understood(types, msg, len, r)
  BY <1>1, <1>3, <1>5, AnswerFacts
<1>7. /\ ReadsAs(types, msg.data, len, r) /\ msg.file \in Files \cup {Free}
      /\ call.op # "readlink" => len <= 5
      /\ call.op = "readlink" => len = call.bufsize + 3
      /\ call.op # "openat" => msg.file = Free /\ want = Result(r, AnswerFile(types, msg.data, r))
      /\ call.op = "openat" /\ r < 0 => msg.file = Free /\ (r = EMFILE \/ want = Result(r, Free))
      /\ call.op = "openat" /\ r >= 0 => msg.file \in Files /\ want = Result(0, msg.file)
  BY <1>6, Zenon DEF Understood
<1>8. PICK rc, table, answer : /\ rc = Receives(rcvr, scoutFds, msg) /\ table = Installed(scoutFds, msg)
                               /\ answer = unpack(types, msg.data)
  OBVIOUS
<1>9. Lands(scoutFds, msg) => \E fd \in Fds : table[fd] = msg.file /\ rc = Receiver(1, fd)
  <2>1. ASSUME Lands(scoutFds, msg)
        PROVE  \E fd \in Fds : table[fd] = msg.file /\ rc = Receiver(1, fd)
    <3>1. PICK fd \in Fds : /\ Installed(scoutFds, msg) = [scoutFds EXCEPT ![fd] = msg.file]
                            /\ Receives(rcvr, scoutFds, msg) = Receiver(1, fd)
      BY <1>3, <1>7, <2>1, Received
    <3>. QED  BY <1>3, <1>8, <3>1 DEF Tables
  <2>. QED  BY <2>1
<1>10. (~ Lands(scoutFds, msg) => rc = rcvr) /\ table \in Tables
  BY <1>3, <1>7, <1>8, Received
<1>11. PICK file : file = IF answer[2] < 0 THEN Free
                          ELSE CASE call.op = "openat" -> table[rc.fd]
                                 [] call.op \in {"fstat", "stat", "lstat"} -> answer[3]
                                 [] call.op = "readlink" -> IF answer[2] > 0 THEN answer[3][1] ELSE call.path
                                 [] OTHER -> call.path
  OBVIOUS
<1>12. /\ scoutFds' = table /\ rcvr' = rc
       /\ dropped' = (dropped \/ (msg.file # Free /\ ~ Lands(scoutFds, msg)))
       /\ IF ReplyAccepted(msg, rc)
          THEN /\ pc' = "returned"
               /\ result' = Result(IF call.op = "openat" /\ answer[2] >= 0 THEN 0 ELSE answer[2], file)
          ELSE pc' = "aborted" /\ UNCHANGED result
       /\ reply' = Tail(reply)
       /\ carrierFds' = carrierFds /\ fs' = fs /\ request' = request /\ carrier' = carrier
       /\ call' = call /\ want' = want
  BY <1>2, <1>5, <1>8, <1>11, Zenon DEF TakeReply
<1>13. answer[2] = r
  BY <1>7, <1>8, Zenon DEF ReadsAs
<1>14. Len(msg.data) = len
  BY <1>7, Zenon DEF ReadsAs
<1>15. ReplyAccepted(msg, rc) <=> len <= data_buf_size /\ (call.op = "openat" /\ r >= 0 => rc.num = 1)
  BY <1>5, <1>7, <1>14, Zenon DEF ReplyAccepted, ReadsAs
<1>16. rc.num \in 0 .. 1 /\ rc.fd \in Fds
  <2>1. CASE Lands(scoutFds, msg)
    BY <1>9, <2>1 DEF Receiver
  <2>2. CASE ~ Lands(scoutFds, msg)
    BY <1>3, <1>10, <2>2
  <2>. QED  BY <2>1, <2>2
<1>17. call.op = "openat" /\ r >= 0 => Lands(scoutFds, msg) \/ dropped'
  <2>1. msg.file \in Files => msg.file # Free
    BY Numbers
  <2>. QED  BY <1>7, <1>12, <2>1, Zenon
<1>18. TypeOK'
  <2>1. Len(request') = 0 /\ Len(reply') = 0 /\ 0 <= QueueMax
    BY <1>1, <1>2, <1>12, BridgeAssumption
  <2>2. pc' \in {"returned", "aborted"} /\ dropped' \in BOOLEAN
    BY <1>12, Zenon
  <2>3. TypeOK
    BY DEF BridgeInv
  <2>4. scoutFds' \in [Fds -> Files \cup {Free}] /\ rcvr'.num \in 0 .. 1 /\ rcvr'.fd \in Fds
    BY <1>10, <1>12, <1>16 DEF Tables
  <2>. QED  BY <1>12, <2>1, <2>2, <2>3, <2>4 DEF TypeOK
<1>19. QueueOK' /\ ReplyOK' /\ AbortOK'
  <2>1. request' = <<>> /\ reply' = <<>> /\ carrier' = "loop"
    BY <1>1, <1>2, <1>4, <1>12
  <2>2. request' \in Seq(Datagrams) /\ Len(request') = 0 /\ QueueMax \in Nat
    BY <2>1, BridgeAssumption
  <2>3. QueueOK'
    BY <2>2 DEF QueueOK
  <2>. QED  BY <2>1, <2>3 DEF ReplyOK, AbortOK
<1>20. CASE ReplyAccepted(msg, rc)
  <2>1. pc' = "returned" /\ result' = Result(IF call.op = "openat" /\ r >= 0 THEN 0 ELSE r, file)
    BY <1>12, <1>13, <1>20, Zenon
  <2>2. CASE call.op # "openat"
    <3>1. file = AnswerFile(types, msg.data, r)
      <4>1. CASE r < 0
        BY <1>11, <1>13, <4>1 DEF AnswerFile
      <4>2. CASE ~ (r < 0)
        BY <1>8, <1>11, <1>13, <2>2, <4>2, Zenon DEF AnswerFile
      <4>. QED  BY <4>1, <4>2
    <3>2. result' = Result(r, file)
      BY <2>1, <2>2, Zenon
    <3>3. result' = want'
      BY <1>7, <1>12, <2>2, <3>1, <3>2, Zenon
    <3>. QED  BY <1>3, <1>12, <1>18, <1>19, <2>1, <3>3 DEF BridgeInv, CallOK, AnswerMatches
  <2>3. CASE call.op = "openat" /\ r < 0
    <3>1. file = Free
      BY <1>11, <1>13, <2>3
    <3>2. ~ (r >= 0)
      BY <2>3
    <3>3. result' = Result(r, Free)
      BY <2>1, <3>1, <3>2, Zenon
    <3>4. result'.r = EMFILE \/ result' = want'
      BY <1>7, <1>12, <2>3, <3>3 DEF Result
    <3>. QED  BY <1>3, <1>12, <1>18, <1>19, <2>1, <2>3, <3>4 DEF BridgeInv, CallOK, AnswerMatches
  <2>4. CASE call.op = "openat" /\ r >= 0
    <3>1. CASE Lands(scoutFds, msg)
      <4>1. table[rc.fd] = msg.file
        BY <1>9, <3>1 DEF Receiver
      <4>2. ~ (r < 0)
        BY <2>4
      <4>3. file = msg.file
        BY <1>11, <1>13, <2>4, <4>1, <4>2
      <4>4. result' = want'
        BY <1>7, <1>12, <2>1, <2>4, <4>3, Zenon
      <4>. QED  BY <1>3, <1>12, <1>18, <1>19, <2>1, <4>4 DEF BridgeInv, CallOK, AnswerMatches
    <3>2. CASE ~ Lands(scoutFds, msg)
      <4>1. dropped'
        BY <1>17, <2>4, <3>2, Zenon
      <4>. QED  BY <1>3, <1>12, <1>18, <1>19, <2>1, <2>4, <4>1 DEF BridgeInv, CallOK, AnswerMatches
    <3>. QED  BY <3>1, <3>2
  <2>. QED  BY <2>2, <2>3, <2>4
<1>21. CASE ~ ReplyAccepted(msg, rc)
  <2>1. pc' = "aborted"
    BY <1>12, <1>21, Zenon
  <2>2. PathsFit => dropped' \/ TooLong(call)
    <3>1. ASSUME PathsFit, ~ TooLong(call) PROVE dropped'
      <4>1. len <= data_buf_size
        <5>1. 5 <= data_buf_size /\ data_buf_size \in Nat
          BY <3>1, BridgeAssumption DEF PathsFit
        <5>2. CASE call.op # "readlink"
          BY <1>7, <5>1, <5>2
        <5>3. CASE call.op = "readlink"
          <6>1. call.bufsize \in Nat /\ len = call.bufsize + 3
            BY <1>3, <1>7, <5>3, CallKinds
          <6>2. ~ (call.bufsize + 3 > data_buf_size)
            BY <3>1, <5>3 DEF TooLong
          <6>. QED  BY <5>1, <6>1, <6>2
        <5>. QED  BY <5>2, <5>3
      <4>2. call.op = "openat" /\ r >= 0 /\ rc.num # 1
        BY <1>15, <1>21, <4>1, Zenon
      <4>3. ~ Lands(scoutFds, msg)
        BY <1>9, <4>2 DEF Receiver
      <4>. QED  BY <1>17, <4>2, <4>3, Zenon
    <3>. QED  BY <3>1
  <2>3. (PathsFit => dropped \/ TooLong(call))'
    BY <1>12, <2>2 DEF TooLong, PathsFit
  <2>. QED  BY <1>3, <1>12, <1>18, <1>19, <2>1, <2>3 DEF BridgeInv, CallOK, AnswerMatches
<1>. QED  BY <1>20, <1>21

-----------------------------------------------------------------------------
(* The steps of the Carrier.                                               *)

LEMMA OpenOp == Cmds[OpenMsg.data[2]] = "open" /\ OpenMsg.file = Free
<1>1. PICK c : c = OpenCall
  OBVIOUS
<1>2. c \in Calls /\ c.op = "open"
  BY <1>1 DEF Calls, OpenCall, Call
<1>3. PICK data : data = pack_size_prefix(Fields(c))
  OBVIOUS
<1>4. Cmds[data[2]] = c.op
  BY <1>2, <1>3, RequestRead
<1>5. OpenMsg.data = data /\ OpenMsg.file = Free
  BY <1>1, <1>3 DEF OpenMsg, Datagram
<1>. QED  BY <1>2, <1>4, <1>5, Zenon

\* A request whose command is not an open is that of the call under way.
Handling ==
    /\ request # <<>> /\ Tail(request) = <<>> /\ reply = <<>> /\ pc = "wait"
    /\ call \in Calls /\ Op = call.op /\ want = Wanted(call) /\ result = NoResult
    /\ Msg \in Datagrams
    /\ call.fd < 0 => Msg.file = Free
    /\ ~ (call.fd < 0) => call.fd \in Fds /\ Msg.file = scoutFds[call.fd] /\ Msg.file \in Files
    /\ Len(Msg.data) <= call.path + 7 /\ Len(Msg.data) \in Nat /\ Len(Msg.data) = Msg.data[1] + 1
    /\ ReadsRequest(call, Msg.data)

LEMMA IsHandling ==
    ASSUME BridgeInv, request # <<>>, Op # "open"
    PROVE  Handling
<1>1. /\ request \in Seq(Datagrams)
      /\ \A i \in 1 .. Len(request) : request[i] = OpenMsg \/ (i = Len(request) /\ Asked(request[i]))
  BY DEF BridgeInv, QueueOK
<1>2. Msg = request[1] /\ 1 \in 1 .. Len(request) /\ Len(request) \in Nat
  BY <1>1 DEF Msg
<1>3. Msg # OpenMsg
  BY OpenOp, Zenon DEF Op
<1>4. 1 = Len(request) /\ Asked(Msg)
  BY <1>1, <1>2, <1>3, Zenon
<1>5. Tail(request) = <<>>
  <2>1. Tail(request) \in Seq(Datagrams) /\ Len(Tail(request)) = Len(request) - 1
    BY <1>1, HeadTailProperties
  <2>2. Len(Tail(request)) = 0
    BY <1>4, <2>1
  <2>. QED  BY <2>1, <2>2, EmptySeq
<1>6. PICK msg : msg = Msg
  OBVIOUS
<1>7. /\ pc = "wait" /\ reply = <<>> /\ Sendable(scoutFds, call.fd)
      /\ msg = Sent(scoutFds, pack_size_prefix(Fields(call)), call.fd)
      /\ want = Wanted(call)
  BY <1>4, <1>6, Zenon DEF Asked
<1>8. call \in Calls /\ call.op # "open" /\ result = NoResult /\ scoutFds \in Tables
  BY <1>7, TypeParts DEF BridgeInv, CallOK
<1>9. /\ msg \in Datagrams /\ msg.data = pack_size_prefix(Fields(call))
      /\ call.fd < 0 => msg.file = Free
      /\ ~ (call.fd < 0) => call.fd \in Fds /\ msg.file = scoutFds[call.fd] /\ msg.file \in Files
  BY <1>7, <1>8, SentIs
<1>10. PICK data : data = msg.data
  OBVIOUS
<1>11. /\ Cmds[data[2]] = call.op /\ data \in Seq(Int) /\ Len(data) = data[1] + 1
       /\ Len(data) <= call.path + 7 /\ ReadsRequest(call, data)
  BY <1>8, <1>9, <1>10, RequestRead
<1>12. Len(data) \in Nat
  BY <1>11
<1>13. Op = call.op
  BY <1>6, <1>10, <1>11, Zenon DEF Op
<1>. QED  BY <1>5, <1>6, <1>7, <1>8, <1>9, <1>10, <1>11, <1>12, <1>13, Zenon DEF Handling

\* What the Carrier reads of it.
LEMMA RequestFields ==
    ASSUME Handling
    PROVE  /\ call.op \in {"openat", "fstat"} => Arg[1] = call.fd
           /\ call.op = "openat" => PathArg(2) = call.path
           /\ call.op \in {"access", "stat", "lstat", "unlink", "readlink"} => PathArg(1) = call.path
           /\ call.op = "readlink" => Arg[2] = call.bufsize
           /\ Accepted <=> /\ Len(Msg.data) <= data_buf_size
                           /\ call.op \in {"openat", "fstat"} => Rcvd.num = 1 \/ call.fd < 0
<1>1. PICK body : body = SubSeq(Msg.data, 3, Len(Msg.data))
  OBVIOUS
<1>2. PICK arg : arg = unpack(RequestTypes(call.op), body)
  OBVIOUS
<1>3. Op = call.op /\ ReadsRequest(call, Msg.data) /\ Len(Msg.data) = Msg.data[1] + 1
  BY Zenon DEF Handling
<1>4. Arg = arg
  BY <1>1, <1>2, <1>3, Zenon DEF Arg
<1>5. /\ check_completed(RequestTypes(call.op), body)
      /\ call.op \in {"openat", "fstat"} => arg[1] = call.fd
      /\ call.op = "openat" => arg[2][1] = call.path
      /\ call.op \in {"access", "stat", "lstat", "unlink", "readlink"} => arg[1][1] = call.path
      /\ call.op = "readlink" => arg[2] = call.bufsize
  BY <1>1, <1>2, <1>3, Zenon DEF ReadsRequest
<1>6. call.op \in {"openat", "fstat"} => Arg[1] = call.fd
  BY <1>4, <1>5, Zenon
<1>7. /\ call.op = "openat" => PathArg(2) = call.path
      /\ call.op \in {"access", "stat", "lstat", "unlink", "readlink"} => PathArg(1) = call.path
      /\ call.op = "readlink" => Arg[2] = call.bufsize
  BY <1>4, <1>5, Zenon DEF PathArg
<1>8. Accepted <=> /\ Len(Msg.data) <= data_buf_size
                   /\ call.op \in {"openat", "fstat"} => Rcvd.num = 1 \/ Arg[1] < 0
  BY <1>1, <1>3, <1>5, Zenon DEF Accepted
<1>9. call.op \in {"openat", "fstat"} => (Arg[1] < 0 <=> call.fd < 0)
  BY <1>6, Zenon
<1>. QED  BY <1>6, <1>7, <1>8, <1>9, Zenon

\* What every handler leaves.
LEMMA EndsStep ==
    ASSUME BridgeInv, Handling, NEW table \in Tables, Ends(table), fs' \subseteq Files
    PROVE  /\ request' = <<>> /\ pc' = "wait" /\ call' = call /\ want' = want
           /\ dropped' = (dropped \/ (Msg.file # Free /\ ~ Lands(carrierFds, Msg)))
           /\ carrierFds' = table
           /\ (Len(reply') <= 1 /\ carrier' \in {"loop", "aborted"}) => TypeOK'
           /\ QueueOK' /\ CallOK'
<1>1. /\ request' = Tail(request) /\ carrierFds' = table /\ scoutFds' = scoutFds /\ pc' = pc
      /\ rcvr' = rcvr /\ call' = call /\ result' = result /\ want' = want
      /\ dropped' = (dropped \/ (Msg.file # Free /\ ~ Lands(carrierFds, Msg)))
  BY DEF Ends
<1>2. /\ Tail(request) = <<>> /\ pc = "wait" /\ call \in Calls /\ result = NoResult
  BY Zenon DEF Handling
<1>3. request' = <<>> /\ pc' = "wait"
  BY <1>1, <1>2
<1>4. request' \in Seq(Datagrams) /\ Len(request') = 0 /\ QueueMax \in Nat
  BY <1>3, BridgeAssumption
<1>5. QueueOK'
  BY <1>4 DEF QueueOK
<1>6. call.op # "open"
  BY <1>2 DEF BridgeInv, CallOK
<1>7. CallOK'
  BY <1>1, <1>2, <1>3, <1>6 DEF CallOK, AnswerMatches
<1>8. dropped' \in BOOLEAN
  BY <1>1, Zenon
<1>9. ASSUME Len(reply') <= 1, carrier' \in {"loop", "aborted"} PROVE TypeOK'
  BY <1>1, <1>3, <1>4, <1>8, <1>9 DEF BridgeInv, TypeOK, Tables
<1>. QED  BY <1>1, <1>3, <1>5, <1>7, <1>9

\* A handler that answers, or whose answer cannot be sent.
LEMMA AnswerStep ==
    ASSUME BridgeInv, Handling, Ends(carrierFds), fs' \subseteq Files, carrier = "loop", carrier' = carrier,
           reply' = <<>> \/ \E msg : reply' = <<msg>> /\ AnswerOK(msg)
    PROVE  BridgeInv' /\ carrierFds' = carrierFds
<1>1. PICK table \in Tables : table = carrierFds
  BY TypeParts DEF BridgeInv
<1>2. Ends(table)
  BY <1>1
<1>3. /\ request' = <<>> /\ pc' = "wait" /\ call' = call /\ want' = want /\ carrierFds' = table
      /\ (Len(reply') <= 1 /\ carrier' \in {"loop", "aborted"}) => TypeOK'
      /\ QueueOK' /\ CallOK'
  BY <1>2, EndsStep
<1>4. Len(reply') <= 1
  <2>1. CASE reply' = <<>>
    BY <2>1
  <2>2. CASE \E msg : reply' = <<msg>> /\ AnswerOK(msg)
    BY <2>2
  <2>. QED  BY <2>1, <2>2
<1>5. TypeOK'
  BY <1>3, <1>4
<1>6. ReplyOK'
  <2>1. CASE reply' = <<>>
    BY <2>1 DEF ReplyOK
  <2>2. CASE \E msg : reply' = <<msg>> /\ AnswerOK(msg)
    <3>1. PICK msg : reply' = <<msg>> /\ AnswerOK(msg)
      BY <2>2
    <3>2. AnswerOK(msg)'
      BY <1>3, <3>1 DEF AnswerOK
    <3>. QED  BY <1>3, <3>1, <3>2, Zenon DEF ReplyOK
  <2>. QED  BY <2>1, <2>2
<1>7. AbortOK'
  BY DEF AbortOK
<1>. QED  BY <1>1, <1>3, <1>5, <1>6, <1>7 DEF BridgeInv

\* The requests of a path carry no descriptor.
LEMMA PathRequest ==
    ASSUME BridgeInv, request # <<>>, NEW ops, Op \in ops, ops \subseteq {"stat", "lstat", "access", "unlink", "readlink"}
    PROVE  /\ Handling /\ call.op \in ops /\ call.op = Op /\ reply = <<>>
           /\ call.path \in PathIds /\ PathArg(1) = call.path /\ call.bufsize \in Nat
           /\ Installed(carrierFds, Msg) = carrierFds
<1>1. Handling
  <2>1. Op # "open"
    OBVIOUS
  <2>. QED  BY <2>1, IsHandling
<1>2. /\ Op = call.op /\ call \in Calls /\ reply = <<>> /\ Msg \in Datagrams
      /\ call.fd < 0 => Msg.file = Free
  BY <1>1, Zenon DEF Handling
<1>3. call.op \in {"access", "stat", "lstat", "unlink", "readlink"}
  BY <1>2
<1>4. call.path \in PathIds /\ call.fd = -1 /\ call.bufsize \in Nat
  BY <1>2, <1>3, CallKinds
<1>5. Msg.file = Free
  BY <1>2, <1>4
<1>6. Installed(carrierFds, Msg) = carrierFds
  BY <1>5 DEF Installed, Lands
<1>7. PathArg(1) = call.path
  BY <1>1, <1>3, RequestFields
<1>. QED  BY <1>1, <1>2, <1>4, <1>6, <1>7

LEMMA FirstAnswer ==
    ASSUME reply = <<>>, NEW fields, Answers(fields)
    PROVE  reply' = <<Datagram(pack_size_prefix(fields), Free)>>
<1>1. PICK msg : msg = Datagram(pack_size_prefix(fields), Free)
  OBVIOUS
<1>2. reply' = Append(<<>>, msg)
  BY <1>1, Zenon DEF Answers
<1>3. Append(<<>>, msg) = <<msg>>
  OBVIOUS
<1>. QED  BY <1>1, <1>2, <1>3, Zenon

\* The result of a path, in its two cases.
LEMMA PathResults ==
    \A p, r : PathResult(p, r) = (IF p \in fs THEN Result(r, p) ELSE Result(-2, Free)) /\ ENOENT = -2
BY DEF PathResult, ENOENT

LEMMA ResultIs == \A r, file : Result(r, file).r = r /\ Result(r, file).file = file
BY DEF Result

LEMMA StatStep ==
    ASSUME BridgeInv, HandleStat
    PROVE  BridgeInv' /\ carrierFds' = carrierFds
<1>1. /\ carrier = "loop" /\ request # <<>> /\ Op \in {"stat", "lstat"}
      /\ Answers(StatFields(PathResult(PathArg(1), 0)))
      /\ Ends(Installed(carrierFds, Msg)) /\ fs' = fs /\ carrier' = carrier
  BY DEF HandleStat, Handles
<1>2. /\ Handling /\ call.op \in {"stat", "lstat"} /\ reply = <<>> /\ call.path \in PathIds
      /\ PathArg(1) = call.path /\ Installed(carrierFds, Msg) = carrierFds
  BY <1>1, PathRequest
<1>3. PICK res : res = PathResult(call.path, 0)
  OBVIOUS
<1>4. want = res
  <2>1. want = Wanted(call)
    BY <1>2, Zenon DEF Handling
  <2>. QED  BY <1>2, <1>3, <2>1 DEF Wanted, Unanswered
<1>5. PICK r \in Int, file \in Int : res = Result(r, file) /\ (r < 0 => file = Free)
  <2>1. call.path \in Int /\ Free \in Int /\ 0 \in Int /\ -2 \in Int
    <3>1. call.path \in Nat /\ Free = 0
      BY <1>2, Numbers
    <3>. QED  BY <3>1
  <2>2. CASE call.path \in fs
    BY <1>3, <2>1, <2>2, PathResults
  <2>3. CASE call.path \notin fs
    BY <1>3, <2>1, <2>3, PathResults
  <2>. QED  BY <2>2, <2>3
<1>6. StatFields(res) = <<Field(Word, r), Field(Struct, file)>>
  BY <1>5, ResultIs, Zenon DEF StatFields
<1>7. PICK msg : msg = Datagram(pack_size_prefix(<<Field(Word, r), Field(Struct, file)>>), Free)
  OBVIOUS
<1>8. reply' = <<msg>>
  BY <1>1, <1>2, <1>3, <1>6, <1>7, FirstAnswer, Zenon
<1>9. AnswerOK(msg)
  BY <1>2, <1>4, <1>5, <1>7, Zenon DEF AnswerOK
<1>10. fs' \subseteq Files
  BY <1>1, TypeParts DEF BridgeInv
<1>11. Ends(carrierFds)
  BY <1>1, <1>2, Zenon
<1>. QED  BY <1>1, <1>2, <1>8, <1>9, <1>10, <1>11, AnswerStep

LEMMA IntStep ==
    ASSUME BridgeInv, HandleAccess \/ HandleUnlink
    PROVE  BridgeInv' /\ carrierFds' = carrierFds
<1>1. /\ carrier = "loop" /\ request # <<>> /\ Op \in {"access", "unlink"}
      /\ Answers(<<Field(Word, PathResult(PathArg(1), 0).r)>>)
      /\ Ends(Installed(carrierFds, Msg)) /\ fs' \subseteq fs /\ carrier' = carrier
  BY DEF HandleAccess, HandleUnlink, Handles
<1>2. /\ Handling /\ call.op \in {"access", "unlink"} /\ reply = <<>> /\ call.path \in PathIds
      /\ PathArg(1) = call.path /\ Installed(carrierFds, Msg) = carrierFds
  BY <1>1, PathRequest
<1>3. PICK res : res = PathResult(call.path, 0)
  OBVIOUS
<1>4. want = res
  <2>1. want = Wanted(call)
    BY <1>2, Zenon DEF Handling
  <2>. QED  BY <1>2, <1>3, <2>1 DEF Wanted, Unanswered
<1>5. PICK r \in Int : res.r = r /\ res = Result(r, IF r < 0 THEN Free ELSE call.path)
  <2>1. 0 \in Int /\ -2 \in Int
    OBVIOUS
  <2>2. CASE call.path \in fs
    <3>1. res = Result(0, call.path)
      BY <1>3, <2>2, PathResults
    <3>2. (IF 0 < 0 THEN Free ELSE call.path) = call.path
      OBVIOUS
    <3>. QED  BY <2>1, <3>1, <3>2, ResultIs
  <2>3. CASE call.path \notin fs
    <3>1. res = Result(-2, Free)
      BY <1>3, <2>3, PathResults
    <3>2. (IF -2 < 0 THEN Free ELSE call.path) = Free
      OBVIOUS
    <3>. QED  BY <2>1, <3>1, <3>2, ResultIs
  <2>. QED  BY <2>2, <2>3
<1>6. PICK msg : msg = IntAnswer(r, Free)
  OBVIOUS
<1>7. reply' = <<msg>>
  <2>1. Answers(<<Field(Word, r)>>)
    BY <1>1, <1>2, <1>3, <1>5, Zenon
  <2>. QED  BY <1>2, <1>6, <2>1, FirstAnswer, Zenon DEF IntAnswer
<1>8. AnswerOK(msg)
  BY <1>2, <1>4, <1>5, <1>6, Zenon DEF AnswerOK
<1>9. fs' \subseteq Files
  BY <1>1, TypeParts DEF BridgeInv
<1>10. Ends(carrierFds)
  BY <1>1, <1>2, Zenon
<1>. QED  BY <1>1, <1>2, <1>7, <1>8, <1>9, <1>10, AnswerStep

LEMMA ReadlinkStep ==
    ASSUME BridgeInv, HandleReadlink
    PROVE  BridgeInv' /\ carrierFds' = carrierFds
<1>1. /\ carrier = "loop" /\ request # <<>> /\ Op \in {"readlink"}
      /\ LET bufsize == Arg[2]
             r == PathResult(PathArg(1), Least(PathArg(1), bufsize)).r
             buf == [k \in 1 .. bufsize |-> IF k <= r THEN PathArg(1) ELSE Terminator] IN
            Answers(<<Field(Word, r), Field(Buf(bufsize), buf)>>)
      /\ Ends(Installed(carrierFds, Msg)) /\ fs' = fs /\ carrier' = carrier
  BY DEF HandleReadlink, Handles
<1>2. /\ Handling /\ call.op = "readlink" /\ reply = <<>> /\ call.path \in PathIds /\ call.bufsize \in Nat
      /\ PathArg(1) = call.path /\ Installed(carrierFds, Msg) = carrierFds
  BY <1>1, PathRequest
<1>3. PICK size \in Nat, path \in Nat \ {0} : size = call.bufsize /\ path = call.path
  BY <1>2, Numbers
<1>4. Arg[2] = size /\ PathArg(1) = path
  BY <1>2, <1>3, RequestFields
<1>5. PICK res : res = PathResult(path, Least(path, size))
  OBVIOUS
<1>6. want = res
  <2>1. want = Wanted(call)
    BY <1>2, Zenon DEF Handling
  <2>. QED  BY <1>2, <1>3, <1>5, <2>1 DEF Wanted, Unanswered
<1>7. PICK r \in Int : /\ res.r = r /\ res = Result(r, IF r < 0 THEN Free ELSE path)
                       /\ r > 0 => size > 0
  <2>1. PICK least \in Nat : least = Least(path, size) /\ (least > 0 => size > 0)
    BY DEF Least
  <2>2. -2 \in Int /\ least \in Int /\ ~ (least < 0) /\ ~ (-2 > 0) /\ -2 < 0
    OBVIOUS
  <2>3. CASE path \in fs
    <3>1. res = Result(least, path)
      BY <1>5, <2>1, <2>3, PathResults
    <3>2. (IF least < 0 THEN Free ELSE path) = path
      BY <2>2
    <3>. QED  BY <2>1, <2>2, <3>1, <3>2, ResultIs
  <2>4. CASE path \notin fs
    <3>1. res = Result(-2, Free)
      BY <1>5, <2>4, PathResults
    <3>2. (IF -2 < 0 THEN Free ELSE path) = Free
      BY <2>2
    <3>. QED  BY <2>2, <3>1, <3>2, ResultIs
  <2>. QED  BY <2>3, <2>4
<1>8. PICK buf : buf = [k \in 1 .. size |-> IF k <= r THEN path ELSE Terminator]
  OBVIOUS
<1>9. buf \in [1 .. size -> Int]
  BY <1>8 DEF Terminator
<1>10. r > 0 => size > 0 /\ buf[1] = path
  BY <1>7, <1>8
<1>11. PICK msg : msg = Datagram(pack_size_prefix(<<Field(Word, r), Field(Buf(size), buf)>>), Free)
  OBVIOUS
<1>12. reply' = <<msg>>
  <2>1. Answers(<<Field(Word, r), Field(Buf(size), buf)>>)
    BY <1>1, <1>4, <1>5, <1>7, <1>8, Zenon
  <2>. QED  BY <1>2, <1>11, <2>1, FirstAnswer, Zenon
<1>13. AnswerOK(msg)
  <2>1. \E b \in [1 .. call.bufsize -> Int] :
            /\ msg = Datagram(pack_size_prefix(<<Field(Word, r), Field(Buf(call.bufsize), b)>>), Free)
            /\ want = Result(r, IF r < 0 THEN Free ELSE call.path)
            /\ r > 0 => call.bufsize > 0 /\ b[1] = call.path
    BY <1>3, <1>6, <1>7, <1>9, <1>10, <1>11, Zenon
  <2>. QED  BY <1>2, <2>1, Zenon DEF AnswerOK
<1>14. fs' \subseteq Files
  BY <1>1, TypeParts DEF BridgeInv
<1>15. Ends(carrierFds)
  BY <1>1, <1>2, Zenon
<1>. QED  BY <1>1, <1>2, <1>12, <1>13, <1>14, <1>15, AnswerStep

LEMMA AbortStep ==
    ASSUME BridgeInv, HandleAborts
    PROVE  BridgeInv' /\ carrier' # "loop"
<1>1. /\ request # <<>>
      /\ Op \in {"openat", "access", "fstat", "stat", "lstat", "readlink", "unlink"} /\ ~ Accepted
      /\ carrier' = "aborted" /\ Ends(Installed(carrierFds, Msg)) /\ fs' = fs /\ reply' = reply
  BY DEF HandleAborts, Handles
<1>2. Handling
  <2>1. Op # "open"
    BY <1>1
  <2>. QED  BY <1>1, <2>1, IsHandling
<1>3. PICK msg : msg = Msg
  OBVIOUS
<1>4. /\ call \in Calls /\ reply = <<>> /\ msg \in Datagrams
      /\ ~ (call.fd < 0) => msg.file \in Files
      /\ Len(msg.data) <= call.path + 7 /\ Len(msg.data) \in Nat
  BY <1>2, <1>3, Zenon DEF Handling
<1>5. carrierFds \in Tables /\ fs \subseteq Files
  BY TypeParts DEF BridgeInv
<1>6. msg.file \in Files \cup {Free}
  BY <1>4 DEF Datagrams
<1>7. PICK table \in Tables : table = Installed(carrierFds, msg)
  BY <1>5, <1>6, Received
<1>8. Ends(table)
  BY <1>1, <1>3, <1>7, Zenon
<1>9. /\ request' = <<>> /\ pc' = "wait"
      /\ dropped' = (dropped \/ (msg.file # Free /\ ~ Lands(carrierFds, msg)))
      /\ (Len(reply') <= 1 /\ carrier' \in {"loop", "aborted"}) => TypeOK'
      /\ QueueOK' /\ CallOK'
  <2>1. fs' \subseteq Files
    BY <1>1, <1>5
  <2>. QED  BY <1>2, <1>3, <1>8, <2>1, EndsStep
<1>10. reply' = <<>> /\ Len(reply') <= 1
  BY <1>1, <1>4
<1>11. TypeOK' /\ ReplyOK'
  BY <1>1, <1>9, <1>10 DEF ReplyOK
<1>12. PathsFit => dropped'
  <2>1. ASSUME PathsFit PROVE dropped'
    <3>1. Len(msg.data) <= data_buf_size
      <4>1. call.path \in 1 .. NPaths
        BY <1>4, CallKinds DEF PathIds
      <4>. QED  BY <1>4, <2>1, <4>1, BridgeAssumption DEF PathsFit
    <3>2. Rcvd.num # 1 /\ ~ (call.fd < 0)
      BY <1>1, <1>2, <1>3, <3>1, RequestFields, Zenon
    <3>3. ~ Lands(carrierFds, msg)
      <4>1. ASSUME Lands(carrierFds, msg) PROVE FALSE
        <5>1. PICK fd \in Fds : Receives(NewReceiver, carrierFds, msg) = Receiver(1, fd)
          BY <1>5, <1>6, <4>1, Received
        <5>2. Rcvd = Receiver(1, fd)
          BY <1>3, <5>1, Zenon DEF Rcvd
        <5>. QED  BY <3>2, <5>2 DEF Receiver
      <4>. QED  BY <4>1
    <3>4. msg.file # Free
      BY <1>4, <3>2, Numbers
    <3>. QED  BY <1>9, <3>3, <3>4, Zenon
  <2>. QED  BY <2>1
<1>13. AbortOK'
  BY <1>9, <1>10, <1>12 DEF AbortOK, PathsFit
<1>. QED  BY <1>1, <1>9, <1>11, <1>13 DEF BridgeInv

LEMMA UnknownStep ==
    ASSUME BridgeInv, HandleUnknown
    PROVE  BridgeInv' /\ carrierFds' = carrierFds
<1>1. /\ carrier = "loop" /\ request # <<>> /\ Op = "open"
      /\ Ends(Installed(carrierFds, Msg)) /\ fs' = fs /\ reply' = reply /\ carrier' = carrier
  BY DEF HandleUnknown, Handles, Unanswered
<1>2. /\ request \in Seq(Datagrams) /\ Len(request) <= QueueMax
      /\ \A i \in 1 .. Len(request) : request[i] = OpenMsg \/ (i = Len(request) /\ Asked(request[i]))
  BY DEF BridgeInv, QueueOK
<1>3. Msg = request[1] /\ 1 \in 1 .. Len(request) /\ Len(request) \in Nat
  BY <1>1, <1>2 DEF Msg
<1>4. Msg = OpenMsg
  <2>1. ASSUME Msg # OpenMsg PROVE FALSE
    <3>1. PICK msg : msg = Msg
      OBVIOUS
    <3>2. Asked(msg)
      BY <1>2, <1>3, <2>1, <3>1, Zenon
    <3>3. /\ pc = "wait" /\ Sendable(scoutFds, call.fd)
          /\ msg = Sent(scoutFds, pack_size_prefix(Fields(call)), call.fd)
      BY <3>2, Zenon DEF Asked
    <3>4. call \in Calls /\ call.op # "open" /\ scoutFds \in Tables
      BY <3>3, TypeParts DEF BridgeInv, CallOK
    <3>5. msg.data = pack_size_prefix(Fields(call))
      BY <3>3, <3>4, SentIs
    <3>6. PICK data : data = msg.data
      OBVIOUS
    <3>7. Cmds[data[2]] = call.op
      BY <3>4, <3>5, <3>6, RequestRead
    <3>. QED  BY <1>1, <3>1, <3>4, <3>6, <3>7, Zenon DEF Op
  <2>. QED  BY <2>1
<1>5. Msg.file = Free
  BY <1>4, OpenOp, Zenon
<1>6. Installed(carrierFds, Msg) = carrierFds
  BY <1>5 DEF Installed, Lands
<1>7. /\ carrierFds' = carrierFds /\ request' = Tail(request) /\ scoutFds' = scoutFds /\ pc' = pc
      /\ rcvr' = rcvr /\ call' = call /\ result' = result /\ want' = want /\ dropped' = dropped
  <2>1. dropped \in BOOLEAN
    BY TypeParts DEF BridgeInv
  <2>. QED  BY <1>1, <1>5, <1>6, <2>1 DEF Ends
<1>8. reply = <<>>
  BY <1>1 DEF BridgeInv, ReplyOK
<1>9. /\ request' \in Seq(Datagrams) /\ Len(request') = Len(request) - 1
      /\ \A i \in 1 .. Len(request') : request'[i] = request[i + 1]
  BY <1>1, <1>2, <1>7, HeadTailProperties
<1>10. ASSUME NEW i \in 1 .. Len(request')
       PROVE  (request[i] = OpenMsg \/ (i = Len(request) /\ Asked(request[i])))'
  <2>1. PICK msg : msg = request[i + 1]
    OBVIOUS
  <2>2. i + 1 \in 1 .. Len(request) /\ request'[i] = msg
    BY <1>3, <1>9, <2>1
  <2>3. msg = OpenMsg \/ (i + 1 = Len(request) /\ Asked(msg))
    BY <1>2, <2>1, <2>2
  <2>4. Asked(msg) => Asked(msg)'
    <3>1. ASSUME Asked(msg) PROVE Asked(msg)'
      <4>1. Wanted(call)' = Wanted(call)
        BY <1>1, <1>7 DEF Wanted, OpenError, PathResult
      <4>. QED  BY <1>1, <1>7, <3>1, <4>1 DEF Asked, Sendable, Sent
    <3>. QED  BY <3>1
  <2>5. i + 1 = Len(request) => i = Len(request')
    BY <1>3, <1>9
  <2>6. (request[i] = OpenMsg)' \/ (i = Len(request') /\ Asked(msg)')
    BY <2>2, <2>3, <2>4, <2>5, Zenon
  <2>. QED  BY <2>2, <2>6 DEF Asked
<1>11. Len(request') <= QueueMax
  BY <1>2, <1>3, <1>9, BridgeAssumption
<1>12. QueueOK'
  BY <1>9, <1>10, <1>11 DEF QueueOK
<1>13. TypeOK'
  BY <1>1, <1>7, <1>11 DEF BridgeInv, TypeOK
<1>14. ReplyOK' /\ AbortOK' /\ CallOK'
  BY <1>1, <1>7, <1>8 DEF BridgeInv, ReplyOK, AbortOK, CallOK, AnswerMatches, TooLong, PathsFit
<1>. QED  BY <1>7, <1>12, <1>13, <1>14 DEF BridgeInv

\* The Carrier's table with the file of the call's descriptor at fd, which was free;
\* or the call has none.
Borrowed(table, fd, file) ==
    \/ fd = -1 /\ table = carrierFds /\ file = Free
    \/ fd \in Fds /\ carrierFds[fd] = Free /\ file \in Files /\ table = [carrierFds EXCEPT ![fd] = file]

FileOfCall == IF call.fd \in Fds THEN scoutFds[call.fd] ELSE Free

LEMMA FdRequest ==
    ASSUME BridgeInv, request # <<>>, Op \in {"openat", "fstat"}, Accepted
    PROVE  /\ Handling /\ call.op = Op /\ reply = <<>> /\ want = Wanted(call) /\ call \in Calls
           /\ Borrowed(Installed(carrierFds, Msg), IF Arg[1] >= 0 THEN Rcvd.fd ELSE Arg[1], FileOfCall)
<1>1. Handling
  <2>1. Op # "open"
    OBVIOUS
  <2>. QED  BY <2>1, IsHandling
<1>2. PICK msg : msg = Msg
  OBVIOUS
<1>3. /\ Op = call.op /\ call \in Calls /\ reply = <<>> /\ want = Wanted(call) /\ msg \in Datagrams
      /\ call.fd < 0 => msg.file = Free
      /\ ~ (call.fd < 0) => call.fd \in Fds /\ msg.file = scoutFds[call.fd] /\ msg.file \in Files
  BY <1>1, <1>2, Zenon DEF Handling
<1>4. PICK d : d = call.fd /\ (d = -1 \/ (d \in Fds /\ d \in Nat)) /\ -1 \notin Fds
  <2>1. call.fd \in Fds \cup {-1}
    BY <1>3, CallKinds
  <2>2. Fds \subseteq Nat /\ -1 \notin Nat
    BY Numbers
  <2>. QED  BY <2>1, <2>2, Zenon
<1>5. carrierFds \in Tables
  BY TypeParts DEF BridgeInv
<1>6. Arg[1] = call.fd /\ (Rcvd.num = 1 \/ call.fd < 0)
  BY <1>1, <1>3, RequestFields, Zenon
<1>7. PICK fd : fd = IF Arg[1] >= 0 THEN Rcvd.fd ELSE Arg[1]
  OBVIOUS
<1>8. CASE call.fd < 0
  <2>0. d < 0
    BY <1>4, <1>8, Zenon
  <2>1. d = -1 /\ d \notin Fds /\ ~ (d >= 0)
    BY <1>4, <2>0
  <2>2. fd = -1
    BY <1>4, <1>6, <1>7, <2>1, Zenon
  <2>3. Installed(carrierFds, msg) = carrierFds
    BY <1>3, <1>8 DEF Installed, Lands
  <2>4. FileOfCall = Free
    BY <1>4, <2>1, Zenon DEF FileOfCall
  <2>5. Borrowed(Installed(carrierFds, msg), fd, FileOfCall)
    BY <2>2, <2>3, <2>4, Zenon DEF Borrowed
  <2>. QED  BY <1>1, <1>2, <1>3, <1>7, <2>5, Zenon
<1>9. CASE ~ (call.fd < 0)
  <2>0. ~ (d < 0)
    BY <1>4, <1>9, Zenon
  <2>01. d \in Fds /\ d >= 0
    BY <1>4, <2>0
  <2>1. call.fd \in Fds /\ call.fd >= 0
    BY <1>4, <2>01, Zenon
  <2>2. FileOfCall = msg.file /\ msg.file \in Files
    BY <1>3, <1>9, <2>1 DEF FileOfCall
  <2>3. fd = Rcvd.fd
    BY <1>6, <1>7, <2>1, Zenon
  <2>4. Rcvd = Receives(NewReceiver, carrierFds, msg)
    BY <1>2, Zenon DEF Rcvd
  <2>5. Lands(carrierFds, msg)
    <3>1. ASSUME ~ Lands(carrierFds, msg) PROVE FALSE
      <4>1. Rcvd = NewReceiver
        BY <2>4, <3>1, Zenon DEF Receives
      <4>. QED  BY <1>6, <1>9, <4>1 DEF NewReceiver, Receiver
    <3>. QED  BY <3>1
  <2>6. PICK k \in Fds : /\ carrierFds[k] = Free
                         /\ Installed(carrierFds, msg) = [carrierFds EXCEPT ![k] = msg.file]
                         /\ Receives(NewReceiver, carrierFds, msg) = Receiver(1, k)
    BY <1>5, <2>2, <2>5, Received
  <2>7. fd = k
    BY <2>3, <2>4, <2>6 DEF Receiver
  <2>8. Borrowed(Installed(carrierFds, msg), fd, FileOfCall)
    BY <2>2, <2>6, <2>7, Zenon DEF Borrowed
  <2>. QED  BY <1>1, <1>2, <1>3, <1>7, <2>8, Zenon
<1>. QED  BY <1>8, <1>9

\* To close what was borrowed restores the table.
LEMMA GivenBack ==
    ASSUME carrierFds \in Tables, NEW table, NEW fd, NEW file, Borrowed(table, fd, file)
    PROVE  Closed(table, fd) = carrierFds /\ (fd >= 0 => table[fd] = file) /\ (~ (fd >= 0) => file = Free)
           /\ table \in Tables /\ fd \in Fds \cup {-1}
<1>1. Fds \subseteq Nat
  BY Numbers
<1>2. CASE fd = -1 /\ table = carrierFds /\ file = Free
  <2>1. fd \notin Fds /\ ~ (fd >= 0)
    BY <1>1, <1>2
  <2>. QED  BY <1>2, <2>1 DEF Closed
<1>3. CASE fd \in Fds /\ carrierFds[fd] = Free /\ file \in Files /\ table = [carrierFds EXCEPT ![fd] = file]
  <2>1. fd >= 0
    BY <1>1, <1>3
  <2>2. table \in Tables /\ table[fd] = file
    BY <1>3 DEF Tables
  <2>3. [table EXCEPT ![fd] = Free] = carrierFds
    BY <1>3 DEF Tables
  <2>. QED  BY <1>3, <2>1, <2>2, <2>3 DEF Closed
<1>. QED  BY <1>2, <1>3 DEF Borrowed

LEMMA FstatStep ==
    ASSUME BridgeInv, HandleFstat
    PROVE  BridgeInv' /\ carrierFds' = carrierFds
<1>1. carrier = "loop" /\ request # <<>> /\ Op = "fstat" /\ Accepted /\ fs' = fs /\ carrier' = carrier
  BY DEF HandleFstat, Handles
<1>2. PICK table, fd, file : /\ table = Installed(carrierFds, Msg)
                             /\ fd = IF Arg[1] >= 0 THEN Rcvd.fd ELSE Arg[1]
                             /\ file = IF fd >= 0 THEN table[fd] ELSE Free
  OBVIOUS
<1>3. PICK res : res = IF file = Free THEN Result(EBADF, Free) ELSE Result(0, file)
  OBVIOUS
<1>4. Answers(StatFields(res)) /\ Ends(Closed(table, fd))
  BY <1>2, <1>3, Zenon DEF HandleFstat
<1>5. /\ Handling /\ call.op = "fstat" /\ reply = <<>> /\ want = Wanted(call) /\ call \in Calls
      /\ Borrowed(table, fd, FileOfCall)
  BY <1>1, <1>2, FdRequest, Zenon
<1>6. carrierFds \in Tables /\ fs \subseteq Files
  BY TypeParts DEF BridgeInv
<1>7. /\ Closed(table, fd) = carrierFds /\ (fd >= 0 => table[fd] = FileOfCall)
      /\ ~ (fd >= 0) => FileOfCall = Free
  BY <1>5, <1>6, GivenBack
<1>8. file = FileOfCall
  BY <1>2, <1>7, Zenon
<1>9. want = res
  BY <1>3, <1>5, <1>8 DEF Wanted, Unanswered, FileOfCall
<1>10. file \in Int
  <2>1. file \in Files \cup {Free}
    BY <1>5, <1>8 DEF Borrowed
  <2>. QED  BY <2>1, Numbers
<1>11. PICK r \in Int, f \in Int : res = Result(r, f) /\ (r < 0 => f = Free)
  <2>1. EBADF \in Int /\ 0 \in Int /\ Free \in Int /\ ~ (0 < 0)
    BY DEF EBADF, Free
  <2>2. CASE file = Free
    BY <1>3, <2>1, <2>2
  <2>3. CASE file # Free
    BY <1>3, <1>10, <2>1, <2>3
  <2>. QED  BY <2>2, <2>3
<1>12. StatFields(res) = <<Field(Word, r), Field(Struct, f)>>
  BY <1>11, ResultIs, Zenon DEF StatFields
<1>13. PICK msg : msg = Datagram(pack_size_prefix(<<Field(Word, r), Field(Struct, f)>>), Free)
  OBVIOUS
<1>14. reply' = <<msg>>
  BY <1>4, <1>5, <1>12, <1>13, FirstAnswer, Zenon
<1>15. AnswerOK(msg)
  BY <1>5, <1>9, <1>11, <1>13, Zenon DEF AnswerOK
<1>16. fs' \subseteq Files /\ Ends(carrierFds)
  BY <1>1, <1>4, <1>6, <1>7, Zenon
<1>. QED  BY <1>1, <1>5, <1>14, <1>15, <1>16, AnswerStep

LEMMA OpenatStep ==
    ASSUME BridgeInv, HandleOpenat
    PROVE  BridgeInv' /\ carrierFds' = carrierFds
<1>1. carrier = "loop" /\ request # <<>> /\ Op = "openat" /\ Accepted /\ fs' = fs /\ carrier' = carrier
  BY DEF HandleOpenat, Handles
<1>2. PICK table, dirfd : /\ table = Installed(carrierFds, Msg)
                          /\ dirfd = IF Arg[1] >= 0 THEN Rcvd.fd ELSE Arg[1]
  OBVIOUS
<1>3. PICK dir : dir = IF dirfd >= 0 THEN table[dirfd] ELSE Free
  OBVIOUS
<1>4. /\ Handling /\ call.op = "openat" /\ reply = <<>> /\ want = Wanted(call) /\ call \in Calls
      /\ Borrowed(table, dirfd, FileOfCall)
  BY <1>1, <1>2, FdRequest, Zenon
<1>5. carrierFds \in Tables /\ fs \subseteq Files
  BY TypeParts DEF BridgeInv
<1>6. /\ Closed(table, dirfd) = carrierFds /\ (dirfd >= 0 => table[dirfd] = FileOfCall)
      /\ ~ (dirfd >= 0) => FileOfCall = Free
      /\ table \in Tables /\ dirfd \in Fds \cup {-1}
  BY <1>4, <1>5, GivenBack
<1>7. dir = FileOfCall
  BY <1>3, <1>6, Zenon
<1>8. PICK path : path = call.path /\ path = PathArg(2)
  BY <1>4, RequestFields, Zenon
<1>9. PICK err : err = IF FreeFds(table) = {} THEN EMFILE ELSE OpenError(dir, path)
  OBVIOUS
<1>10. PICK fd : fd = IF err < 0 THEN err ELSE Lowest(FreeFds(table))
  OBVIOUS
<1>11. PICK opened : opened = IF err < 0 THEN table ELSE [table EXCEPT ![fd] = OpenedFile(dir, path)]
  OBVIOUS
<1>12. PICK kept : kept = Closed(opened, dirfd)
  OBVIOUS
<1>13. /\ reply' = IF Sendable(kept, fd)
                   THEN Append(reply, Sent(kept, pack_size_prefix(<<Field(Word, fd)>>), fd))
                   ELSE reply
       /\ Ends(Closed(kept, fd))
  BY <1>2, <1>3, <1>8, <1>9, <1>10, <1>11, <1>12, Zenon DEF HandleOpenat
<1>14. OpenError(dir, path) \in {ENOTDIR, ENOENT, 0}
  BY DEF OpenError
<1>15. err \in {-24, -20, -2, 0}
  BY <1>9, <1>14 DEF EMFILE, ENOTDIR, ENOENT
<1>16. fs' \subseteq Files
  BY <1>1, <1>5
<1>17. Fds \subseteq Nat /\ Free = 0 /\ Free \notin Files
  BY Numbers
<1>18. want = IF OpenError(dir, path) < 0 THEN Result(OpenError(dir, path), Free)
              ELSE Result(0, OpenedFile(dir, path))
  BY <1>4, <1>7, <1>8 DEF Wanted, Unanswered, FileOfCall
<1>19. CASE err < 0
  <2>1. fd = err /\ opened = table /\ kept = carrierFds
    BY <1>6, <1>10, <1>11, <1>12, <1>19, Zenon
  <2>2. PICK r \in Int : r = fd /\ r < 0 /\ r \notin Fds
    <3>1. err \in Int /\ err \notin Nat
      BY <1>15, <1>19
    <3>. QED  BY <1>17, <1>19, <2>1, <3>1, Zenon
  <2>3. Closed(kept, fd) = carrierFds
    BY <2>1, <2>2 DEF Closed
  <2>4. PICK msg : msg = IntAnswer(r, Free)
    OBVIOUS
  <2>5. reply' = <<msg>>
    <3>1. Sendable(kept, fd)
      BY <2>2, Zenon DEF Sendable
    <3>2. Sent(kept, pack_size_prefix(<<Field(Word, fd)>>), fd) = msg
      BY <2>2, <2>4, Zenon DEF Sent, IntAnswer
    <3>3. reply' = Append(<<>>, msg)
      BY <1>4, <1>13, <3>1, <3>2, Zenon
    <3>4. Append(<<>>, msg) = <<msg>>
      OBVIOUS
    <3>. QED  BY <3>3, <3>4, Zenon
  <2>6. r = EMFILE \/ want = Result(r, Free)
    <3>1. CASE FreeFds(table) = {}
      BY <1>9, <2>1, <2>2, <3>1, Zenon
    <3>2. CASE FreeFds(table) # {}
      BY <1>9, <1>18, <1>19, <2>1, <2>2, <3>2, Zenon
    <3>. QED  BY <3>1, <3>2
  <2>7. AnswerOK(msg)
    BY <1>4, <2>2, <2>4, <2>6, Zenon DEF AnswerOK
  <2>8. Ends(carrierFds)
    BY <1>13, <2>3, Zenon
  <2>. QED  BY <1>1, <1>4, <1>16, <2>5, <2>7, <2>8, AnswerStep
<1>20. CASE ~ (err < 0)
  <2>1. FreeFds(table) # {} /\ OpenError(dir, path) = 0
    <3>1. FreeFds(table) # {}
      BY <1>9, <1>20 DEF EMFILE
    <3>2. err = 0 /\ err = OpenError(dir, path)
      BY <1>9, <1>15, <1>20, <3>1
    <3>. QED  BY <3>1, <3>2
  <2>2. PICK file : file = OpenedFile(dir, path)
    OBVIOUS
  <2>3. file \in Files
    <3>1. file \in fs
      BY <2>1, <2>2 DEF OpenError, ENOTDIR, ENOENT
    <3>. QED  BY <1>5, <3>1
  <2>4. want = Result(0, file)
    BY <1>18, <2>1, <2>2
  <2>5. fd \in Fds /\ table[fd] = Free
    <3>1. fd = Lowest(FreeFds(table)) /\ FreeFds(table) \subseteq Fds
      BY <1>10, <1>20 DEF FreeFds
    <3>2. fd \in FreeFds(table)
      BY <2>1, <3>1, LowestIs
    <3>. QED  BY <3>2 DEF FreeFds
  <2>6. opened = [table EXCEPT ![fd] = file]
    BY <1>11, <1>20, <2>2, Zenon
  <2>7. kept[fd] = file /\ Closed(kept, fd) = carrierFds
    <3>1. CASE dirfd = -1 /\ table = carrierFds
      <4>1. kept = opened
        <5>1. dirfd \notin Fds
          BY <1>17, <3>1
        <5>. QED  BY <1>12, <5>1, Zenon DEF Closed
      <4>. QED  BY <1>5, <2>5, <2>6, <3>1, <4>1 DEF Closed, Tables
    <3>2. CASE /\ dirfd \in Fds /\ carrierFds[dirfd] = Free /\ FileOfCall \in Files
               /\ table = [carrierFds EXCEPT ![dirfd] = FileOfCall]
      <4>1. fd # dirfd
        BY <1>5, <1>17, <2>5, <3>2 DEF Tables
      <4>2. kept = [opened EXCEPT ![dirfd] = Free]
        BY <1>12, <3>2, Zenon DEF Closed
      <4>3. kept[fd] = file
        BY <1>6, <2>5, <2>6, <4>1, <4>2 DEF Tables
      <4>4. [kept EXCEPT ![fd] = Free] = carrierFds
        BY <1>5, <2>5, <2>6, <3>2, <4>1, <4>2 DEF Tables
      <4>5. Closed(kept, fd) = [kept EXCEPT ![fd] = Free]
        BY <2>5, Zenon DEF Closed
      <4>. QED  BY <4>3, <4>4, <4>5, Zenon
    <3>. QED  BY <1>4, <3>1, <3>2, Zenon DEF Borrowed
  <2>8. Ends(carrierFds)
    BY <1>13, <2>7, Zenon
  <2>9. CASE ~ Sendable(kept, fd)
    <3>1. reply' = <<>>
      BY <1>4, <1>13, <2>9, Zenon
    <3>. QED  BY <1>1, <1>4, <1>16, <2>8, <3>1, AnswerStep
  <2>10. CASE Sendable(kept, fd)
    <3>1. PICK r \in Int : r = fd /\ r >= 0 /\ ~ (r < 0)
      BY <1>17, <2>5
    <3>2. WireFd(fd) = fd
      <4>1. WireFd(fd) \in Fds
        BY <2>10, <3>1, Zenon DEF Sendable
      <4>2. -1 \notin Fds
        BY <1>17
      <4>. QED  BY <4>1, <4>2, Zenon DEF WireFd
    <3>3. PICK msg : msg = IntAnswer(r, file)
      OBVIOUS
    <3>4. Sent(kept, pack_size_prefix(<<Field(Word, fd)>>), fd) = msg
      BY <2>7, <3>1, <3>2, <3>3, Zenon DEF Sent, IntAnswer
    <3>5. reply' = Append(<<>>, msg)
      BY <1>4, <1>13, <2>10, <3>4, Zenon
    <3>6. Append(<<>>, msg) = <<msg>>
      OBVIOUS
    <3>7. AnswerOK(msg)
      BY <1>4, <2>3, <2>4, <3>1, <3>3, Zenon DEF AnswerOK
    <3>8. reply' = <<msg>>
      BY <3>5, <3>6, Zenon
    <3>. QED  BY <1>1, <1>4, <1>16, <2>8, <3>7, <3>8, AnswerStep
  <2>. QED  BY <2>9, <2>10
<1>. QED  BY <1>19, <1>20

-----------------------------------------------------------------------------
(* The theorems.                                                           *)

LEMMA BridgeStep ==
    ASSUME BridgeInv, [Next]_vars
    PROVE  BridgeInv' /\ (carrier' = "loop" => carrierFds' = carrierFds)
<1>1. CASE UNCHANGED vars
  <2>1. /\ scoutFds' = scoutFds /\ carrierFds' = carrierFds /\ fs' = fs /\ request' = request
        /\ reply' = reply /\ pc' = pc /\ carrier' = carrier /\ rcvr' = rcvr /\ call' = call
        /\ result' = result /\ want' = want /\ dropped' = dropped
    BY <1>1 DEF vars
  <2>2. TypeOK' /\ CallOK' /\ AbortOK'
    BY <2>1 DEF BridgeInv, TypeOK, CallOK, AbortOK, AnswerMatches, TooLong, PathsFit
  <2>3. \A msg : AnswerOK(msg)' <=> AnswerOK(msg)
    BY <2>1 DEF AnswerOK
  <2>4. ReplyOK'
    BY <2>1, <2>3 DEF BridgeInv, ReplyOK
  <2>5. \A msg : Asked(msg) => Asked(msg)'
    <3>1. Wanted(call)' = Wanted(call)
      BY <2>1 DEF Wanted, OpenError, PathResult
    <3>. QED  BY <2>1, <3>1 DEF Asked, Sendable, Sent
  <2>6. QueueOK'
    <3>1. /\ request \in Seq(Datagrams) /\ Len(request) <= QueueMax
          /\ \A i \in 1 .. Len(request) : request[i] = OpenMsg \/ (i = Len(request) /\ Asked(request[i]))
      BY DEF BridgeInv, QueueOK
    <3>2. ASSUME NEW i \in 1 .. Len(request')
          PROVE  (request[i] = OpenMsg \/ (i = Len(request) /\ Asked(request[i])))'
      <4>1. PICK msg : msg = request[i]
        OBVIOUS
      <4>2. msg = OpenMsg \/ (i = Len(request) /\ Asked(msg)')
        BY <2>1, <2>5, <3>1, <3>2, <4>1
      <4>. QED  BY <2>1, <4>1, <4>2 DEF Asked
    <3>. QED  BY <2>1, <3>1, <3>2 DEF QueueOK
  <2>. QED  BY <2>1, <2>2, <2>4, <2>6 DEF BridgeInv
<1>2. CASE \E c \in Calls : SendCall(c)
  <2>1. PICK c \in Calls : SendCall(c)
    BY <1>2
  <2>2. carrierFds' = carrierFds
    BY <2>1 DEF SendCall
  <2>. QED  BY <2>1, <2>2, SendStep
<1>3. CASE TakeReply
  <2>1. carrierFds' = carrierFds
    BY <1>3 DEF TakeReply
  <2>. QED  BY <1>3, <2>1, TakeStep
<1>4. CASE Return
  <2>1. carrierFds' = carrierFds
    BY <1>4 DEF Return
  <2>. QED  BY <1>4, <2>1, ReturnStep
<1>5. CASE \E fd \in Fds : Close(fd) \/ send_dup(fd)
  <2>1. PICK fd \in Fds : Close(fd) \/ send_dup(fd)
    BY <1>5
  <2>2. carrierFds' = carrierFds
    BY <2>1 DEF Close, send_dup, notFds
  <2>. QED  BY <2>1, <2>2, DescriptorSteps
<1>6. CASE \E old, new \in Fds : send_dup2(old, new)
  <2>1. PICK old \in Fds, new \in Fds : send_dup2(old, new)
    BY <1>6
  <2>2. carrierFds' = carrierFds
    BY <2>1 DEF send_dup2, notFds
  <2>. QED  BY <2>1, <2>2, DescriptorSteps
<1>7. CASE CarrierStep
  <2>1. HandleAborts => BridgeInv' /\ carrier' # "loop"
    BY AbortStep
  <2>2. HandleOpenat \/ HandleFstat => BridgeInv' /\ carrierFds' = carrierFds
    BY OpenatStep, FstatStep
  <2>3. HandleStat \/ HandleAccess \/ HandleUnlink => BridgeInv' /\ carrierFds' = carrierFds
    BY StatStep, IntStep
  <2>4. HandleReadlink \/ HandleUnknown => BridgeInv' /\ carrierFds' = carrierFds
    BY ReadlinkStep, UnknownStep
  <2>. QED  BY <1>7, <2>1, <2>2, <2>3, <2>4 DEF CarrierStep
<1>. QED  BY <1>1, <1>2, <1>3, <1>4, <1>5, <1>6, <1>7 DEF Next

LEMMA BridgeHolds == Spec => []BridgeInv
<1>1. Init => BridgeInv
  BY BridgeInit
<1>2. BridgeInv /\ [Next]_vars => BridgeInv'
  BY BridgeStep
<1>. QED  BY <1>1, <1>2, PTL DEF Spec

\* Every state of the bridge has its type: the descriptors and files of both processes,
\* the queue within its bound, and never more than one answer under way, for the calls
\* of sandbox/bridge.cpp and the handlers of handle_scout_msg.
THEOREM BridgeTypes == Spec => []TypeOK
<1>1. BridgeInv => TypeOK
  BY DEF BridgeInv
<1>. QED  BY <1>1, BridgeHolds, PTL

\* A call that returns gives what the kernel would have given the subject, but for the
\* two exceptions AnswerMatches names; for every number of paths, descriptors, sizes of
\* readlink's buffer and of a receiver's.
THEOREM AnswersMatch == Spec => []AnswerMatches
<1>1. BridgeInv => AnswerMatches
  BY DEF BridgeInv, CallOK
<1>. QED  BY <1>1, BridgeHolds, PTL

\* When the longest path and the fields around it fit into a receiver's buffer, an
\* assertion of msg_receiver, of the bridge or of handle_scout_msg fails only for want of
\* a descriptor or for a readlink whose buffer is too long.
THEOREM AssertionsCorrect ==
    ASSUME NPaths + 7 <= data_buf_size
    PROVE  Spec => []AssertionsHold
<1>1. BridgeInv => AssertionsHold
  <2>1. PathsFit
    BY DEF PathsFit
  <2>. QED  BY <2>1 DEF BridgeInv, CallOK, AbortOK, AssertionsHold
<1>. QED  BY <1>1, BridgeHolds, PTL

\* No handler of handle_scout_msg that ends leaves a descriptor it received or opened in
\* the Carrier's table, nor closes another.
THEOREM CarrierKeepsNoneCorrect == Spec => CarrierKeepsNone
<1>1. BridgeInv /\ [Next]_vars => [carrier' = "loop" => carrierFds' = carrierFds]_vars
  BY BridgeStep
<1>. QED  BY <1>1, BridgeHolds, PTL DEF Spec, CarrierKeepsNone

=============================================================================
