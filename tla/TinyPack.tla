------------------------------ MODULE TinyPack ------------------------------
(***************************************************************************)
(* toolkits/tinypack.h: a list of typed values as a buffer, and back.      *)
(*                                                                         *)
(* A buffer is a sequence of cells, and a type takes a number of cells     *)
(* that sets it apart from the others: an int 1, a size_t 2, a struct 3, a *)
(* string or a fixedbuf one for its length and one for each byte.          *)
(***************************************************************************)
EXTENDS Integers, Sequences

LongSize == 2
StructSize == 3

\* A type, with the size the reader of a fixedbuf expects.
Type(name, n) == [name |-> name, n |-> n]
Word == Type("int", 0)
Long == Type("long", 0)
Struct == Type("struct", 0)
Str == Type("str", 0)
Buf(n) == Type("buf", n)

Field(type, value) == [type |-> type, value |-> value]

-----------------------------------------------------------------------------
(* Packing.                                                                *)

Terminator == 0

\* tinypack_value_trait<T>::writebuf
writebuf(f) ==
    CASE f.type.name = "int" -> <<f.value>>
      [] f.type.name = "long" -> [i \in 1 .. LongSize |-> f.value]
      [] f.type.name = "struct" -> [i \in 1 .. StructSize |-> f.value]
      [] f.type.name = "str" -> <<Len(f.value) + 1>> \o Append(f.value, Terminator)
      [] f.type.name = "buf" -> <<Len(f.value)>> \o f.value

pack(fields) ==
    LET packed[i \in 0 .. Len(fields)] ==
            IF i = 0 THEN <<>> ELSE packed[i - 1] \o writebuf(fields[i])
    IN  packed[Len(fields)]
pack_size_prefix(fields) == LET buf == pack(fields) IN <<Len(buf)>> \o buf

-----------------------------------------------------------------------------
(* Unpacking.                                                              *)

\* rsize: how many cells a value takes from position `from' on, or -1.  That the
\* buffer holds a whole fixedbuf is not looked at.
rsize(type, buf, from) ==
    LET left == Len(buf) - from + 1
        fits(n) == IF left < n THEN -1 ELSE n IN
    CASE type.name = "int" -> fits(1)
      [] type.name = "long" -> fits(LongSize)
      [] type.name = "struct" -> fits(StructSize)
      [] type.name = "str" -> IF left < 1 THEN -1 ELSE fits(buf[from] + 1)
      [] type.name = "buf" -> IF left < 1 \/ buf[from] # type.n THEN -1 ELSE type.n + 1

\* tinyunpack::get_size of the first i fields, or -1.
sizes(types, buf) ==
    LET sz[i \in 0 .. Len(types)] ==
            IF i = 0 THEN 0
            ELSE IF sz[i - 1] < 0 THEN -1
            ELSE LET v == rsize(types[i], buf, sz[i - 1] + 1) IN
                 IF v < 0 THEN -1 ELSE sz[i - 1] + v
    IN  sz

get_size(types, buf) == sizes(types, buf)[Len(types)]
check_completed(types, buf) == get_size(types, buf) >= 0

\* readbuf: the value at position `from'.
readbuf(type, buf, from) ==
    CASE type.name \in {"int", "long", "struct"} -> buf[from]
      [] type.name = "str" -> SubSeq(buf, from + 1, from + buf[from] - 1)
      [] type.name = "buf" -> SubSeq(buf, from + 1, from + type.n)

unpack(types, buf) ==
    LET sz == sizes(types, buf) IN
    [i \in 1 .. Len(types) |-> readbuf(types[i], buf, sz[i - 1] + 1)]
=============================================================================
