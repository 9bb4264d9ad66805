----------------------------- MODULE TinyMalloc -----------------------------
(***************************************************************************)
(* The allocator inside every subject (sandbox/tinymalloc.cpp).            *)
(*                                                                         *)
(* One mmap()ed block is cut into chunks, never given back.  A small chunk *)
(* holds elements of one size behind a map of used bits and sits in the    *)
(* list of its size class (buckets); a large chunk is one allocation and   *)
(* sits in `large' while it is used and in `large_free' afterwards, both   *)
(* sorted by size.  The chunkinfo_t of a chunk is itself an element of a   *)
(* small chunk, so getting a chunk takes an element, and make_sure() keeps *)
(* one in reserve.                                                         *)
(*                                                                         *)
(* Addresses are offsets into the block.  A chunk is named by its number,  *)
(* 0 is nullptr.                                                           *)
(*                                                                         *)
(* A definition X_Y is a wrong variant of the definition X that follows    *)
(* it: with it in the place of X one of the properties below fails.        *)
(***************************************************************************)
EXTENDS Integers, Sequences, FiniteSets, Bags

CONSTANTS
    LowerPow,   \* SMALL_ALLOC_LOWER_POW
    UpperPow,   \* SMALL_ALLOC_UPPER_POW
    InfoSize,   \* sizeof(chunkinfo_t)
    BootBytes,  \* the size of the first chunk, 256
    ChunkBytes, \* the size of a small chunk, 1024
    LargeUnit,  \* large chunks are multiples of this, 256
    Requests,   \* the sizes the program asks for
    MaxLive,    \* bound on the blocks in use
    MaxChunks   \* bound on the chunks

\* The last class is at least 8 bytes and at least the class of the smallest
\* blocks, and LARGE_CHUNK is none of the classes.
ASSUME MallocAssumption ==
    /\ LowerPow \in Nat /\ UpperPow \in Nat /\ LowerPow < UpperPow
    /\ 3 <= UpperPow /\ 2 * LowerPow <= UpperPow /\ UpperPow - LowerPow < 255
    /\ {InfoSize, BootBytes, ChunkBytes, LargeUnit} \subseteq Nat \ {0}
    /\ Requests \subseteq Nat \ {0} /\ MaxLive \in Nat /\ MaxChunks \in Nat

VARIABLES
    heap,       \* *global_mem_block, with the chunks it points to
    live,       \* the bag of blocks in use: where and how long
    halted,     \* the assertion that failed, or "no"
    tangled     \* history: a chunk joined the end of a list with its old successor

vars == <<heap, live, halted, tangled>>

LARGE_CHUNK == 255
Types == 0 .. (UpperPow - LowerPow)

\* 1 << n
Pow2[n \in 0 .. UpperPow] == IF n = 0 THEN 1 ELSE 2 * Pow2[n - 1]

get_type(size) ==
    IF size <= Pow2[LowerPow] THEN LowerPow
    ELSE IF size <= Pow2[UpperPow]
    THEN (CHOOSE i \in (LowerPow + 1) .. UpperPow : size <= Pow2[i] /\ size > Pow2[i - 1]) - LowerPow
    ELSE LARGE_CHUNK
get_size(type) == Pow2[type + LowerPow]
InfoType == get_type(InfoSize)

-----------------------------------------------------------------------------
(* chunkinfo_t.                                                            *)

RoundUp(n, unit) == ((n + unit - 1) \div unit) * unit

first_element(c) == RoundUp((c.bytes \div c.elm_size + 7) \div 8, 8)
max_elements(c) == (c.bytes - first_element(c)) \div c.elm_size
element(c, e) == c.begin + first_element(c) + e * c.elm_size

\* How many elements of a class fit into a chunk.  Every class fits into a small
\* chunk, and both kinds of chunks of chunkinfo_t have room for two.
Elements(type, bytes) == max_elements([elm_size |-> get_size(type), bytes |-> bytes])
ASSUME SizesAssumption ==
    /\ InfoSize <= Pow2[UpperPow]
    /\ \A type \in Types : Elements(type, ChunkBytes) >= 1
    /\ Elements(InfoType, BootBytes) >= 2 /\ Elements(InfoType, ChunkBytes) >= 2

NewChunk_CountsMap(elm_size, begin, bytes, at) ==
    [elm_size |-> elm_size, begin |-> begin, bytes |-> bytes, at |-> at,
     next |-> 0, used |-> {}, nfree |-> bytes \div elm_size]

\* The constructor; at is where the chunkinfo_t itself lies.
NewChunk(elm_size, begin, bytes, at) ==
    LET c == [elm_size |-> elm_size, begin |-> begin, bytes |-> bytes, at |-> at,
              next |-> 0, used |-> {}, nfree |-> 0] IN
    [c EXCEPT !.nfree = max_elements(c)]

is_part_Closed(c, ptr) == ptr >= c.begin + first_element(c) /\ ptr <= c.begin + c.bytes

is_part(c, ptr) == ptr >= c.begin + first_element(c) /\ ptr < c.begin + c.bytes

\* alloc_free scans the map from one of eight places, a multiple of 8, and
\* around, to an element that is not used: the first one when the chunk has at
\* most eight.
alloc_free(c) == CHOOSE e \in 0 .. (max_elements(c) - 1) : e \notin c.used

Freed_Shifted(c, ptr) ==
    [c EXCEPT !.used = @ \ {(ptr - c.begin) \div c.elm_size}, !.nfree = @ + 1]

\* chunkinfo_t::free.
Freed(c, ptr) ==
    [c EXCEPT !.used = @ \ {(ptr - c.begin - first_element(c)) \div c.elm_size}, !.nfree = @ + 1]

-----------------------------------------------------------------------------
(* Lists.  Walk is where i steps from the head of a list lead; Seek walks  *)
(* to the first chunk of a set, or to the end of the list.                 *)

Walk(h, head) ==
    LET node[i \in 0 .. Len(h.chunks)] ==
            IF i = 0 THEN head
            ELSE IF node[i - 1] = 0 THEN 0 ELSE h.chunks[node[i - 1]].next
    IN  node
Seek(h, head, found) ==
    LET node == Walk(h, head)
        ends == {i \in 0 .. Len(h.chunks) : node[i] \in found \cup {0}}
        i == CHOOSE i \in ends : \A j \in ends : i <= j
    IN  [chunk |-> node[i], prev |-> IF i = 0 THEN 0 ELSE node[i - 1]]

SetNext(h, k, to) == [h EXCEPT !.chunks[k].next = to]

put_front_Unlinked(h, k, prev) ==
    LET type == get_type(h.chunks[k].elm_size) IN
    IF h.buckets[type] = k THEN h
    ELSE [SetNext(h, k, h.buckets[type]) EXCEPT !.buckets[type] = k]

\* Chunk k moves, or comes, to the front of its bucket.
put_front(h, k, prev) ==
    LET type == get_type(h.chunks[k].elm_size)
        out == IF prev = 0 THEN h ELSE SetNext(h, prev, h.chunks[k].next) IN
    IF h.buckets[type] = k THEN h
    ELSE [SetNext(out, k, h.buckets[type]) EXCEPT !.buckets[type] = k]

\* put_large and put_large_free: chunk k takes its place in a sorted list.  At
\* the end of the list its next is left as it is.
PlaceOf(h, list, k) ==
    Seek(h, h[list], {j \in DOMAIN h.chunks : h.chunks[j].elm_size >= h.chunks[k].elm_size})
put_sorted(h, list, k) ==
    LET place == PlaceOf(h, list, k) IN
    IF place.prev = 0 THEN [SetNext(h, k, h[list]) EXCEPT ![list] = k]
    ELSE IF place.chunk # 0 THEN SetNext(SetNext(h, k, place.chunk), place.prev, k)
    ELSE SetNext(h, place.prev, k)
Tangles(h, list, k) ==
    PlaceOf(h, list, k).prev # 0 /\ PlaceOf(h, list, k).chunk = 0 /\ h.chunks[k].next # 0

\* Chunk k behind prev leaves a list; its own next stays.
Unlink(h, list, k, prev) ==
    IF prev = 0 THEN [h EXCEPT ![list] = h.chunks[k].next] ELSE SetNext(h, prev, h.chunks[k].next)

-----------------------------------------------------------------------------
(* mem_block_t: operators from a heap to a heap and what they return.      *)

\* _alloc_small when the class has a free element.
TakeElement(h, type) ==
    LET s == Seek(h, h.buckets[type], {k \in DOMAIN h.chunks : h.chunks[k].nfree # 0})
        c == h.chunks[s.chunk]
        e == alloc_free(c)
        taken == [h EXCEPT !.chunks[s.chunk].used = @ \cup {e}, !.chunks[s.chunk].nfree = @ - 1,
                           !.nfrees[type] = @ - 1] IN
    [heap |-> IF c.nfree > 1 THEN put_front(taken, s.chunk, s.prev) ELSE taken,
     ptr |-> element(c, e)]

\* alloc_chunk, with an element for the chunkinfo_t.
alloc_chunk(h, type, bytes) ==
    LET info == TakeElement(h, InfoType)
        k == Len(h.chunks) + 1
        c == NewChunk(IF type = LARGE_CHUNK THEN bytes ELSE get_size(type), h.next_free, bytes, info.ptr)
        added == [info.heap EXCEPT !.chunks = Append(@, c), !.next_free = @ + bytes] IN
    IF type = LARGE_CHUNK THEN put_sorted(added, "large", k)
    ELSE [put_front(added, k, 0) EXCEPT !.nfrees[type] = @ + c.nfree]

make_sure_Late(h) == IF h.nfrees[InfoType] = 0 THEN alloc_chunk(h, InfoType, ChunkBytes) ELSE h

\* The last chunkinfo_t is spent on a chunk of more of them.
make_sure(h) == IF h.nfrees[InfoType] = 1 THEN alloc_chunk(h, InfoType, ChunkBytes) ELSE h

alloc_small(h, type) ==
    LET sure == make_sure(h) IN
    TakeElement(IF sure.nfrees[type] # 0 THEN sure ELSE alloc_chunk(sure, type, ChunkBytes), type)

FitsIn(h, bytes) == Seek(h, h.large_free, {k \in DOMAIN h.chunks : h.chunks[k].elm_size >= bytes})

alloc_large(h, bytes) ==
    LET fit == FitsIn(h, bytes)
        new == alloc_chunk(make_sure(h), LARGE_CHUNK, RoundUp(bytes, LargeUnit)) IN
    IF fit.chunk # 0
    THEN [heap |-> put_sorted(Unlink(h, "large_free", fit.chunk, fit.prev), "large", fit.chunk),
          ptr |-> h.chunks[fit.chunk].begin]
    ELSE [heap |-> new, ptr |-> new.chunks[Len(new.chunks)].begin]

\* The classes find_chunk looks through: all but the last.
SearchedTypes == {i - LowerPow : i \in LowerPow .. (UpperPow - 1)}
FoundIn(h, type, ptr) == Seek(h, h.buckets[type], {k \in DOMAIN h.chunks : is_part(h.chunks[k], ptr)})

\* find_chunk: in the small classes, in `large' (which it leaves), or nowhere.
FoundSmall(h, ptr) == {type \in SearchedTypes : FoundIn(h, type, ptr).chunk # 0}
FoundLarge(h, ptr) == Seek(h, h.large, {k \in DOMAIN h.chunks : h.chunks[k].begin = ptr})

\* assert(!in_alloc_chunk) fails when a chunk is needed and no chunkinfo_t is left.
OutOfInfo(h, size) ==
    /\ h.nfrees[InfoType] = 0
    /\ IF get_type(size) = LARGE_CHUNK THEN FitsIn(h, size).chunk = 0
       ELSE h.nfrees[get_type(size)] = 0

-----------------------------------------------------------------------------
\* mem_block_t::init: the first chunk holds its own chunkinfo_t.
Boot ==
    LET c == NewChunk(get_size(InfoType), 0, BootBytes, 0)
        e == alloc_free(c) IN
    [c EXCEPT !.used = {e}, !.nfree = @ - 1, !.at = element(c, e)]

Init ==
    /\ heap = [chunks |-> <<Boot>>,
               buckets |-> [type \in Types |-> IF type = InfoType THEN 1 ELSE 0],
               nfrees |-> [type \in Types |-> IF type = InfoType THEN Boot.nfree ELSE 0],
               large |-> 0, large_free |-> 0, next_free |-> BootBytes]
    /\ live = EmptyBag /\ halted = "no" /\ tangled = FALSE

\* Two chunks may be made at once.
Room == Len(heap.chunks) + 2 <= MaxChunks /\ BagCardinality(live) < MaxLive
Running == halted = "no" /\ ~ tangled

Gets(size, got) ==
    /\ heap' = got.heap
    /\ live' = live (+) SetToBag({[ptr |-> got.ptr, size |-> size]})
    /\ UNCHANGED halted

\* malloc.
MallocSmall(size) ==
    /\ Running /\ Room /\ get_type(size) # LARGE_CHUNK
    /\ IF OutOfInfo(heap, size) THEN halted' = "in_alloc_chunk" /\ UNCHANGED <<heap, live>>
       ELSE Gets(size, alloc_small(heap, get_type(size)))
    /\ UNCHANGED tangled

MallocLarge(size) ==
    /\ Running /\ Room /\ get_type(size) = LARGE_CHUNK
    /\ IF OutOfInfo(heap, size) THEN halted' = "in_alloc_chunk" /\ UNCHANGED <<heap, live>>
       ELSE Gets(size, alloc_large(heap, size))
    /\ LET fit == FitsIn(heap, size) IN
       tangled' = (fit.chunk # 0 /\ Tangles(Unlink(heap, "large_free", fit.chunk, fit.prev), "large", fit.chunk))

\* free of a small block.
FreeSmall(b) ==
    /\ Running /\ FoundSmall(heap, b.ptr) # {}
    /\ LET type == CHOOSE t \in FoundSmall(heap, b.ptr) : \A u \in FoundSmall(heap, b.ptr) : t <= u
           s == FoundIn(heap, type, b.ptr)
           freed == [heap EXCEPT !.chunks[s.chunk] = Freed(@, b.ptr)]
           class == get_type(heap.chunks[s.chunk].elm_size) IN
       heap' = [put_front(freed, s.chunk, s.prev) EXCEPT !.nfrees[class] = @ + 1]
    /\ live' = live (-) SetToBag({b})
    /\ UNCHANGED <<halted, tangled>>

\* free of a large block.
FreeLarge(b) ==
    /\ Running /\ FoundSmall(heap, b.ptr) = {} /\ FoundLarge(heap, b.ptr).chunk # 0
    /\ LET s == FoundLarge(heap, b.ptr)
           out == Unlink(heap, "large", s.chunk, s.prev) IN
       /\ heap' = put_sorted(out, "large_free", s.chunk)
       /\ tangled' = Tangles(out, "large_free", s.chunk)
    /\ live' = live (-) SetToBag({b})
    /\ UNCHANGED halted

\* assert(chunk) in free.
FreeFails(b) ==
    /\ Running /\ FoundSmall(heap, b.ptr) = {} /\ FoundLarge(heap, b.ptr).chunk = 0
    /\ halted' = "chunk"
    /\ UNCHANGED <<heap, live, tangled>>

Next ==
    \/ \E size \in Requests : MallocSmall(size) \/ MallocLarge(size)
    \/ \E b \in BagToSet(live) : FreeSmall(b) \/ FreeLarge(b) \/ FreeFails(b)

Spec == Init /\ [][Next]_vars

-----------------------------------------------------------------------------
(* Properties.                                                             *)

ChunkIds == 1 .. Len(heap.chunks)
IsLarge(c) == c.elm_size = c.bytes
Overlap(a, m, b, n) == a < b + n /\ b < a + m

\* The type of every variable.
TypeOK ==
    /\ \A k \in ChunkIds : LET c == heap.chunks[k] IN
        /\ c.elm_size \in Nat \ {0} /\ c.bytes \in Nat /\ c.begin \in Nat /\ c.at \in Nat
        /\ c.used \subseteq 0 .. (max_elements(c) - 1) /\ c.nfree \in 0 .. max_elements(c)
        /\ c.next \in 0 .. Len(heap.chunks)
    /\ heap.buckets \in [Types -> 0 .. Len(heap.chunks)] /\ heap.nfrees \in [Types -> Nat]
    /\ heap.large \in 0 .. Len(heap.chunks) /\ heap.large_free \in 0 .. Len(heap.chunks)
    /\ IsABag(live) /\ BagToSet(live) \subseteq [ptr : Nat, size : Requests]
    /\ halted \in {"no", "chunk", "in_alloc_chunk"} /\ tangled \in BOOLEAN

\* No block in use shares a byte with another one, with a chunkinfo_t, or with a
\* map of used bits, however blocks of all sizes come and go: malloc() gives
\* memory out once, and its owner cannot reach the allocator's own data.
BlocksApart ==
    \A b \in BagToSet(live) :
        /\ live[b] = 1
        /\ \A d \in BagToSet(live) : b = d \/ ~ Overlap(b.ptr, b.size, d.ptr, d.size)
        /\ \A k \in ChunkIds : LET c == heap.chunks[k] IN
            /\ ~ Overlap(b.ptr, b.size, c.at, InfoSize)
            /\ ~ IsLarge(c) => ~ Overlap(b.ptr, b.size, c.begin, first_element(c))
        /\ \E k \in ChunkIds : LET c == heap.chunks[k] IN
            c.begin <= b.ptr /\ b.ptr + b.size <= c.begin + c.bytes

\* Every chunk is where the allocator looks for it: a small one is reached from
\* its bucket, a large one from `large' when its block is in use and from
\* `large_free' when not, and no free element is missing in nfrees.
Reaches(head, k) ==
    Cardinality({i \in 0 .. Len(heap.chunks) : Walk(heap, head)[i] = k})
ChunksKept ==
    ~ tangled =>
        \A k \in ChunkIds : LET c == heap.chunks[k] IN
            IF IsLarge(c)
            THEN LET inUse == \E b \in BagToSet(live) : b.ptr = c.begin IN
                 /\ Reaches(heap.large, k) = (IF inUse THEN 1 ELSE 0)
                 /\ Reaches(heap.large_free, k) = (IF inUse THEN 0 ELSE 1)
            ELSE /\ Reaches(heap.buckets[get_type(c.elm_size)], k) = 1
                 /\ c.nfree = max_elements(c) - Cardinality(c.used)
                 /\ c.nfree <= heap.nfrees[get_type(c.elm_size)]

\* assert(!in_alloc_chunk): a chunkinfo_t is always in reserve, so that making a
\* chunk never has to make another one for its own chunkinfo_t.
InfoInReserve == halted # "in_alloc_chunk" /\ heap.nfrees[InfoType] >= 1

\* assert(chunk) in free: a block in use is found again, in the class it was taken
\* from, wherever its chunk has moved meanwhile and whatever lies next to it.  The
\* exception is the largest small class, which find_chunk does not look through.
FreeFinds ==
    ~ tangled =>
        \A b \in BagToSet(live) :
            LET type == get_type(b.size) IN
            IF type = LARGE_CHUNK
            THEN FoundSmall(heap, b.ptr) = {} /\ FoundLarge(heap, b.ptr).chunk # 0
            ELSE type = UpperPow - LowerPow \/ FoundSmall(heap, b.ptr) = {type}
=============================================================================
