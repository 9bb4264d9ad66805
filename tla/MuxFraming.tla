----------------------------- MODULE MuxFraming -----------------------------
(***************************************************************************)
(* Mux::ReceiveRaw (mux/mux.cpp): cutting a byte stream into packets.      *)
(*                                                                         *)
(* The transport hands the stream of the peer over in pieces.  ReceiveRaw  *)
(* collects bytes in mInputBuf and calls HandleIncomingPacket for every    *)
(* packet.  A byte is identified by its place in the stream, so the input  *)
(* buffer, always a window of the stream, is its length: it starts with    *)
(* packet `next', and what has not been copied yet follows it.             *)
(*                                                                         *)
(* A definition X_Y is a wrong variant of the definition X that follows    *)
(* it: with it in the place of X one of the properties below fails.        *)
(***************************************************************************)
EXTENDS Integers

CONSTANTS
    HeaderSize,     \* sizeof(MuxPacket)
    MaxPacketSize,  \* MuxPacket::MaxPacketSize, the size of mInputBuf
    MaxSize,        \* the largest mSize a header announces
    NPackets,       \* bound: the number of packets in the stream
    Split           \* may a piece end anywhere? (see MayEnd)

ASSUME FramingAssumption ==
    /\ HeaderSize \in Nat \ {0} /\ MaxPacketSize \in Nat /\ HeaderSize <= MaxPacketSize
    /\ MaxSize \in Nat /\ NPackets \in Nat /\ Split \in BOOLEAN

VARIABLES
    ends,           \* where every packet of the stream ends; ends[0] = 0
    fed,            \* the bytes handed to ReceiveRaw so far
    remain,         \* in a call: the bytes of the piece not yet copied
    mInputBufSize,  \* the length of the content of mInputBuf
    next,           \* the packet at the start of mInputBuf: next - 1 were handled
    pc              \* "idle", "loop" in ReceiveRaw, "overrun" once a handler was
                    \* called with less than a packet, and memmove ran wild

vars == <<ends, fed, remain, mInputBufSize, next, pc>>

Packet == 1 .. NPackets
Total == ends[NPackets]
Ends == {ends[k] : k \in 0 .. NPackets}

\* packet->mSize in the header of packet k.
mSize(k) == ends[k] - ends[k - 1]

Streams ==
    {e \in [0 .. NPackets -> 0 .. (NPackets * MaxSize)] :
        e[0] = 0 /\ \A k \in Packet : e[k] - e[k - 1] \in HeaderSize .. MaxSize}

Init ==
    /\ ends \in Streams
    /\ fed = 0 /\ remain = 0 /\ mInputBufSize = 0 /\ next = 1
    /\ pc = "idle"

\* Where the piece that starts at fed may end.  Unless Split, a piece cuts a
\* packet only inside its header, and the next piece is what is missing of it.
MayEnd(to) ==
    \/ Split
    \/ fed \in Ends /\ \E e \in Ends : e <= to /\ to < e + HeaderSize
    \/ \E k \in Packet : ends[k - 1] < fed /\ fed < ends[k] /\ to = ends[k]

Call(n) ==
    /\ pc = "idle" /\ fed + n <= Total /\ MayEnd(fed + n)
    /\ fed' = fed + n /\ remain' = n /\ pc' = "loop"
    /\ UNCHANGED <<ends, mInputBufSize, next>>

Least(a, b) == IF a < b THEN a ELSE b

Copy_HeaderFirst ==
    LET room == Least(remain, MaxPacketSize - mInputBufSize) IN
    IF mInputBufSize = 0 /\ remain >= HeaderSize THEN Least(room, HeaderSize)
    ELSE IF mInputBufSize >= HeaderSize THEN Least(room, mSize(next) - mInputBufSize)
    ELSE room

Copy_IgnoresRemain ==
    LET room == MaxPacketSize - mInputBufSize IN
    IF mInputBufSize = 0 /\ remain >= HeaderSize THEN Least(room, mSize(next)) ELSE room

Copy_IgnoresContent ==
    LET room == Least(remain, MaxPacketSize) IN
    IF mInputBufSize = 0 /\ remain >= HeaderSize THEN Least(room, mSize(next)) ELSE room

\* How much the loop copies into mInputBuf.
Copy ==
    LET room == Least(remain, MaxPacketSize - mInputBufSize) IN
    IF mInputBufSize = 0 /\ remain >= HeaderSize THEN Least(room, mSize(next))
    ELSE IF mInputBufSize >= HeaderSize
         THEN Least(room, IF mSize(next) > mInputBufSize THEN mSize(next) - mInputBufSize ELSE 0)
    ELSE room

Break_KeepsLooping ==
    /\ pc = "loop" /\ remain > 0
    /\ \/ mInputBufSize + Copy < HeaderSize
       \/ mSize(next) > MaxPacketSize
       \/ mSize(next) < mInputBufSize + Copy
    /\ remain' = remain - Copy /\ mInputBufSize' = mInputBufSize + Copy
    /\ UNCHANGED <<ends, fed, next, pc>>

\* No whole header yet, a packet that is too big, or more than a packet in
\* mInputBuf (where the comment says: not enough).  What is left of the piece is
\* lost; it is only left over when mInputBuf takes no more bytes.
Break ==
    /\ pc = "loop" /\ remain > 0
    /\ \/ mInputBufSize + Copy < HeaderSize
       \/ mSize(next) > MaxPacketSize
       \/ mSize(next) < mInputBufSize + Copy
    /\ mInputBufSize' = mInputBufSize + Copy /\ remain' = 0 /\ pc' = "idle"
    /\ UNCHANGED <<ends, fed, next>>

Handle_KeepsSize ==
    /\ pc = "loop" /\ remain > 0
    /\ mInputBufSize + Copy >= HeaderSize
    /\ mSize(next) <= MaxPacketSize /\ mSize(next) >= mInputBufSize + Copy
    /\ mInputBufSize' = mInputBufSize + Copy /\ next' = next + 1
    /\ pc' = "loop" /\ remain' = remain - Copy
    /\ UNCHANGED <<ends, fed>>

\* HandleIncomingPacket, then the rest of mInputBuf moves to the front.  The
\* length of the rest is unsigned: with less than a packet it wraps around and
\* memmove runs over the end of the buffer.
Handle ==
    /\ pc = "loop" /\ remain > 0
    /\ mInputBufSize + Copy >= HeaderSize
    /\ mSize(next) <= MaxPacketSize /\ mSize(next) >= mInputBufSize + Copy
    /\ IF mSize(next) = mInputBufSize + Copy
       THEN pc' = "loop" /\ mInputBufSize' = 0 /\ next' = next + 1
       ELSE pc' = "overrun" /\ mInputBufSize' = mInputBufSize + Copy /\ next' = next
    /\ remain' = remain - Copy
    /\ UNCHANGED <<ends, fed>>

Return ==
    /\ pc = "loop" /\ remain = 0 /\ pc' = "idle"
    /\ UNCHANGED <<ends, fed, remain, mInputBufSize, next>>

Next == (\E n \in 1 .. (Total - fed) : Call(n)) \/ Break \/ Handle \/ Return

Spec == Init /\ [][Next]_vars
FairSpec == Spec /\ WF_vars(Break \/ Handle \/ Return)

-----------------------------------------------------------------------------
(* Properties.                                                             *)

\* The type of every variable.
TypeOK ==
    /\ ends \in Streams /\ fed \in 0 .. Total /\ remain \in 0 .. fed
    /\ mInputBufSize \in Nat /\ next \in 1 .. (NPackets + 1)
    /\ pc \in {"idle", "loop", "overrun"}

\* memcpy stays inside mInputBuf, whatever sizes the headers announce and
\* wherever the pieces end.
BufferFits == mInputBufSize <= MaxPacketSize

\* HandleIncomingPacket is only called with a whole packet in mInputBuf.
FramesWhole == pc # "overrun"

\* Between two calls exactly the packets that have arrived have been handled, up
\* to the first that is too big; nothing of a handled packet stays behind.
HandledExactly ==
    pc = "idle" =>
        \A k \in Packet :
            k < next <=> ends[k] <= fed /\ \A j \in 1 .. k : mSize(j) <= MaxPacketSize

\* Every call of ReceiveRaw returns: no iteration of the loop leaves things as
\* they are.
CallReturns == pc = "loop" ~> pc # "loop"
=============================================================================
