-------------------------- MODULE MuxFramingProofs --------------------------
(***************************************************************************)
(* Mux::ReceiveRaw never writes outside mInputBuf, for every stream of     *)
(* packets, wherever the transport cuts it and whatever sizes the headers  *)
(* announce (MuxFraming, with every value of the constants).               *)
(***************************************************************************)
EXTENDS MuxFraming, InductionFacts

\* The content of mInputBuf and the rest of the piece follow the packets that
\* were handled: there is a packet at the start of mInputBuf as long as a byte
\* is left to copy.
InStream == ends[next - 1] + mInputBufSize + remain <= fed

\* The inductive invariant.
FramingInv == TypeOK /\ BufferFits /\ InStream

\* Every packet of the stream has a size and a place.
LEMMA StreamFacts ==
    ASSUME TypeOK
    PROVE  /\ Total \in Nat
           /\ \A k \in 0 .. NPackets : ends[k] \in Nat
           /\ \A k \in Packet : mSize(k) \in Nat /\ mSize(k) >= HeaderSize
<1>1. NPackets * MaxSize \in Nat
  BY FramingAssumption
<1>2. \A k \in 0 .. NPackets : ends[k] \in Nat
  BY <1>1, FramingAssumption DEF TypeOK, Streams
<1>3. ASSUME NEW k \in Packet PROVE mSize(k) \in Nat /\ mSize(k) >= HeaderSize
  BY <1>2, FramingAssumption DEF TypeOK, Streams, mSize, Packet
<1> QED
  BY <1>2, <1>3, FramingAssumption DEF Total

\* In the loop there is a packet at the start of mInputBuf, and what is copied
\* fits both the piece and the buffer.
LEMMA CopyFits ==
    ASSUME FramingInv, remain > 0
    PROVE  /\ next \in Packet
           /\ Copy \in 0 .. remain
           /\ mInputBufSize + Copy <= MaxPacketSize
<1>1. /\ Total \in Nat /\ mInputBufSize \in Nat /\ remain \in Nat /\ fed \in Nat
      /\ fed <= Total /\ next \in 1 .. (NPackets + 1) /\ mInputBufSize <= MaxPacketSize
  BY StreamFacts DEF FramingInv, TypeOK, BufferFits
<1>2. next \in Packet
  <2>1. ends[next - 1] < Total
    BY <1>1, StreamFacts, FramingAssumption DEF FramingInv, InStream
  <2>2. next # NPackets + 1
    BY <2>1, <1>1, FramingAssumption DEF Total
  <2> QED
    BY <2>2, <1>1, FramingAssumption DEF Packet
<1>3. mSize(next) \in Nat
  BY <1>2, StreamFacts DEF FramingInv
<1> QED
  BY <1>1, <1>2, <1>3, FramingAssumption DEF Copy, Least

LEMMA FramingInit == Init => FramingInv
<1> SUFFICES ASSUME Init PROVE FramingInv
  OBVIOUS
<1>1. ends \in Streams /\ NPackets * MaxSize \in Nat /\ ends[0] = 0
  BY FramingAssumption DEF Init, Streams
<1>2. Total \in Nat
  BY <1>1, FramingAssumption DEF Streams, Total
<1> QED
  BY <1>1, <1>2, FramingAssumption DEF Init, FramingInv, TypeOK, BufferFits, InStream

LEMMA CallKeeps == ASSUME FramingInv, NEW n \in 1 .. (Total - fed), Call(n) PROVE FramingInv'
<1>1. /\ Total \in Nat /\ fed \in 0 .. Total /\ n \in Nat /\ fed + n <= Total
      /\ ends[next - 1] \in Nat /\ mInputBufSize \in Nat
  BY StreamFacts, FramingAssumption DEF FramingInv, TypeOK, Call
<1>2. Total' = Total
  BY DEF Call, Total
<1>3. ends[next - 1] + mInputBufSize <= fed
  BY <1>1 DEF FramingInv, InStream, TypeOK
<1>4. InStream'
  BY <1>1, <1>3 DEF Call, InStream
<1> QED
  BY <1>1, <1>2, <1>4 DEF Call, FramingInv, TypeOK, BufferFits

LEMMA BreakKeeps == ASSUME FramingInv, Break PROVE FramingInv'
<1>1. /\ remain > 0 /\ Total \in Nat /\ fed \in 0 .. Total /\ remain \in 0 .. fed
      /\ ends[next - 1] \in Nat /\ mInputBufSize \in Nat
  BY StreamFacts, FramingAssumption DEF FramingInv, TypeOK, Break
<1>2. Copy \in 0 .. remain /\ mInputBufSize + Copy <= MaxPacketSize
  BY <1>1, CopyFits
<1>3. Total' = Total
  BY DEF Break, Total
<1>4. InStream'
  BY <1>1, <1>2 DEF Break, FramingInv, InStream
<1> QED
  BY <1>1, <1>2, <1>3, <1>4 DEF Break, FramingInv, TypeOK, BufferFits

LEMMA HandleKeeps == ASSUME FramingInv, Handle PROVE FramingInv'
<1>1. /\ remain > 0 /\ Total \in Nat /\ fed \in 0 .. Total /\ remain \in 0 .. fed
      /\ ends[next - 1] \in Nat /\ mInputBufSize \in Nat
  BY StreamFacts, FramingAssumption DEF FramingInv, TypeOK, Handle
<1>2. /\ next \in Packet
      /\ Copy \in 0 .. remain /\ mInputBufSize + Copy <= MaxPacketSize
  BY <1>1, CopyFits
<1>3. ends[next] \in Nat
  BY <1>2, StreamFacts, FramingAssumption DEF FramingInv, Packet
<1>4. Total' = Total /\ ends' = ends /\ fed' = fed /\ remain' = remain - Copy
  BY DEF Handle, Total
<1>5. CASE mSize(next) = mInputBufSize + Copy
  <2>1. /\ next' = next + 1 /\ mInputBufSize' = 0 /\ pc' = "loop"
        /\ ends[next] = ends[next - 1] + mInputBufSize + Copy
    BY <1>1, <1>2, <1>3, <1>5 DEF Handle, mSize
  <2>2. ends'[next' - 1] = ends[next]
    BY <2>1, <1>2, <1>4, FramingAssumption DEF Packet
  <2>3. InStream'
    BY <2>1, <2>2, <1>1, <1>2, <1>3, <1>4 DEF FramingInv, InStream
  <2>4. next' \in 1 .. (NPackets + 1) /\ remain' \in 0 .. fed
    BY <2>1, <1>1, <1>2, <1>4, FramingAssumption DEF Packet
  <2> QED
    BY <2>1, <2>3, <2>4, <1>1, <1>4, FramingAssumption DEF FramingInv, TypeOK, BufferFits
<1>6. CASE mSize(next) # mInputBufSize + Copy
  <2>1. next' = next /\ mInputBufSize' = mInputBufSize + Copy /\ pc' = "overrun"
    BY <1>6 DEF Handle
  <2>2. InStream'
    BY <2>1, <1>1, <1>2, <1>4 DEF FramingInv, InStream
  <2> QED
    BY <2>1, <2>2, <1>1, <1>2, <1>4 DEF FramingInv, TypeOK, BufferFits
<1> QED
  BY <1>5, <1>6

LEMMA FramingStep == FramingInv /\ [Next]_vars => FramingInv'
<1> SUFFICES ASSUME FramingInv, [Next]_vars PROVE FramingInv'
  OBVIOUS
<1>1. ASSUME NEW n \in 1 .. (Total - fed), Call(n) PROVE FramingInv'
  BY <1>1, CallKeeps
<1>2. CASE Break
  BY <1>2, BreakKeeps
<1>3. CASE Handle
  BY <1>3, HandleKeeps
<1>4. CASE Return
  BY <1>4 DEF Return, FramingInv, TypeOK, BufferFits, InStream, Total
<1>5. CASE UNCHANGED vars
  BY <1>5 DEF vars, FramingInv, TypeOK, BufferFits, InStream, Total
<1> QED
  BY <1>1, <1>2, <1>3, <1>4, <1>5 DEF Next

\* The memcpy of ReceiveRaw stays inside mInputBuf, and mInputBufSize never
\* passes its end: neither a header that announces too much nor a piece that
\* ends in the middle of one changes that.
THEOREM BufferFitsCorrect == Spec => []BufferFits
<1>1. FramingInv => BufferFits
  BY DEF FramingInv
<1> QED
  BY <1>1, FramingInit, FramingStep, PTL DEF Spec

\* The variables of ReceiveRaw keep their ranges: what is left of a piece never
\* passes below zero, and no packet is looked for behind the last one.
THEOREM FramingTypeCorrect == Spec => []TypeOK
<1>1. FramingInv => TypeOK
  BY DEF FramingInv
<1> QED
  BY <1>1, FramingInit, FramingStep, PTL DEF Spec

-----------------------------------------------------------------------------
(* Pieces that cut a packet only inside its header.                        *)

\* The packets follow each other, a header apart at least.
LEMMA EndsIncrease ==
    ASSUME TypeOK
    PROVE  \A i, j \in 0 .. NPackets : i < j => ends[i] + HeaderSize <= ends[j]
<1>1. /\ NPackets \in Nat /\ HeaderSize \in Nat /\ \A k \in 0 .. NPackets : ends[k] \in Nat
      /\ \A k \in 1 .. NPackets : ends[k - 1] + HeaderSize <= ends[k]
  <2>1. ASSUME NEW k \in 1 .. NPackets PROVE ends[k - 1] + HeaderSize <= ends[k]
    <3>1. mSize(k) >= HeaderSize /\ ends[k] \in Nat /\ ends[k - 1] \in Nat
      BY StreamFacts, FramingAssumption DEF Packet
    <3>. QED  BY <3>1, FramingAssumption DEF mSize
  <2>. QED  BY <2>1, StreamFacts, FramingAssumption
<1> DEFINE S == {j \in Nat : j <= NPackets =>
                    \A i \in 0 .. NPackets : i < j => ends[i] + HeaderSize <= ends[j]}
<1>2. 0 \in S
  OBVIOUS
<1>3. ASSUME NEW j \in Nat, j \in S PROVE j + 1 \in S
  <2> SUFFICES ASSUME j + 1 <= NPackets, NEW i \in 0 .. NPackets, i < j + 1
               PROVE  ends[i] + HeaderSize <= ends[j + 1]
    OBVIOUS
  <2>1. ends[j] + HeaderSize <= ends[j + 1] /\ ends[j] \in Nat /\ ends[j + 1] \in Nat /\ ends[i] \in Nat
    <3>1. j + 1 \in 1 .. NPackets /\ (j + 1) - 1 = j /\ j \in 0 .. NPackets /\ j + 1 \in 0 .. NPackets
      BY <1>1
    <3>. QED  BY <1>1, <3>1
  <2>2. i = j \/ ends[i] + HeaderSize <= ends[j]
    BY <1>1, <1>3
  <2>. QED  BY <1>1, <2>1, <2>2
<1>4. \A n \in Nat : n \in S
  <2> HIDE DEF S
  <2>. QED  BY <1>2, <1>3, Induction
<1>. QED  BY <1>1, <1>4

\* mInputBuf starts with packet `next', and the loop has as much of it as the
\* piece gave: the rest of a packet whose header was cut, or whole packets and
\* less than a header.
Aligned ==
    /\ ends[next - 1] + mInputBufSize + remain = fed
    /\ pc = "idle" => remain = 0 /\ mInputBufSize < HeaderSize
    /\ pc = "loop" =>
        \/ mInputBufSize = 0 /\ \E e \in Ends : e <= fed /\ fed < e + HeaderSize
        \/ /\ mInputBufSize \in 1 .. (HeaderSize - 1)
           /\ next \in Packet /\ fed = ends[next]

\* A packet that is too big is never handled, and nothing after it.
TooBig == next \in Packet /\ mSize(next) > MaxPacketSize

WholeInv ==
    /\ FramingInv /\ FramesWhole
    /\ \A j \in Packet : j < next => mSize(j) <= MaxPacketSize
    /\ TooBig \/ Aligned

LEMMA WholeInit == Init => WholeInv
<1> SUFFICES ASSUME Init PROVE WholeInv
  OBVIOUS
<1>1. FramingInv /\ ends[0] = 0
  BY FramingInit DEF Init, Streams
<1>. QED  BY <1>1, FramingAssumption DEF Init, WholeInv, FramesWhole, Aligned, Packet

LEMMA WholeCall ==
    ASSUME ~ Split, WholeInv, NEW n \in 1 .. (Total - fed), Call(n), ~ TooBig PROVE Aligned'
<1>1. /\ Aligned /\ FramingInv /\ TypeOK
  BY DEF WholeInv, FramingInv
<1>2. /\ pc = "idle" /\ fed + n <= Total /\ MayEnd(fed + n)
      /\ fed' = fed + n /\ remain' = n /\ pc' = "loop"
      /\ UNCHANGED <<ends, mInputBufSize, next>>
  BY DEF Call
<1>3. /\ NPackets \in Nat /\ HeaderSize \in Nat \ {0} /\ Total \in Nat /\ fed \in Nat /\ fed <= Total
      /\ mInputBufSize \in Nat /\ next \in 1 .. (NPackets + 1) /\ n \in Nat \ {0}
      /\ \A k \in 0 .. NPackets : ends[k] \in Nat
  BY <1>1, StreamFacts, FramingAssumption DEF TypeOK
<1>4. \A i, j \in 0 .. NPackets : i < j => ends[i] + HeaderSize <= ends[j]
  BY <1>1, EndsIncrease
<1>5. next - 1 \in 0 .. NPackets /\ ends[next - 1] + mInputBufSize = fed /\ mInputBufSize < HeaderSize
  BY <1>1, <1>2, <1>3 DEF Aligned
<1>6. CASE fed \in Ends /\ \E e \in Ends : e <= fed + n /\ fed + n < e + HeaderSize
  <2>1. PICK k \in 0 .. NPackets : fed = ends[k]
    BY <1>6 DEF Ends
  <2>2. mInputBufSize = 0
    BY <1>3, <1>4, <1>5, <2>1
  <2>3. \E e \in Ends' : e <= fed' /\ fed' < e + HeaderSize
    BY <1>2, <1>6 DEF Ends
  <2>. QED  BY <1>2, <1>3, <1>5, <2>2, <2>3 DEF Aligned
<1>7. CASE \E k \in Packet : ends[k - 1] < fed /\ fed < ends[k] /\ fed + n = ends[k]
  <2>1. PICK k \in Packet : ends[k - 1] < fed /\ fed < ends[k] /\ fed + n = ends[k]
    BY <1>7
  <2>2. k \in 1 .. NPackets /\ k - 1 \in 0 .. NPackets /\ k \in 0 .. NPackets
    BY <1>3 DEF Packet
  <2>3. k = next
    <3>1. ~ k < next
      BY <1>3, <1>4, <1>5, <2>1, <2>2
    <3>2. ~ next < k
      <4>1. ends[next - 1] \in Nat /\ ends[k - 1] \in Nat
        BY <1>3, <1>5, <2>2
      <4>2. next < k => ends[next - 1] + HeaderSize <= ends[k - 1]
        BY <1>3, <1>4, <1>5, <2>2
      <4>. QED  BY <1>3, <1>5, <2>1, <4>1, <4>2
    <3>. QED  BY <1>3, <2>2, <3>1, <3>2
  <2>4. mInputBufSize \in 1 .. (HeaderSize - 1)
    BY <1>3, <1>5, <2>1, <2>3
  <2>. QED  BY <1>2, <1>3, <1>5, <2>1, <2>3, <2>4 DEF Aligned
<1>. QED  BY <1>2, <1>6, <1>7 DEF MayEnd

\* In the loop, with a packet that is not too big: either its header is cut, and
\* all that is left of the piece is taken, or the copy ends where it ends.
LEMMA WholeCopy ==
    ASSUME WholeInv, pc = "loop", remain > 0, ~ TooBig
    PROVE  /\ next \in Packet /\ mInputBufSize \in Nat
           /\ \/ mInputBufSize + Copy = mSize(next)
              \/ /\ mInputBufSize = 0 /\ Copy = remain /\ remain < HeaderSize
                 /\ mSize(next) >= HeaderSize
<1>1. Aligned /\ FramingInv /\ TypeOK
  BY DEF WholeInv, FramingInv
<1>2. next \in Packet /\ Copy \in 0 .. remain
  BY <1>1, CopyFits
<1>3. /\ NPackets \in Nat /\ HeaderSize \in Nat \ {0} /\ fed \in Nat
      /\ mInputBufSize \in Nat /\ remain \in Nat
      /\ \A k \in 0 .. NPackets : ends[k] \in Nat
      /\ MaxPacketSize \in Nat /\ HeaderSize <= MaxPacketSize
      /\ mSize(next) \in Nat /\ mSize(next) >= HeaderSize /\ mSize(next) <= MaxPacketSize
  BY <1>1, <1>2, StreamFacts, FramingAssumption DEF TypeOK, TooBig
<1>4. \A i, j \in 0 .. NPackets : i < j => ends[i] + HeaderSize <= ends[j]
  BY <1>1, EndsIncrease
<1>5. /\ next \in 0 .. NPackets /\ next - 1 \in 0 .. NPackets
      /\ ends[next] = ends[next - 1] + mSize(next) /\ ends[next] \in Nat /\ ends[next - 1] \in Nat
  <2>1. next \in 0 .. NPackets /\ next - 1 \in 0 .. NPackets
    BY <1>2, <1>3 DEF Packet
  <2>. QED  BY <1>3, <2>1 DEF mSize
<1>6. ends[next - 1] + mInputBufSize + remain = fed
  BY <1>1 DEF Aligned
<1>7. CASE mInputBufSize = 0 /\ remain >= HeaderSize
  <2>1. PICK e \in Ends : e <= fed /\ fed < e + HeaderSize
    BY <1>1, <1>3, <1>7 DEF Aligned
  <2>2. PICK k \in 0 .. NPackets : e = ends[k]
    BY <2>1 DEF Ends
  <2>3. ~ k < next
    <3>1. k < next => k = next - 1 \/ ends[k] + HeaderSize <= ends[next - 1]
      BY <1>3, <1>4, <1>5
    <3>. QED  BY <1>3, <1>5, <1>6, <1>7, <2>1, <2>2, <3>1
  <2>4. ends[next] <= fed
    <3>1. k = next \/ ends[next] + HeaderSize <= ends[k]
      BY <1>3, <1>4, <1>5, <2>3
    <3>. QED  BY <1>3, <1>5, <2>1, <2>2, <3>1
  <2>5. Copy = mSize(next)
    BY <1>3, <1>5, <1>6, <1>7, <2>4 DEF Copy, Least
  <2>. QED  BY <1>2, <1>3, <1>7, <2>5
<1>8. CASE mInputBufSize = 0 /\ remain < HeaderSize
  <2>1. Copy = remain
    BY <1>3, <1>8 DEF Copy, Least
  <2>. QED  BY <1>2, <1>3, <1>8, <2>1
<1>9. CASE mInputBufSize # 0
  <2>1. mInputBufSize \in 1 .. (HeaderSize - 1) /\ fed = ends[next]
    BY <1>1, <1>9 DEF Aligned
  <2>2. remain = mSize(next) - mInputBufSize
    BY <1>3, <1>5, <1>6, <2>1
  <2>3. Copy = remain
    BY <1>3, <2>1, <2>2 DEF Copy, Least
  <2>. QED  BY <1>2, <1>3, <2>2, <2>3
<1>. QED  BY <1>3, <1>7, <1>8, <1>9

LEMMA WholeStep == ASSUME ~ Split PROVE WholeInv /\ [Next]_vars => WholeInv'
<1> SUFFICES ASSUME WholeInv, [Next]_vars PROVE WholeInv'
  OBVIOUS
<1>1. FramingInv /\ FramingInv' /\ TypeOK
  BY FramingStep DEF WholeInv, FramingInv
<1>2. /\ FramesWhole /\ (TooBig \/ Aligned)
      /\ \A j \in Packet : j < next => mSize(j) <= MaxPacketSize
  BY DEF WholeInv
<1>3. ASSUME NEW n \in 1 .. (Total - fed), Call(n) PROVE WholeInv'
  <2>1. FramesWhole' /\ ends' = ends /\ next' = next
    BY <1>3 DEF Call, FramesWhole
  <2>2. TooBig' <=> TooBig
    BY <2>1 DEF TooBig, mSize
  <2>3. TooBig' \/ Aligned'
    BY <1>3, <2>2, WholeCall
  <2>. QED  BY <1>1, <1>2, <2>1, <2>3 DEF WholeInv, mSize
<1>4. CASE Break
  <2>1. FramesWhole' /\ ends' = ends /\ next' = next /\ fed' = fed
    BY <1>4 DEF Break, FramesWhole
  <2>2. TooBig' <=> TooBig
    BY <2>1 DEF TooBig, mSize
  <2>3. ASSUME ~ TooBig PROVE Aligned'
    <3>1. pc = "loop" /\ remain > 0
      BY <1>4 DEF Break
    <3>2. /\ next \in Packet /\ mInputBufSize \in Nat
          /\ \/ mInputBufSize + Copy = mSize(next)
             \/ /\ mInputBufSize = 0 /\ Copy = remain /\ remain < HeaderSize
                /\ mSize(next) >= HeaderSize
      BY <2>3, <3>1, WholeCopy
    <3>3. mSize(next) <= MaxPacketSize /\ mSize(next) >= HeaderSize /\ mSize(next) \in Nat
      BY <1>1, <2>3, <3>2, StreamFacts, FramingAssumption DEF TooBig
    <3>4. mInputBufSize = 0 /\ Copy = remain /\ remain < HeaderSize
      BY <1>4, <3>2, <3>3, FramingAssumption DEF Break
    <3>5. mInputBufSize' = remain /\ remain' = 0 /\ pc' = "idle" /\ remain \in Nat
      BY <1>1, <1>4, <3>4 DEF Break, TypeOK
    <3>6. ends[next - 1] + mInputBufSize + remain = fed /\ ends[next - 1] \in Nat
      BY <1>1, <1>2, <2>3, <3>2, StreamFacts, FramingAssumption DEF Aligned, Packet
    <3>. QED  BY <2>1, <3>4, <3>5, <3>6 DEF Aligned
  <2>. QED  BY <1>1, <1>2, <2>1, <2>2, <2>3 DEF WholeInv, mSize
<1>5. CASE Handle
  <2>1. pc = "loop" /\ remain > 0 /\ mSize(next) <= MaxPacketSize /\ mInputBufSize + Copy >= HeaderSize
    BY <1>5 DEF Handle
  <2>2. ~ TooBig
    <3>1. next \in Packet
      BY <1>1, <2>1, CopyFits
    <3>2. mSize(next) \in Nat
      BY <1>1, <3>1, StreamFacts
    <3>. QED  BY <2>1, <3>2, FramingAssumption DEF TooBig
  <2>3. /\ next \in Packet /\ mInputBufSize \in Nat
        /\ \/ mInputBufSize + Copy = mSize(next)
           \/ /\ mInputBufSize = 0 /\ Copy = remain /\ remain < HeaderSize
              /\ mSize(next) >= HeaderSize
    BY <2>1, <2>2, WholeCopy
  <2>4. remain \in Nat /\ Copy \in 0 .. remain
    BY <1>1, <2>1, CopyFits DEF TypeOK
  <2>5. mInputBufSize + Copy = mSize(next)
    BY <2>1, <2>3, <2>4, FramingAssumption
  <2>6. /\ pc' = "loop" /\ mInputBufSize' = 0 /\ next' = next + 1 /\ remain' = remain - Copy
        /\ ends' = ends /\ fed' = fed
    BY <1>5, <2>5 DEF Handle
  <2>7. /\ next \in Nat /\ ends[next] \in Nat /\ ends[next - 1] \in Nat
        /\ ends[next] = ends[next - 1] + mInputBufSize + Copy
    <3>1. next \in Nat /\ ends[next] \in Nat /\ ends[next - 1] \in Nat
      BY <1>1, <2>3, StreamFacts, FramingAssumption DEF Packet
    <3>. QED  BY <2>3, <2>4, <2>5, <3>1 DEF mSize
  <2>8. Aligned'
    <3>1. Aligned
      BY <1>2, <2>2
    <3>2. \E e \in Ends : e <= fed /\ fed < e + HeaderSize
      <4>1. CASE mInputBufSize = 0
        BY <2>1, <3>1, <4>1 DEF Aligned
      <4>2. CASE mInputBufSize # 0
        <5>1. fed = ends[next] /\ next \in 0 .. NPackets
          BY <2>1, <2>3, <3>1, <4>2, FramingAssumption DEF Aligned, Packet
        <5>2. ends[next] \in Ends
          BY <5>1 DEF Ends
        <5>3. ends[next] <= fed /\ fed < ends[next] + HeaderSize
          BY <2>7, <5>1, FramingAssumption
        <5>. QED  BY <5>2, <5>3
      <4>. QED  BY <4>1, <4>2
    <3>3. ends'[next' - 1] + mInputBufSize' + remain' = fed'
      <4>1. ends[next - 1] + mInputBufSize + remain = fed /\ next' - 1 = next
        BY <2>6, <2>7, <3>1 DEF Aligned
      <4>. QED  BY <2>3, <2>4, <2>6, <2>7, <4>1
    <3>. QED  BY <2>6, <3>2, <3>3 DEF Aligned, Ends
  <2>9. \A j \in Packet : j < next' => mSize(j)' <= MaxPacketSize
    <3>1. \A j \in Packet : mSize(j)' = mSize(j)
      BY <2>6 DEF mSize
    <3>2. \A j \in Packet : j < next' => j < next \/ j = next
      BY <2>6, <2>7, FramingAssumption DEF Packet
    <3>. QED  BY <1>2, <2>1, <3>1, <3>2
  <2>. QED  BY <1>1, <2>6, <2>8, <2>9 DEF WholeInv, FramesWhole
<1>6. CASE Return
  <2>1. ASSUME Aligned PROVE Aligned'
    <3>1. mInputBufSize < HeaderSize
      BY <1>6, <2>1, FramingAssumption DEF Return, Aligned
    <3>. QED  BY <1>6, <2>1, <3>1 DEF Return, Aligned
  <2>2. FramesWhole' /\ ends' = ends /\ next' = next
    BY <1>6 DEF Return, FramesWhole
  <2>. QED  BY <1>1, <1>2, <2>1, <2>2 DEF WholeInv, TooBig, mSize
<1>7. CASE UNCHANGED vars
  BY <1>1, <1>2, <1>7 DEF vars, WholeInv, TooBig, mSize, Aligned, Ends, FramesWhole
<1>. QED  BY <1>3, <1>4, <1>5, <1>6, <1>7 DEF Next

LEMMA HandledFacts == WholeInv => HandledExactly
<1> SUFFICES ASSUME WholeInv, pc = "idle", NEW k \in Packet
             PROVE  k < next <=> ends[k] <= fed /\ \A j \in 1 .. k : mSize(j) <= MaxPacketSize
  BY DEF HandledExactly
<1>1. FramingInv /\ TypeOK /\ (\A j \in Packet : j < next => mSize(j) <= MaxPacketSize) /\ (TooBig \/ Aligned)
  BY DEF WholeInv, FramingInv
<1>2. /\ NPackets \in Nat /\ HeaderSize \in Nat \ {0} /\ fed \in Nat /\ MaxPacketSize \in Nat
      /\ mInputBufSize \in Nat /\ remain \in Nat /\ next \in 1 .. (NPackets + 1)
      /\ \A i \in 0 .. NPackets : ends[i] \in Nat
      /\ \A j \in Packet : mSize(j) \in Nat
  BY <1>1, StreamFacts, FramingAssumption DEF TypeOK
<1>3. /\ \A i, j \in 0 .. NPackets : i < j => ends[i] + HeaderSize <= ends[j]
      /\ k \in 1 .. NPackets /\ k \in 0 .. NPackets /\ next - 1 \in 0 .. NPackets
  BY <1>1, <1>2, EndsIncrease DEF Packet
<1>4. ASSUME k < next PROVE ends[k] <= fed /\ \A j \in 1 .. k : mSize(j) <= MaxPacketSize
  <2>1. ends[next - 1] <= fed
    BY <1>1, <1>2, <1>3 DEF FramingInv, InStream
  <2>2. k = next - 1 \/ ends[k] + HeaderSize <= ends[next - 1]
    BY <1>2, <1>3, <1>4
  <2>. QED  BY <1>1, <1>2, <1>3, <1>4, <2>1, <2>2 DEF Packet
<1>5. ASSUME ~ k < next, \A j \in 1 .. k : mSize(j) <= MaxPacketSize PROVE ~ ends[k] <= fed
  <2>1. next \in 1 .. k /\ next \in Packet
    BY <1>2, <1>3, <1>5 DEF Packet
  <2>2. Aligned
    BY <1>1, <1>2, <1>5, <2>1 DEF TooBig
  <2>3. fed < ends[next - 1] + HeaderSize
    BY <1>2, <1>3, <2>2 DEF Aligned
  <2>4. ends[next - 1] + HeaderSize <= ends[k]
    BY <1>2, <1>3, <1>5
  <2>. QED  BY <1>2, <1>3, <2>3, <2>4
<1>. QED  BY <1>4, <1>5

\* When a piece cuts a packet only inside its header, HandleIncomingPacket is
\* always called with a whole packet, for every stream and every size a header
\* announces.  (With pieces that end anywhere it is not: MCMuxFramingSplit.)
THEOREM FramesWholeCorrect == ASSUME ~ Split PROVE Spec => []FramesWhole
<1>1. WholeInv /\ [Next]_vars => WholeInv'
  BY WholeStep
<1>2. WholeInv => FramesWhole
  BY DEF WholeInv
<1>. QED  BY <1>1, <1>2, WholeInit, PTL DEF Spec

\* Under the same condition exactly the packets that have arrived have been handled
\* when ReceiveRaw returns, up to the first that is too big: none is lost, none is
\* handled twice and none is handled after one that was refused.
THEOREM HandledExactlyCorrect == ASSUME ~ Split PROVE Spec => []HandledExactly
<1>1. WholeInv /\ [Next]_vars => WholeInv'
  BY WholeStep
<1>. QED  BY <1>1, HandledFacts, WholeInit, PTL DEF Spec
=============================================================================
