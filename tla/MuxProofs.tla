----------------------------- MODULE MuxProofs -----------------------------
(***************************************************************************)
(* Proofs about Mux for every value of its constants.                      *)
(***************************************************************************)
EXTENDS MuxInvariant, TLAPS

-----------------------------------------------------------------------------
(* Operators.                                                              *)

LEMMA PeerSide == \A s \in Side : Peer(s) \in Side /\ Peer(s) # s /\ Peer(Peer(s)) = s
BY DEF Side, Peer

LEMMA SeqNoType == SeqNo \subseteq Nat /\ 1 \in SeqNo /\ 0 \in SeqNo
BY SeqModAssumption DEF SeqNo

LEMMA SentType ==
    ASSUME NEW ch \in Channel, NEW ok \in BOOLEAN
    PROVE  Sent(ch, ok) \in Channel /\ Received(ch) \in Channel /\ StampedSeq(ch) \in SeqNo
<1>1. \A n \in SeqNo : Incremented(n) \in SeqNo /\ AtLeastFirst(n) \in SeqNo
  BY SeqModAssumption DEF SeqNo, Incremented, AtLeastFirst, first_seq
<1>2. ch.mSeq \in SeqNo /\ ch.mSeqPeer \in SeqNo
  BY DEF Channel
<1>3. Incremented(ch.mSeq) \in SeqNo /\ AtLeastFirst(Incremented(ch.mSeqPeer)) \in SeqNo
  BY <1>1, <1>2
<1>4. Sent(ch, ok) \in Channel
  BY <1>3 DEF Channel, Sent
<1>5. Received(ch) \in Channel
  BY <1>3 DEF Channel, Received
<1>. QED  BY <1>1, <1>2, <1>4, <1>5 DEF StampedSeq

LEMMA NewChannelType == \A n \in Nat : NewChannel(n) \in Channel
BY SeqModAssumption DEF NewChannel, Channel, SeqNo, first_seq

LEMMA WithType ==
    ASSUME NEW f, DOMAIN f \subseteq Nat, f \in [DOMAIN f -> Channel], NEW k \in Nat, NEW v \in Channel
    PROVE  /\ DOMAIN With(f, k, v) = DOMAIN f \cup {k}
           /\ With(f, k, v) \in [DOMAIN With(f, k, v) -> Channel]
           /\ With(f, k, v)[k] = v
           /\ \A x \in DOMAIN f : x # k => With(f, k, v)[x] = f[x]
BY DEF With

LEMMA WithoutType ==
    ASSUME NEW f, DOMAIN f \subseteq Nat, f \in [DOMAIN f -> Channel], NEW k
    PROVE  /\ DOMAIN Without(f, k) = DOMAIN f \ {k}
           /\ Without(f, k) \in [DOMAIN Without(f, k) -> Channel]
           /\ \A x \in DOMAIN f : x # k => Without(f, k)[x] = f[x]
BY DEF Without

LEMMA PktType ==
    ASSUME NEW cmd \in MuxCmd, NEW c \in Nat, NEW n \in SeqNo
    PROVE  Pkt(cmd, c, n) \in MuxPacket
BY SeqModAssumption DEF Pkt, MuxPacket, SeqNo

LEMMA ReplyPktType ==
    ASSUME NEW n \in SeqNo, NEW r \in SeqNo, NEW e \in {0, 1}, NEW z \in Nat, NEW c \in Nat
    PROVE  ReplyPkt(n, r, e, z, c) \in MuxPacket
BY DEF ReplyPkt, MuxPacket, MuxCmd

LEMMA DoSendType ==
    ASSUME NEW w \in [Side -> Seq(MuxPacket)], NEW s \in Side, NEW p \in MuxPacket, NEW ok \in BOOLEAN
    PROVE  DoSend(w, s, p, ok) \in [Side -> Seq(MuxPacket)]
BY PeerSide DEF DoSend

LEMMA FreeIdsNext ==
    ASSUME NEW f, NEW n \in Nat, n + 2 \notin DOMAIN f
    PROVE  NextFreeId(f, n) = n + 2
<1>1. n + 2 \in FreeIds(f, n)
  BY BoundsAssumption DEF FreeIds
<1>2. \A m \in FreeIds(f, n) : m >= n + 2 /\ m \in Nat
  BY BoundsAssumption DEF FreeIds
<1>3. \A m \in FreeIds(f, n) : (\A i \in FreeIds(f, n) : m <= i) => m = n + 2
  BY <1>1, <1>2
<1>. QED  BY <1>1, <1>2, <1>3 DEF NextFreeId

-----------------------------------------------------------------------------
(* Types.                                                                  *)

LEMMA TakenType ==
    ASSUME NEW s \in Side, TypeOK, wire[s] # <<>>
    PROVE  /\ Taken(s) \in [Side -> Seq(MuxPacket)]
           /\ Head(wire[s]) \in MuxPacket
BY DEF TypeOK, Taken

LEMMA WriteOutcomesType == TypeOK => WriteOutcomes \subseteq BOOLEAN
BY DEF WriteOutcomes

LEMMA CountFailType ==
    ASSUME TypeOK, NEW ok \in BOOLEAN, CountFail(ok)
    PROVE  nFails' \in Nat /\ nFails' >= nFails
BY DEF TypeOK, CountFail

\* The map of channels of every side has the right type.
ChannelsType(chans) ==
    /\ DOMAIN chans = Side
    /\ \A t \in Side : DOMAIN chans[t] \subseteq Nat /\ chans[t] \in [DOMAIN chans[t] -> Channel]

LEMMA ReplaceType ==
    ASSUME ChannelsType(mChannels), NEW s \in Side, NEW f, DOMAIN f \subseteq Nat,
           f \in [DOMAIN f -> Channel], mChannels' = [mChannels EXCEPT ![s] = f]
    PROVE  /\ ChannelsType(mChannels')
           /\ mChannels'[s] = f
           /\ mChannels'[Peer(s)] = mChannels[Peer(s)]
<1>1. mChannels'[s] = f /\ \A t \in Side : t # s => mChannels'[t] = mChannels[t]
  BY DEF ChannelsType
<1>. QED  BY <1>1, PeerSide DEF ChannelsType

LEMMA EraseType ==
    ASSUME TypeOK, NEW s \in Side, NEW c, mChannels' = [mChannels EXCEPT ![s] = Without(@, c)]
    PROVE  /\ ChannelsType(mChannels')
           /\ DOMAIN mChannels'[s] = DOMAIN mChannels[s] \ {c}
           /\ \A x \in DOMAIN mChannels'[s] : mChannels'[s][x] = mChannels[s][x]
           /\ mChannels'[Peer(s)] = mChannels[Peer(s)]
<1> DEFINE f == Without(mChannels[s], c)
<1>1. ChannelsType(mChannels)
  BY DEF TypeOK, ChannelsType
<1>2. /\ DOMAIN f = DOMAIN mChannels[s] \ {c} /\ f \in [DOMAIN f -> Channel]
      /\ \A x \in DOMAIN mChannels[s] : x # c => f[x] = mChannels[s][x]
  BY <1>1, WithoutType DEF ChannelsType
<1>3. DOMAIN f \subseteq Nat
  BY <1>1, <1>2 DEF ChannelsType
<1> HIDE DEF f
<1>. QED  BY <1>1, <1>2, <1>3, ReplaceType DEF f

LEMMA InsertType ==
    ASSUME TypeOK, NEW s \in Side, NEW c \in Nat, NEW v \in Channel,
           mChannels' = [mChannels EXCEPT ![s] = With(@, c, v)]
    PROVE  /\ ChannelsType(mChannels')
           /\ DOMAIN mChannels'[s] = DOMAIN mChannels[s] \cup {c}
           /\ mChannels'[s][c] = v
           /\ \A x \in DOMAIN mChannels[s] : x # c => mChannels'[s][x] = mChannels[s][x]
           /\ mChannels'[Peer(s)] = mChannels[Peer(s)]
<1> DEFINE f == With(mChannels[s], c, v)
<1>1. ChannelsType(mChannels)
  BY DEF TypeOK, ChannelsType
<1>2. /\ DOMAIN f = DOMAIN mChannels[s] \cup {c} /\ f \in [DOMAIN f -> Channel] /\ f[c] = v
      /\ \A x \in DOMAIN mChannels[s] : x # c => f[x] = mChannels[s][x]
  BY <1>1, WithType DEF ChannelsType
<1>3. DOMAIN f \subseteq Nat
  BY <1>1, <1>2 DEF ChannelsType
<1> HIDE DEF f
<1>. QED  BY <1>1, <1>2, <1>3, ReplaceType DEF f

LEMMA UpdateType ==
    ASSUME TypeOK, NEW s \in Side, NEW c \in DOMAIN mChannels[s], NEW v \in Channel,
           mChannels' = [mChannels EXCEPT ![s][c] = v]
    PROVE  /\ ChannelsType(mChannels')
           /\ DOMAIN mChannels'[s] = DOMAIN mChannels[s]
           /\ mChannels'[s][c] = v
           /\ \A x \in DOMAIN mChannels[s] : x # c => mChannels'[s][x] = mChannels[s][x]
           /\ mChannels'[Peer(s)] = mChannels[Peer(s)]
<1> DEFINE f == [mChannels[s] EXCEPT ![c] = v]
<1>1. ChannelsType(mChannels)
  BY DEF TypeOK, ChannelsType
<1>2. /\ DOMAIN f = DOMAIN mChannels[s] /\ f \in [DOMAIN f -> Channel] /\ f[c] = v
      /\ \A x \in DOMAIN mChannels[s] : x # c => f[x] = mChannels[s][x]
  BY <1>1 DEF ChannelsType
<1>3. DOMAIN f \subseteq Nat /\ mChannels' = [mChannels EXCEPT ![s] = f]
  BY <1>1, <1>2 DEF ChannelsType
<1> HIDE DEF f
<1>. QED  BY <1>1, <1>2, <1>3, ReplaceType

LEMMA OpenType == ASSUME TypeOK, NEW s \in Side, Open(s) PROVE TypeOK'
<1>1. PICK ok \in WriteOutcomes :
        LET seq == StampedSeq(mControlChan[s]) IN
        /\ mControlChan' = [mControlChan EXCEPT ![s] = Sent(@, ok)]
        /\ wire' = DoSend(wire, s, Pkt("OpenChan", 0, seq), ok)
        /\ mWaitingPackets' = IF ok THEN [mWaitingPackets EXCEPT ![s] = @ \cup {seq}]
                                    ELSE mWaitingPackets
        /\ CountFail(ok)
        /\ wrapped' = (wrapped \/ mControlChan'[s].mSeq = 0)
  BY DEF Open
<1>2. ok \in BOOLEAN
  BY WriteOutcomesType
<1>3. mControlChan[s] \in Channel
  BY DEF TypeOK
<1>4. Sent(mControlChan[s], ok) \in Channel /\ StampedSeq(mControlChan[s]) \in SeqNo
  BY <1>2, <1>3, SentType
<1>5. wire' \in [Side -> Seq(MuxPacket)]
  <2>1. Pkt("OpenChan", 0, StampedSeq(mControlChan[s])) \in MuxPacket
    BY <1>4, PktType DEF MuxCmd
  <2>. QED  BY <1>1, <1>2, <2>1, DoSendType DEF TypeOK
<1>6. nFails' \in Nat
  BY <1>1, <1>2, CountFailType
<1>7. mControlChan' \in [Side -> Channel] /\ wrapped' \in BOOLEAN
  BY <1>1, <1>4 DEF TypeOK
<1>8. mWaitingPackets' \in [Side -> SUBSET SeqNo]
  BY <1>1, <1>4 DEF TypeOK
<1>. QED  BY <1>5, <1>6, <1>7, <1>8 DEF TypeOK, Open

LEMMA WriteType == ASSUME TypeOK, NEW s \in Side, NEW c \in DOMAIN mChannels[s], Write(s, c) PROVE TypeOK'
<1> DEFINE ch == mChannels[s][c]
<1>1. PICK ok \in WriteOutcomes :
        /\ mChannels' = [mChannels EXCEPT ![s][c] = Sent(ch, ok)]
        /\ wire' = DoSend(wire, s, Pkt("Data", c, StampedSeq(ch)), ok)
        /\ CountFail(ok)
        /\ wrapped' = (wrapped \/ mChannels'[s][c].mSeq = 0)
  BY DEF Write
<1>2. ok \in BOOLEAN /\ ch \in Channel /\ c \in Nat
  BY WriteOutcomesType DEF TypeOK
<1> HIDE DEF ch
<1>3. Sent(ch, ok) \in Channel /\ Pkt("Data", c, StampedSeq(ch)) \in MuxPacket
  BY <1>2, SentType, PktType DEF MuxCmd
<1>4. ChannelsType(mChannels')
  BY <1>1, <1>3, UpdateType
<1>5. wire' \in [Side -> Seq(MuxPacket)] /\ nFails' \in Nat
  BY <1>1, <1>2, <1>3, DoSendType, CountFailType DEF TypeOK
<1>6. wrapped' \in BOOLEAN
  BY <1>1
<1>. QED  BY <1>4, <1>5, <1>6 DEF TypeOK, ChannelsType, Write

LEMMA AskCloseType == ASSUME TypeOK, NEW s \in Side, NEW c \in DOMAIN mChannels[s], AskClose(s, c) PROVE TypeOK'
<1> DEFINE ch == mChannels[s][c]
<1>1. PICK ok \in WriteOutcomes :
        /\ ok \/ ch.mValid
        /\ wire' = DoSend(wire, s, Pkt("CloseChan", c, StampedSeq(ch)), ok /\ ch.mValid)
        /\ CountFail(ok)
        /\ wrapped' = (wrapped \/ (ch.mValid /\ Sent(ch, ok).mSeq = 0))
  BY DEF AskClose
<1>2. ok \in BOOLEAN /\ ch \in Channel /\ c \in Nat
  BY WriteOutcomesType DEF TypeOK
<1>3. ChannelsType(mChannels')
  BY EraseType DEF AskClose
<1> HIDE DEF ch
<1>4. Pkt("CloseChan", c, StampedSeq(ch)) \in MuxPacket /\ (ok /\ ch.mValid) \in BOOLEAN
  BY <1>2, SentType, PktType DEF MuxCmd
<1>5. wire' \in [Side -> Seq(MuxPacket)] /\ nFails' \in Nat
  BY <1>1, <1>2, <1>4, DoSendType, CountFailType DEF TypeOK
<1>6. wrapped' \in BOOLEAN
  BY <1>1
<1>. QED  BY <1>3, <1>5, <1>6 DEF TypeOK, ChannelsType, AskClose

LEMMA HaltType == ASSUME TypeOK, NEW s \in Side, NEW why \in Asserts, Halt(s, why) PROVE TypeOK'
BY DEF TypeOK, Halt

LEMMA HandleCloseType == ASSUME TypeOK, NEW s \in Side, HandleClose(s) PROVE TypeOK'
<1>1. ChannelsType(mChannels')
  BY EraseType DEF HandleClose
<1>2. wire' \in [Side -> Seq(MuxPacket)]
  BY TakenType DEF HandleClose, Incoming
<1>. QED  BY <1>1, <1>2 DEF TypeOK, ChannelsType, HandleClose

LEMMA HandleNakType == ASSUME TypeOK, NEW s \in Side, HandleNak(s) PROVE TypeOK'
<1>1. CASE Halt(s, "delete of mControlChan")
  BY <1>1, HaltType DEF Asserts
<1>2. CASE /\ mChannels' = [mChannels EXCEPT ![s] = Without(@, Head(wire[s]).mChan)]
           /\ wire' = Taken(s)
           /\ UNCHANGED <<mControlChan, mNextChanId, mWaitingPackets, halted,
                          nOpens, nSends, nFails, wrapped>>
  <2>1. ChannelsType(mChannels')
    BY <1>2, EraseType
  <2>2. wire' \in [Side -> Seq(MuxPacket)]
    BY <1>2, TakenType DEF HandleNak, Incoming
  <2>. QED  BY <1>2, <2>1, <2>2 DEF TypeOK, ChannelsType
<1>. QED  BY <1>1, <1>2 DEF HandleNak

LEMMA HandleStrayType == ASSUME TypeOK, NEW s \in Side, HandleStray(s) PROVE TypeOK'
<1> DEFINE p == Head(wire[s])
<1>1. PICK ok \in WriteOutcomes :
        /\ wire' = DoSend(Taken(s), s, Pkt("Nak", p.mChan, p.mSeq), ok)
        /\ CountFail(ok)
  BY DEF HandleStray
<1>2. ok \in BOOLEAN
  BY WriteOutcomesType
<1>3. p \in MuxPacket /\ Taken(s) \in [Side -> Seq(MuxPacket)]
  BY TakenType DEF HandleStray, Incoming
<1>4. p.mChan \in Nat /\ p.mSeq \in SeqNo
  BY <1>3 DEF MuxPacket
<1> HIDE DEF p
<1>5. wire' \in [Side -> Seq(MuxPacket)] /\ nFails' \in Nat
  BY <1>1, <1>2, <1>3, <1>4, PktType, DoSendType, CountFailType DEF MuxCmd
<1>. QED  BY <1>5 DEF TypeOK, HandleStray

LEMMA RoutedChannel ==
    ASSUME TypeOK, NEW s \in Side, NEW cmd, Routed(s, cmd)
    PROVE  /\ wire[s] # <<>> /\ Head(wire[s]) \in MuxPacket /\ Head(wire[s]).mCmd = cmd
           /\ Taken(s) \in [Side -> Seq(MuxPacket)]
BY TakenType DEF Routed, Incoming

LEMMA OutOfSequenceType == ASSUME TypeOK, NEW s \in Side, OutOfSequence(s) PROVE TypeOK'
BY HaltType DEF OutOfSequence, Asserts

LEMMA BadReplyType == ASSUME TypeOK, NEW s \in Side, BadReply(s) PROVE TypeOK'
<1>1. ReplyVerdict(s, Head(wire[s])) \in Asserts
  BY DEF BadReply, ReplyVerdict, Asserts
<1>. QED  BY <1>1, HaltType DEF BadReply

LEMMA HandleDataType == ASSUME TypeOK, NEW s \in Side, HandleData(s) PROVE TypeOK'
<1> DEFINE c == Head(wire[s]).mChan
<1>1. c \in DOMAIN mChannels[s] /\ mChannels' = [mChannels EXCEPT ![s][c] = Received(mChannels[s][c])]
  BY DEF HandleData
<1>2. mChannels[s][c] \in Channel
  BY <1>1 DEF TypeOK
<1> HIDE DEF c
<1>3. Received(mChannels[s][c]) \in Channel
  BY <1>2, SentType
<1>4. ChannelsType(mChannels')
  BY <1>1, <1>3, UpdateType
<1>5. wire' \in [Side -> Seq(MuxPacket)]
  BY RoutedChannel DEF HandleData
<1>. QED  BY <1>4, <1>5 DEF TypeOK, ChannelsType, HandleData

LEMMA ReplySent ==
    ASSUME TypeOK, NEW s \in Side, wire[s] # <<>>, NEW ok \in BOOLEAN,
           NEW e \in {0, 1}, NEW z \in Nat, NEW c \in Nat
    PROVE  LET ctl == Received(mControlChan[s])
               r == ReplyPkt(StampedSeq(ctl), Head(wire[s]).mSeq, e, z, c) IN
           /\ ctl \in Channel /\ Sent(ctl, ok) \in Channel
           /\ r \in MuxPacket
           /\ DoSend(Taken(s), s, r, ok) \in [Side -> Seq(MuxPacket)]
<1> DEFINE ctl == Received(mControlChan[s])
           r == ReplyPkt(StampedSeq(ctl), Head(wire[s]).mSeq, e, z, c)
<1>1. mControlChan[s] \in Channel /\ Head(wire[s]).mSeq \in SeqNo
  BY TakenType DEF TypeOK, MuxPacket
<1>2. ctl \in Channel
  BY <1>1, SentType
<1> HIDE DEF ctl
<1>3. Sent(ctl, ok) \in Channel /\ StampedSeq(ctl) \in SeqNo
  BY <1>2, SentType
<1>4. r \in MuxPacket
  BY <1>1, <1>3, ReplyPktType
<1> HIDE DEF r
<1>5. DoSend(Taken(s), s, r, ok) \in [Side -> Seq(MuxPacket)]
  BY <1>4, DoSendType, TakenType
<1>. QED  BY <1>2, <1>3, <1>4, <1>5 DEF r, ctl

LEMMA RefuseOpenType == ASSUME TypeOK, NEW s \in Side, RefuseOpen(s) PROVE TypeOK'
<1> DEFINE ctl == Received(mControlChan[s])
           r == ReplyPkt(StampedSeq(ctl), Head(wire[s]).mSeq, 1, 0, 0)
<1>1. PICK ok \in WriteOutcomes :
        /\ mControlChan' = [mControlChan EXCEPT ![s] = Sent(ctl, ok)]
        /\ wire' = DoSend(Taken(s), s, r, ok)
        /\ CountFail(ok)
        /\ wrapped' = (wrapped \/ mControlChan'[s].mSeq = 0)
  BY DEF RefuseOpen
<1>2. ok \in BOOLEAN /\ wire[s] # <<>>
  BY WriteOutcomesType, RoutedChannel DEF RefuseOpen
<1>3. Sent(ctl, ok) \in Channel /\ DoSend(Taken(s), s, r, ok) \in [Side -> Seq(MuxPacket)]
  BY <1>2, ReplySent
<1> HIDE DEF ctl, r
<1>4. nFails' \in Nat /\ wrapped' \in BOOLEAN
  BY <1>1, <1>2, CountFailType
<1>5. mControlChan' \in [Side -> Channel] /\ wire' \in [Side -> Seq(MuxPacket)]
  BY <1>1, <1>3 DEF TypeOK
<1>. QED  BY <1>4, <1>5 DEF TypeOK, RefuseOpen

LEMMA AcceptOpenType == ASSUME TypeOK, ChanIdsOK, NEW s \in Side, AcceptOpen(s) PROVE TypeOK'
<1> DEFINE ctl == Received(mControlChan[s])
           id == mNextChanId[s]
<1>1. PICK sz \in Sizes, ok \in WriteOutcomes :
        /\ sz >= 0
        /\ mChannels' = [mChannels EXCEPT ![s] = With(@, id, NewChannel(sz))]
        /\ mNextChanId' = [mNextChanId EXCEPT ![s] = NextFreeId(mChannels'[s], id)]
        /\ mControlChan' = [mControlChan EXCEPT ![s] = Sent(ctl, ok)]
        /\ wire' = DoSend(Taken(s), s, ReplyPkt(StampedSeq(ctl), Head(wire[s]).mSeq, 0, sz, id), ok)
        /\ CountFail(ok)
        /\ wrapped' = (wrapped \/ mControlChan'[s].mSeq = 0)
  BY DEF AcceptOpen
<1>2. ok \in BOOLEAN /\ wire[s] # <<>> /\ sz \in Nat /\ id \in Nat
  BY <1>1, WriteOutcomesType, RoutedChannel, SizesAssumption DEF AcceptOpen, TypeOK
<1>3. /\ Sent(ctl, ok) \in Channel
      /\ DoSend(Taken(s), s, ReplyPkt(StampedSeq(ctl), Head(wire[s]).mSeq, 0, sz, id), ok)
            \in [Side -> Seq(MuxPacket)]
  BY <1>2, ReplySent
<1> HIDE DEF ctl
<1>4. nFails' \in Nat /\ wrapped' \in BOOLEAN
  BY <1>1, <1>2, CountFailType
<1>5. mControlChan' \in [Side -> Channel] /\ wire' \in [Side -> Seq(MuxPacket)]
  BY <1>1, <1>3 DEF TypeOK
<1>6. ChannelsType(mChannels') /\ DOMAIN mChannels'[s] = DOMAIN mChannels[s] \cup {id}
  <2> HIDE DEF id
  <2>. QED  BY <1>1, <1>2, NewChannelType, InsertType
<1>7. id + 2 \notin DOMAIN mChannels'[s]
  <2>1. \A c \in DOMAIN mChannels[s] : c % 2 = s => c < id
    BY DEF ChanIdsOK, HandedOut
  <2>2. (id + 2) % 2 = s
    BY <1>2 DEF ChanIdsOK
  <2>. QED  BY <1>2, <1>6, <2>1, <2>2
<1>8. mNextChanId' \in [Side -> Nat]
  BY <1>1, <1>2, <1>7, FreeIdsNext DEF TypeOK
<1>. QED  BY <1>4, <1>5, <1>6, <1>8 DEF TypeOK, ChannelsType, AcceptOpen

LEMMA HandleReplyType == ASSUME TypeOK, NEW s \in Side, HandleReply(s) PROVE TypeOK'
<1> DEFINE p == Head(wire[s])
<1>1. p \in MuxPacket /\ Taken(s) \in [Side -> Seq(MuxPacket)]
  BY RoutedChannel DEF HandleReply
<1>2. p.mDataChan \in Nat /\ NewChannel(p.mDataSize) \in Channel
  BY <1>1, NewChannelType DEF MuxPacket
<1>5. ChannelsType(mChannels')
  <2>1. CASE mChannels' = mChannels
    BY <2>1 DEF TypeOK, ChannelsType
  <2>2. CASE mChannels' = [mChannels EXCEPT ![s] = With(@, p.mDataChan, NewChannel(p.mDataSize))]
    <3> HIDE DEF p
    <3>. QED  BY <1>2, <2>2, InsertType
  <2>. QED  BY <2>1, <2>2 DEF HandleReply
<1>6. mControlChan' \in [Side -> Channel]
  BY SentType DEF TypeOK, HandleReply
<1>7. mWaitingPackets' \in [Side -> SUBSET SeqNo]
  BY DEF TypeOK, HandleReply
<1>. QED  BY <1>1, <1>5, <1>6, <1>7 DEF TypeOK, ChannelsType, HandleReply

-----------------------------------------------------------------------------
(* Ids: the step of a side takes at most the first packet of its wire and  *)
(* adds at most one to its peer's.                                         *)

LEMMA TailFacts ==
    ASSUME NEW w \in Seq(MuxPacket), w # <<>>
    PROVE  /\ Len(w) \in Nat /\ Len(w) >= 1 /\ Head(w) = w[1]
           /\ Tail(w) \in Seq(MuxPacket) /\ Len(Tail(w)) = Len(w) - 1
           /\ \A i \in 1 .. Len(Tail(w)) : i + 1 \in 1 .. Len(w) /\ Tail(w)[i] = w[i + 1]
           /\ \A i \in 1 .. Len(w) : i # 1 => i - 1 \in 1 .. Len(Tail(w)) /\ w[i] = Tail(w)[i - 1]
OBVIOUS

LEMMA AppendFacts ==
    ASSUME NEW w \in Seq(MuxPacket), NEW p \in MuxPacket
    PROVE  /\ Append(w, p) \in Seq(MuxPacket)
           /\ Len(w) \in Nat /\ Len(Append(w, p)) = Len(w) + 1
           /\ Append(w, p)[Len(w) + 1] = p
           /\ \A i \in 1 .. Len(w) : i \in 1 .. Len(Append(w, p)) /\ Append(w, p)[i] = w[i]
           /\ \A i \in 1 .. Len(Append(w, p)) : i # Len(w) + 1 => i \in 1 .. Len(w)
OBVIOUS

LEMMA PacketSeqNat == \A p \in MuxPacket : p.mSeq \in Nat
BY SeqNoType DEF MuxPacket

LEMMA InFlight ==
    ASSUME NEW w \in Seq(MuxPacket)
    PROVE  /\ Len(w) \in Nat
           /\ \A i \in 1 .. Len(w) : w[i] \in MuxPacket /\ w[i].mSeq \in Nat
BY PacketSeqNat

LEMMA SideCases == ASSUME NEW s \in Side, NEW t \in Side PROVE t = s \/ t = Peer(s)
BY DEF Side, Peer

\* Ids handed out and packets stay well formed while ids and failures only grow.
LEMMA PacketMono ==
    ASSUME TypeOK, TypeOK', \A u \in Side : mNextChanId[u] <= mNextChanId'[u], nFails <= nFails'
    PROVE  /\ \A c \in Nat : HandedOut(mNextChanId, c) => HandedOut(mNextChanId', c)
           /\ \A t \in Side, p \in MuxPacket :
                PacketOK(mNextChanId, nFails, t, p) => PacketOK(mNextChanId', nFails', t, p)
<1>0. /\ nFails \in Nat /\ nFails' \in Nat
      /\ \A u \in Side : mNextChanId[u] \in Nat /\ mNextChanId'[u] \in Nat
  BY DEF TypeOK
<1>1. \A c \in Nat : HandedOut(mNextChanId, c) => HandedOut(mNextChanId', c)
  BY <1>0 DEF HandedOut
<1>2. \A p \in MuxPacket : p.mChan \in Nat /\ p.mDataChan \in Nat
  BY DEF MuxPacket
<1>. QED  BY <1>0, <1>1, <1>2 DEF PacketOK

LEMMA FreshTail ==
    ASSUME NEW w \in Seq(MuxPacket), w # <<>>, NEW ids, NEW ids2, Fresh(w, ids),
           ids2 \subseteq ids \/ \E c : Creates(Head(w), c) /\ ids2 = ids \cup {c}
    PROVE  Fresh(Tail(w), ids2)
<1>1. /\ 1 \in 1 .. Len(w) /\ Head(w) = w[1]
      /\ \A i \in 1 .. Len(Tail(w)) : i \in Nat /\ i + 1 \in 1 .. Len(w) /\ i + 1 # 1 /\ Tail(w)[i] = w[i + 1]
  BY TailFacts
<1>2. ASSUME NEW i \in 1 .. Len(Tail(w)), Creates(Tail(w)[i], Tail(w)[i].mDataChan)
      PROVE  /\ Tail(w)[i].mDataChan \notin ids2
             /\ \A j \in 1 .. Len(Tail(w)) : Creates(Tail(w)[j], Tail(w)[i].mDataChan) => i = j
  <2> DEFINE d == w[i + 1].mDataChan
  <2>1. Tail(w)[i].mDataChan = d /\ i \in Nat /\ i + 1 \in 1 .. Len(w) /\ Creates(w[i + 1], d)
    BY <1>1, <1>2
  <2>2. d \notin ids /\ \A j \in 1 .. Len(w) : Creates(w[j], d) => i + 1 = j
    BY <2>1 DEF Fresh
  <2>3. ~ Creates(Head(w), d)
    BY <1>1, <2>1, <2>2
  <2>4. d \notin ids2
    BY <2>2, <2>3
  <2> HIDE DEF d
  <2>5. ASSUME NEW j \in 1 .. Len(Tail(w)), Creates(Tail(w)[j], d) PROVE i = j
    <3>1. j \in Nat /\ j + 1 \in 1 .. Len(w) /\ Creates(w[j + 1], d)
      BY <1>1, <2>5
    <3>2. i + 1 = j + 1
      BY <2>2, <3>1
    <3>. QED  BY <2>1, <3>1, <3>2
  <2>. QED  BY <2>1, <2>4, <2>5
<1>. QED  BY <1>2 DEF Fresh

LEMMA FreshAppend ==
    ASSUME NEW w \in Seq(MuxPacket), NEW p \in MuxPacket, NEW ids, Fresh(w, ids),
           Creates(p, p.mDataChan) =>
             /\ p.mDataChan \notin ids
             /\ \A i \in 1 .. Len(w) : ~ Creates(w[i], p.mDataChan)
    PROVE  Fresh(Append(w, p), ids)
<1> DEFINE a == Append(w, p)
<1>1. /\ a[Len(w) + 1] = p
      /\ \A i \in 1 .. Len(a) : i # Len(w) + 1 => i \in 1 .. Len(w) /\ a[i] = w[i]
  BY AppendFacts
<1> HIDE DEF a
<1>2. \A q, d : Creates(q, d) => d = q.mDataChan
  BY DEF Creates
<1>3. ASSUME NEW i \in 1 .. Len(a), Creates(a[i], a[i].mDataChan)
      PROVE  /\ a[i].mDataChan \notin ids
             /\ \A j \in 1 .. Len(a) : Creates(a[j], a[i].mDataChan) => i = j
  <2>1. CASE i = Len(w) + 1
    BY <1>1, <1>3, <2>1
  <2>2. CASE i # Len(w) + 1
    <3>1. i \in 1 .. Len(w) /\ a[i] = w[i] /\ Creates(w[i], w[i].mDataChan)
      BY <1>1, <1>3, <2>2
    <3>2. w[i].mDataChan \notin ids /\ \A j \in 1 .. Len(w) : Creates(w[j], w[i].mDataChan) => i = j
      BY <3>1 DEF Fresh
    <3>3. ~ Creates(p, w[i].mDataChan)
      BY <1>2, <3>1
    <3>. QED  BY <1>1, <3>1, <3>2, <3>3
  <2>. QED  BY <2>1, <2>2
<1>. QED  BY <1>3 DEF Fresh, a

LEMMA FreshLess ==
    ASSUME NEW w, NEW ids, NEW ids2, Fresh(w, ids), ids2 \subseteq ids
    PROVE  Fresh(w, ids2)
BY DEF Fresh

\* What side s may do to the wires; q is what it sends.
Moved(s, q) ==
    /\ wire'[s] = wire[s] \/ (wire[s] # <<>> /\ wire'[s] = Tail(wire[s]))
    /\ wire'[Peer(s)] = wire[Peer(s)] \/ wire'[Peer(s)] = Append(wire[Peer(s)], q)

LEMMA MovedPackets ==
    ASSUME TypeOK, TypeOK', PacketsOK, NEW s \in Side, NEW q \in MuxPacket, Moved(s, q),
           \A u \in Side : mNextChanId[u] <= mNextChanId'[u], nFails <= nFails',
           PacketOK(mNextChanId', nFails', Peer(s), q)
    PROVE  PacketsOK'
<1> DEFINE o == Peer(s)
<1>1. wire[s] \in Seq(MuxPacket) /\ wire[o] \in Seq(MuxPacket) /\ o \in Side
  BY PeerSide DEF TypeOK
<1>2. \A t \in Side, p \in MuxPacket :
        PacketOK(mNextChanId, nFails, t, p) => PacketOK(mNextChanId', nFails', t, p)
  BY PacketMono
<1>3. \A i \in 1 .. Len(wire[s]) : PacketOK(mNextChanId', nFails', s, wire[s][i])
  BY <1>1, <1>2, InFlight DEF PacketsOK
<1>4. \A i \in 1 .. Len(wire[o]) : PacketOK(mNextChanId', nFails', o, wire[o][i])
  BY <1>1, <1>2, InFlight DEF PacketsOK
<1>5. \A i \in 1 .. Len(wire'[s]) : PacketOK(mNextChanId', nFails', s, wire'[s][i])
  <2>1. CASE wire'[s] = wire[s]
    BY <1>3, <2>1
  <2>2. CASE wire[s] # <<>> /\ wire'[s] = Tail(wire[s])
    BY <1>1, <1>3, <2>2, TailFacts
  <2>. QED  BY <2>1, <2>2 DEF Moved
<1>6. \A i \in 1 .. Len(wire'[o]) : PacketOK(mNextChanId', nFails', o, wire'[o][i])
  <2>1. CASE wire'[o] = wire[o]
    BY <1>4, <2>1
  <2>2. CASE wire'[o] = Append(wire[o], q)
    BY <1>1, <1>4, <2>2, AppendFacts
  <2>. QED  BY <2>1, <2>2 DEF Moved
<1>. QED  BY <1>5, <1>6, SideCases DEF PacketsOK

\* A step that allocates no id and adds no channel.
LEMMA QuietIds ==
    ASSUME TypeOK, TypeOK', Ids, NEW s \in Side, NEW q \in MuxPacket, Moved(s, q),
           ~ Creates(q, q.mDataChan), PacketOK(mNextChanId', nFails', Peer(s), q),
           mNextChanId' = mNextChanId, nFails <= nFails',
           \A t \in Side : DOMAIN mChannels'[t] \subseteq DOMAIN mChannels[t],
           \A t \in Side : mControlChan'[t].mValid \/ ~ mControlChan[t].mValid \/ nFails' > 0
    PROVE  Ids'
<1>1. ChanIdsOK /\ PacketsOK /\ RepliesFresh /\ ControlValid
  BY DEF Ids
<1>2. ChanIdsOK'
  BY <1>1 DEF ChanIdsOK
<1>3. nFails \in Nat /\ nFails' \in Nat /\ \A u \in Side : mNextChanId[u] \in Nat
  BY DEF TypeOK
<1>4. PacketsOK'
  BY <1>1, <1>3, MovedPackets
<1>5. ControlValid'
  BY <1>1, <1>3 DEF ControlValid
<1>6. RepliesFresh'
  <2> DEFINE o == Peer(s)
  <2>1. wire[s] \in Seq(MuxPacket) /\ wire[o] \in Seq(MuxPacket) /\ o \in Side
    BY PeerSide DEF TypeOK
  <2>2. Fresh(wire[s], DOMAIN mChannels'[s]) /\ Fresh(wire[o], DOMAIN mChannels'[o])
    BY <1>1, <2>1, FreshLess DEF RepliesFresh
  <2>3. Fresh(wire'[s], DOMAIN mChannels'[s])
    BY <2>1, <2>2, FreshTail DEF Moved
  <2>4. Fresh(wire'[o], DOMAIN mChannels'[o])
    BY <2>1, <2>2, FreshAppend DEF Moved
  <2>. QED  BY <2>3, <2>4, SideCases DEF RepliesFresh
<1>. QED  BY <1>2, <1>4, <1>5, <1>6 DEF Ids

LEMMA MovedByStep ==
    ASSUME TypeOK, NEW s \in Side, NEW q \in MuxPacket, NEW ok \in BOOLEAN,
           \/ wire' = wire
           \/ wire' = DoSend(wire, s, q, ok)
           \/ wire[s] # <<>> /\ (wire' = Taken(s) \/ wire' = DoSend(Taken(s), s, q, ok))
    PROVE  Moved(s, q)
<1>1. wire \in [Side -> Seq(MuxPacket)] /\ Peer(s) \in Side /\ Peer(s) # s
  BY PeerSide DEF TypeOK
<1>2. wire[s] # <<>> =>
        /\ Taken(s) \in [Side -> Seq(MuxPacket)]
        /\ Taken(s)[s] = Tail(wire[s]) /\ Taken(s)[Peer(s)] = wire[Peer(s)]
  BY <1>1 DEF Taken
<1>3. \A w \in [Side -> Seq(MuxPacket)] :
        /\ DoSend(w, s, q, ok)[s] = w[s]
        /\ DoSend(w, s, q, ok)[Peer(s)] = w[Peer(s)] \/ DoSend(w, s, q, ok)[Peer(s)] = Append(w[Peer(s)], q)
  BY <1>1 DEF DoSend
<1>4. CASE wire' = wire \/ wire' = DoSend(wire, s, q, ok)
  BY <1>1, <1>3, <1>4, Zenon DEF Moved
<1>5. CASE wire[s] # <<>> /\ wire' = Taken(s)
  BY <1>2, <1>5 DEF Moved
<1>6. CASE wire[s] # <<>> /\ wire' = DoSend(Taken(s), s, q, ok)
  BY <1>2, <1>3, <1>6, Zenon DEF Moved
<1>. QED  BY <1>4, <1>5, <1>6

\* Sending on the control channel spoils it only when the write fails.
LEMMA ControlSent ==
    ASSUME TypeOK, NEW s \in Side, NEW ch \in Channel, NEW ok \in BOOLEAN, CountFail(ok),
           mControlChan' = [mControlChan EXCEPT ![s] = Sent(ch, ok)]
    PROVE  \A t \in Side : mControlChan'[t].mValid \/ ~ mControlChan[t].mValid \/ nFails' > 0
<1>1. ok \/ nFails' > 0
  BY DEF CountFail, TypeOK
<1>2. Sent(ch, ok).mValid = ok
  BY DEF Sent, Channel
<1>3. mControlChan'[s] = Sent(ch, ok) /\ \A t \in Side : t # s => mControlChan'[t] = mControlChan[t]
  BY DEF TypeOK
<1>. QED  BY <1>1, <1>2, <1>3

LEMMA OpenAssertionsKept ==
    ASSUME TypeOK, TypeOK', OpenAssertionsHold, halted' = halted, nFails <= nFails'
    PROVE  OpenAssertionsHold'
<1>1. nFails > 0 => nFails' > 0
  BY DEF TypeOK
<1>2. halted'[0] = halted[0] /\ halted'[1] = halted[1]
  OBVIOUS
<1>. QED  BY <1>1, <1>2 DEF OpenAssertionsHold, Side

\* A packet that is neither an answer nor about the control channel.
LEMMA PlainPacket ==
    ASSUME NEW cmd \in {"Data", "CloseChan"}, NEW c \in Nat, NEW n \in SeqNo, NEW t \in Side,
           HandedOut(mNextChanId', c)
    PROVE  /\ Pkt(cmd, c, n) \in MuxPacket /\ ~ Creates(Pkt(cmd, c, n), Pkt(cmd, c, n).mDataChan)
           /\ PacketOK(mNextChanId', nFails', t, Pkt(cmd, c, n))
<1>1. Pkt(cmd, c, n) \in MuxPacket /\ Pkt(cmd, c, n).mCmd = cmd /\ Pkt(cmd, c, n).mChan = c
  BY PktType DEF Pkt, MuxCmd
<1>. QED  BY <1>1 DEF PacketOK, Creates

LEMMA OpenIds == ASSUME IdInv, NEW s \in Side, Open(s) PROVE IdInv'
<1>1. TypeOK /\ TypeOK' /\ Ids /\ OpenAssertionsHold /\ mControlChan[s] \in Channel
  BY OpenType DEF IdInv, TypeOK
<1> DEFINE q == Pkt("OpenChan", 0, StampedSeq(mControlChan[s]))
<1>2. PICK ok \in BOOLEAN :
        /\ mControlChan' = [mControlChan EXCEPT ![s] = Sent(mControlChan[s], ok)]
        /\ wire' = DoSend(wire, s, q, ok)
        /\ CountFail(ok)
  BY <1>1, WriteOutcomesType DEF Open
<1>3. q \in MuxPacket /\ q.mCmd = "OpenChan" /\ q.mChan = 0
  BY <1>1, SentType, PktType DEF Pkt, MuxCmd
<1> HIDE DEF q
<1>4. Moved(s, q) /\ ~ Creates(q, q.mDataChan) /\ PacketOK(mNextChanId', nFails', Peer(s), q)
  BY <1>1, <1>2, <1>3, MovedByStep DEF Creates, PacketOK
<1>5. mNextChanId' = mNextChanId /\ mChannels' = mChannels /\ halted' = halted
  BY DEF Open
<1>6. nFails <= nFails'
  BY <1>1, <1>2, CountFailType
<1>7. Ids'
  BY <1>1, <1>2, <1>3, <1>4, <1>5, <1>6, QuietIds, ControlSent
<1>. QED  BY <1>1, <1>5, <1>6, <1>7, OpenAssertionsKept DEF IdInv

LEMMA WriteIds ==
    ASSUME IdInv, NEW s \in Side, NEW c \in DOMAIN mChannels[s], Write(s, c) PROVE IdInv'
<1>1. TypeOK /\ TypeOK' /\ Ids /\ OpenAssertionsHold /\ mChannels[s][c] \in Channel /\ c \in Nat
  BY WriteType DEF IdInv, TypeOK
<1> DEFINE q == Pkt("Data", c, StampedSeq(mChannels[s][c]))
<1>2. PICK ok \in BOOLEAN :
        /\ mChannels' = [mChannels EXCEPT ![s][c] = Sent(@, ok)]
        /\ wire' = DoSend(wire, s, q, ok)
        /\ CountFail(ok)
  BY <1>1, WriteOutcomesType DEF Write
<1>3. UNCHANGED <<mControlChan, mNextChanId, halted>>
  BY DEF Write
<1>4. HandedOut(mNextChanId', c)
  BY <1>1, <1>3 DEF Ids, ChanIdsOK
<1>5. q \in MuxPacket /\ ~ Creates(q, q.mDataChan) /\ PacketOK(mNextChanId', nFails', Peer(s), q)
  BY <1>1, <1>4, SentType, PeerSide, PlainPacket
<1> HIDE DEF q
<1>6. Moved(s, q) /\ nFails <= nFails'
  BY <1>1, <1>2, <1>5, MovedByStep, CountFailType
<1>7. \A t \in Side : DOMAIN mChannels'[t] = DOMAIN mChannels[t]
  BY <1>1, <1>2 DEF TypeOK
<1>8. Ids'
  BY <1>1, <1>3, <1>5, <1>6, <1>7, QuietIds
<1>. QED  BY <1>1, <1>3, <1>6, <1>8, OpenAssertionsKept DEF IdInv

LEMMA AskCloseIds ==
    ASSUME IdInv, NEW s \in Side, NEW c \in DOMAIN mChannels[s], AskClose(s, c) PROVE IdInv'
<1>1. TypeOK /\ TypeOK' /\ Ids /\ OpenAssertionsHold /\ mChannels[s][c] \in Channel /\ c \in Nat
  BY AskCloseType DEF IdInv, TypeOK
<1> DEFINE q == Pkt("CloseChan", c, StampedSeq(mChannels[s][c]))
<1>2. PICK ok \in BOOLEAN :
        /\ wire' = DoSend(wire, s, q, ok /\ mChannels[s][c].mValid)
        /\ CountFail(ok)
  BY <1>1, WriteOutcomesType DEF AskClose
<1>3. UNCHANGED <<mControlChan, mNextChanId, halted>>
  BY DEF AskClose
<1>4. HandedOut(mNextChanId', c)
  BY <1>1, <1>3 DEF Ids, ChanIdsOK
<1>5. q \in MuxPacket /\ ~ Creates(q, q.mDataChan) /\ PacketOK(mNextChanId', nFails', Peer(s), q)
  BY <1>1, <1>4, SentType, PeerSide, PlainPacket
<1> HIDE DEF q
<1>6. Moved(s, q) /\ nFails <= nFails'
  BY <1>1, <1>2, <1>5, MovedByStep, CountFailType
<1>7. \A t \in Side : DOMAIN mChannels'[t] \subseteq DOMAIN mChannels[t]
  BY <1>1, EraseType, SideCases DEF AskClose
<1>8. Ids'
  BY <1>1, <1>3, <1>5, <1>6, <1>7, QuietIds
<1>. QED  BY <1>1, <1>3, <1>6, <1>8, OpenAssertionsKept DEF IdInv

\* A step that sends nothing.
LEMMA SilentIds ==
    ASSUME TypeOK, TypeOK', Ids, NEW s \in Side,
           wire' = wire \/ (wire[s] # <<>> /\ wire' = Taken(s)),
           mNextChanId' = mNextChanId, nFails' = nFails,
           \A t \in Side : DOMAIN mChannels'[t] \subseteq DOMAIN mChannels[t],
           \A t \in Side : mControlChan'[t].mValid \/ ~ mControlChan[t].mValid
    PROVE  Ids'
<1> DEFINE q == Pkt("OpenChan", 0, 0)
<1>1. q \in MuxPacket /\ q.mCmd = "OpenChan" /\ q.mChan = 0
  BY PktType, SeqNoType DEF Pkt, MuxCmd
<1> HIDE DEF q
<1>2. Moved(s, q)
  BY <1>1, MovedByStep
<1>3. ~ Creates(q, q.mDataChan) /\ PacketOK(mNextChanId', nFails', Peer(s), q)
  BY <1>1 DEF Creates, PacketOK
<1>4. nFails <= nFails'
  BY DEF TypeOK
<1>. QED  BY <1>1, <1>2, <1>3, <1>4, QuietIds

LEMMA HandleCloseIds == ASSUME IdInv, NEW s \in Side, HandleClose(s) PROVE IdInv'
<1>1. TypeOK /\ TypeOK' /\ Ids /\ OpenAssertionsHold
  BY HandleCloseType DEF IdInv
<1>2. /\ wire[s] # <<>> /\ wire' = Taken(s)
      /\ UNCHANGED <<mControlChan, mNextChanId, halted, nFails>>
  BY DEF HandleClose, Incoming
<1>3. \A t \in Side : DOMAIN mChannels'[t] \subseteq DOMAIN mChannels[t]
  BY <1>1, EraseType, SideCases DEF HandleClose
<1>4. Ids'
  BY <1>1, <1>2, <1>3, SilentIds
<1>5. nFails <= nFails'
  BY <1>1, <1>2 DEF TypeOK
<1>. QED  BY <1>1, <1>2, <1>4, <1>5, OpenAssertionsKept DEF IdInv

\* A side that stops for a reason the assertions allow.
LEMMA HaltIds ==
    ASSUME IdInv, NEW s \in Side, NEW why \in Asserts, Halt(s, why), why # "CHANNEL_MASK",
           why = "GetChannel(mDataChan) == nullptr" => \E sz \in Sizes : sz < 0,
           why = "delete of mControlChan" => nFails > 0
    PROVE  IdInv'
<1>1. TypeOK /\ TypeOK' /\ Ids /\ OpenAssertionsHold
  BY HaltType DEF IdInv
<1>2. UNCHANGED <<mControlChan, mChannels, mNextChanId, wire, nFails>>
  BY DEF Halt
<1>3. Ids'
  BY <1>1, <1>2, SilentIds
<1>4. halted'[s] = why /\ \A t \in Side : t # s => halted'[t] = halted[t]
  BY <1>1 DEF Halt, TypeOK
<1>5. OpenAssertionsHold'
  <2> SUFFICES ASSUME NEW t \in Side
               PROVE  /\ halted'[t] # "CHANNEL_MASK"
                      /\ halted'[t] = "GetChannel(mDataChan) == nullptr" => \E sz \in Sizes : sz < 0
                      /\ halted'[t] = "delete of mControlChan" => nFails' > 0
    BY DEF OpenAssertionsHold
  <2>1. CASE t = s
    BY <1>2, <1>4, <2>1
  <2>2. CASE t # s
    BY <1>1, <1>2, <1>4, <2>2 DEF OpenAssertionsHold
  <2>. QED  BY <2>1, <2>2
<1>. QED  BY <1>1, <1>3, <1>5 DEF IdInv

\* The first packet on the wire is well formed.
LEMMA HeadOK ==
    ASSUME TypeOK, Ids, NEW s \in Side, wire[s] # <<>>
    PROVE  PacketOK(mNextChanId, nFails, s, Head(wire[s])) /\ Head(wire[s]) \in MuxPacket
<1>1. wire[s] \in Seq(MuxPacket)
  BY DEF TypeOK
<1>2. Head(wire[s]) = wire[s][1] /\ 1 \in 1 .. Len(wire[s])
  BY <1>1, TailFacts
<1>. QED  BY <1>1, <1>2, InFlight DEF Ids, PacketsOK

LEMMA HandleNakIds == ASSUME IdInv, NEW s \in Side, HandleNak(s) PROVE IdInv'
<1>1. TypeOK /\ TypeOK' /\ Ids /\ OpenAssertionsHold
  BY HandleNakType DEF IdInv
<1>2. wire[s] # <<>> /\ Head(wire[s]).mCmd = "Nak"
  BY DEF HandleNak, Incoming
<1>3. CASE Head(wire[s]).mChan = 0 /\ Halt(s, "delete of mControlChan")
  <2>1. nFails > 0
    BY <1>1, <1>2, <1>3, HeadOK DEF PacketOK
  <2>. QED  BY <1>3, <2>1, HaltIds DEF Asserts
<1>4. CASE /\ mChannels' = [mChannels EXCEPT ![s] = Without(@, Head(wire[s]).mChan)]
           /\ wire' = Taken(s)
           /\ UNCHANGED <<mControlChan, mNextChanId, mWaitingPackets, halted,
                          nOpens, nSends, nFails, wrapped>>
  <2>1. \A t \in Side : DOMAIN mChannels'[t] \subseteq DOMAIN mChannels[t]
    BY <1>1, <1>4, EraseType, SideCases
  <2>2. Ids'
    BY <1>1, <1>2, <1>4, <2>1, SilentIds
  <2>3. nFails <= nFails'
    BY <1>1, <1>4 DEF TypeOK
  <2>. QED  BY <1>1, <1>4, <2>2, <2>3, OpenAssertionsKept DEF IdInv
<1>. QED  BY <1>3, <1>4 DEF HandleNak

LEMMA HandleStrayIds == ASSUME IdInv, NEW s \in Side, HandleStray(s) PROVE IdInv'
<1>1. TypeOK /\ TypeOK' /\ Ids /\ OpenAssertionsHold
  BY HandleStrayType DEF IdInv
<1> DEFINE p == Head(wire[s])
           q == Pkt("Nak", p.mChan, p.mSeq)
<1>2. PICK ok \in BOOLEAN : wire' = DoSend(Taken(s), s, q, ok) /\ CountFail(ok)
  BY <1>1, WriteOutcomesType DEF HandleStray
<1>3. wire[s] # <<>> /\ (HasChannel(s, p.mChan) => ~ GetChannel(s, p.mChan).mValid)
  BY DEF HandleStray, Incoming
<1>4. UNCHANGED <<mControlChan, mChannels, mNextChanId, halted>>
  BY DEF HandleStray
<1>5. p.mChan \in Nat /\ p.mSeq \in SeqNo
  BY <1>1, <1>3, HeadOK DEF MuxPacket
<1>6. q \in MuxPacket /\ q.mCmd = "Nak" /\ q.mChan = p.mChan
  BY <1>5, PktType DEF Pkt, MuxCmd
<1>7. nFails \in Nat /\ nFails' \in Nat /\ nFails <= nFails'
  BY <1>1, <1>2, CountFailType DEF TypeOK
<1>8. p.mChan = 0 => nFails > 0
  BY <1>1, <1>3 DEF HasChannel, GetChannel, Ids, ControlValid
<1> HIDE DEF p, q
<1>9. ~ Creates(q, q.mDataChan) /\ PacketOK(mNextChanId', nFails', Peer(s), q)
  BY <1>6, <1>7, <1>8 DEF Creates, PacketOK
<1>10. Moved(s, q)
  BY <1>1, <1>2, <1>3, <1>6, MovedByStep
<1>11. Ids'
  BY <1>1, <1>4, <1>6, <1>7, <1>9, <1>10, QuietIds
<1>. QED  BY <1>1, <1>4, <1>7, <1>11, OpenAssertionsKept DEF IdInv

LEMMA OutOfSequenceIds == ASSUME IdInv, NEW s \in Side, OutOfSequence(s) PROVE IdInv'
BY HaltIds DEF OutOfSequence, Asserts

LEMMA BadReplyIds == ASSUME IdInv, NEW s \in Side, BadReply(s) PROVE IdInv'
<1> DEFINE p == Head(wire[s])
<1>1. TypeOK /\ Ids
  BY DEF IdInv
<1>2. wire[s] # <<>> /\ p.mCmd = "OpenChanReply"
  BY DEF BadReply, Routed, Incoming
<1>3. PacketOK(mNextChanId, nFails, s, p) /\ p \in MuxPacket
  BY <1>1, <1>2, HeadOK
<1>4. p \in MuxPacket /\ p.mDataChan \in Nat
  BY <1>3 DEF MuxPacket
<1>5. p.mDataChan \in DOMAIN mChannels[s] => p.mErrno # 0
  <2>1. wire[s] \in Seq(MuxPacket)
    BY <1>1 DEF TypeOK
  <2>2. p = wire[s][1] /\ 1 \in 1 .. Len(wire[s])
    BY <1>2, <2>1, TailFacts
  <2>. QED  BY <1>1, <1>2, <2>2 DEF Ids, RepliesFresh, Fresh, Creates
<1>6. p.mErrno # 0 => p.mDataChan = 0 /\ \E sz \in Sizes : sz < 0
  BY <1>2, <1>3 DEF PacketOK
<1>7. p.mErrno = 0 => p.mDataChan # 0 /\ p.mDataChan % 2 # s
  BY <1>2, <1>3, <1>4, PeerSide DEF PacketOK, HandedOut
<1> HIDE DEF p
<1>8. ReplyVerdict(s, p) \in Asserts /\ ReplyVerdict(s, p) # "delete of mControlChan" /\ Halt(s, ReplyVerdict(s, p))
  BY DEF BadReply, ReplyVerdict, Asserts, p
<1>9. ReplyVerdict(s, p) = "GetChannel(mDataChan) == nullptr" => \E sz \in Sizes : sz < 0
  BY <1>5, <1>6, <1>7 DEF ReplyVerdict, HasChannel
<1>10. ReplyVerdict(s, p) # "CHANNEL_MASK"
  BY <1>6, <1>7 DEF ReplyVerdict, HasChannel
<1>. QED  BY <1>8, <1>9, <1>10, HaltIds

LEMMA HandleDataIds == ASSUME IdInv, NEW s \in Side, HandleData(s) PROVE IdInv'
<1>1. TypeOK /\ TypeOK' /\ Ids /\ OpenAssertionsHold
  BY HandleDataType DEF IdInv
<1>2. /\ wire[s] # <<>> /\ wire' = Taken(s)
      /\ UNCHANGED <<mControlChan, mNextChanId, halted, nFails>>
  BY DEF HandleData, Routed, Incoming
<1>3. \A t \in Side : DOMAIN mChannels'[t] = DOMAIN mChannels[t]
  BY <1>1 DEF HandleData, TypeOK
<1>4. Ids'
  BY <1>1, <1>2, <1>3, SilentIds
<1>5. nFails <= nFails'
  BY <1>1, <1>2 DEF TypeOK
<1>. QED  BY <1>1, <1>2, <1>4, <1>5, OpenAssertionsKept DEF IdInv

LEMMA RefuseOpenIds == ASSUME IdInv, NEW s \in Side, RefuseOpen(s) PROVE IdInv'
<1>1. TypeOK /\ TypeOK' /\ Ids /\ OpenAssertionsHold
  BY RefuseOpenType DEF IdInv
<1> DEFINE ctl == Received(mControlChan[s])
           q == ReplyPkt(StampedSeq(ctl), Head(wire[s]).mSeq, 1, 0, 0)
<1>2. PICK ok \in BOOLEAN :
        /\ mControlChan' = [mControlChan EXCEPT ![s] = Sent(ctl, ok)]
        /\ wire' = DoSend(Taken(s), s, q, ok)
        /\ CountFail(ok)
  BY <1>1, WriteOutcomesType DEF RefuseOpen
<1>3. wire[s] # <<>> /\ (\E sz \in Sizes : sz < 0) /\ UNCHANGED <<mChannels, mNextChanId, halted>>
  BY DEF RefuseOpen, Routed, Incoming
<1>4. ctl \in Channel /\ q \in MuxPacket
  BY <1>1, <1>3, ReplySent
<1>5. q.mCmd = "OpenChanReply" /\ q.mChan = 0 /\ q.mErrno = 1 /\ q.mDataChan = 0
  BY DEF ReplyPkt
<1> HIDE DEF ctl, q
<1>6. ~ Creates(q, q.mDataChan) /\ PacketOK(mNextChanId', nFails', Peer(s), q)
  BY <1>3, <1>5 DEF Creates, PacketOK
<1>7. Moved(s, q) /\ nFails <= nFails'
  BY <1>1, <1>2, <1>3, <1>4, MovedByStep, CountFailType
<1>8. Ids'
  BY <1>1, <1>2, <1>3, <1>4, <1>6, <1>7, QuietIds, ControlSent
<1>. QED  BY <1>1, <1>3, <1>7, <1>8, OpenAssertionsKept DEF IdInv

\* An id is used once: it is beyond every id of its parity handed out before.
LEMMA AcceptOpenIds == ASSUME IdInv, NEW s \in Side, AcceptOpen(s) PROVE IdInv'
<1>1. TypeOK /\ TypeOK' /\ Ids /\ OpenAssertionsHold /\ ChanIdsOK /\ PacketsOK /\ RepliesFresh /\ ControlValid
  BY AcceptOpenType DEF IdInv, Ids
<1> DEFINE ctl == Received(mControlChan[s])
           id == mNextChanId[s]
           o == Peer(s)
<1>2. PICK sz \in Sizes, ok \in BOOLEAN :
        /\ sz >= 0
        /\ mChannels' = [mChannels EXCEPT ![s] = With(@, id, NewChannel(sz))]
        /\ mNextChanId' = [mNextChanId EXCEPT ![s] = NextFreeId(mChannels'[s], id)]
        /\ mControlChan' = [mControlChan EXCEPT ![s] = Sent(ctl, ok)]
        /\ wire' = DoSend(Taken(s), s, ReplyPkt(StampedSeq(ctl), Head(wire[s]).mSeq, 0, sz, id), ok)
        /\ CountFail(ok)
  BY <1>1, WriteOutcomesType DEF AcceptOpen
<1> DEFINE q == ReplyPkt(StampedSeq(ctl), Head(wire[s]).mSeq, 0, sz, id)
<1>3. wire[s] # <<>> /\ halted' = halted /\ sz \in Nat /\ id \in Nat
  BY <1>1, <1>2, SizesAssumption DEF AcceptOpen, Routed, Incoming, TypeOK
<1>4. ctl \in Channel /\ q \in MuxPacket
  BY <1>1, <1>3, ReplySent
<1>5. q.mCmd = "OpenChanReply" /\ q.mChan = 0 /\ q.mErrno = 0 /\ q.mDataChan = id
  BY DEF ReplyPkt
<1>6. /\ DOMAIN mChannels'[s] = DOMAIN mChannels[s] \cup {id}
      /\ mChannels'[o] = mChannels[o]
  <2> HIDE DEF id
  <2>. QED  BY <1>1, <1>2, <1>3, NewChannelType, InsertType
<1>s. o \in Side /\ o # s /\ \A t \in Side : t = s \/ t = o
  BY PeerSide, SideCases
<1>7. /\ id >= 4 /\ id % 2 = s /\ id % 2 # o /\ (id + 2) % 2 = s
      /\ mNextChanId[o] \in Nat /\ mNextChanId[o] >= 4 /\ mNextChanId[o] % 2 = o
  <2>1. id >= 4 /\ id % 2 = s
    BY <1>1 DEF ChanIdsOK
  <2>2. (id + 2) % 2 = s
    BY <1>3, <2>1
  <2>3. mNextChanId[o] >= 4 /\ mNextChanId[o] % 2 = o
    BY <1>1, <1>s DEF ChanIdsOK
  <2>4. mNextChanId[o] \in Nat
    BY <1>1, <1>s DEF TypeOK
  <2>. QED  BY <1>s, <2>1, <2>2, <2>3, <2>4
<1>8. id + 2 \notin DOMAIN mChannels'[s]
  <2>1. \A c \in DOMAIN mChannels[s] : c % 2 = s => c < id
    BY <1>1 DEF ChanIdsOK, HandedOut
  <2>. QED  BY <1>3, <1>6, <1>7, <2>1
<1>9. mNextChanId'[s] = id + 2 /\ mNextChanId'[o] = mNextChanId[o]
  BY <1>1, <1>2, <1>3, <1>8, <1>s, FreeIdsNext DEF TypeOK
<1>10. Moved(s, q) /\ nFails \in Nat /\ nFails' \in Nat /\ nFails <= nFails'
  BY <1>1, <1>2, <1>3, <1>4, MovedByStep, CountFailType DEF TypeOK
<1> HIDE DEF ctl, q, id, o
<1>11. ControlValid'
  <2>1. \A t \in Side : mControlChan'[t].mValid \/ ~ mControlChan[t].mValid \/ nFails' > 0
    BY <1>1, <1>2, <1>4, ControlSent
  <2>2. nFails > 0 => nFails' > 0
    BY <1>10
  <2>3. \A t \in Side : mControlChan[t].mValid \/ nFails > 0
    BY <1>1 DEF ControlValid
  <2>4. \A t \in Side : mControlChan'[t].mValid \/ nFails' > 0
    BY <2>1, <2>2, <2>3, Zenon
  <2>. QED  BY <2>4 DEF ControlValid
<1>12. \A u \in Side : mNextChanId[u] <= mNextChanId'[u]
  BY <1>3, <1>7, <1>9, <1>s DEF id
<1>13. \A c \in Nat : HandedOut(mNextChanId, c) => HandedOut(mNextChanId', c)
  BY <1>1, <1>10, <1>12, PacketMono
<1>14. HandedOut(mNextChanId', id)
  BY <1>3, <1>7, <1>9, <1>s DEF HandedOut
<1>15. ChanIdsOK'
  <2>1. \A c \in DOMAIN mChannels[s] : c \in Nat /\ HandedOut(mNextChanId, c)
    BY <1>1 DEF ChanIdsOK, TypeOK
  <2>2. \A c \in DOMAIN mChannels[o] : c \in Nat /\ HandedOut(mNextChanId, c)
    BY <1>1, <1>s DEF ChanIdsOK, TypeOK
  <2>3. \A c \in DOMAIN mChannels'[s] : HandedOut(mNextChanId', c)
    BY <1>6, <1>13, <1>14, <2>1
  <2>4. \A c \in DOMAIN mChannels'[o] : HandedOut(mNextChanId', c)
    BY <1>6, <1>13, <2>2
  <2>5. mNextChanId'[s] >= 4 /\ mNextChanId'[s] % 2 = s /\ mNextChanId'[o] >= 4 /\ mNextChanId'[o] % 2 = o
    BY <1>3, <1>7, <1>9
  <2>. QED  BY <1>s, <2>3, <2>4, <2>5 DEF ChanIdsOK
<1>16. PacketsOK'
  <2>1. PacketOK(mNextChanId', nFails', o, q)
    BY <1>5, <1>7, <1>14 DEF PacketOK, o, Side, Peer
  <2>. QED  BY <1>1, <1>4, <1>10, <1>12, <2>1, MovedPackets DEF o
<1>17. RepliesFresh'
  <2>1. wire[s] \in Seq(MuxPacket) /\ wire[o] \in Seq(MuxPacket)
    BY <1>1, <1>s DEF TypeOK
  <2>2. \A c \in Nat : HandedOut(mNextChanId, c) => c # id
    BY <1>7 DEF HandedOut, id
  <2>3. \A t \in Side : \A i \in 1 .. Len(wire[t]) :
          Creates(wire[t][i], wire[t][i].mDataChan) =>
              /\ wire[t][i].mDataChan \in Nat /\ HandedOut(mNextChanId, wire[t][i].mDataChan)
              /\ wire[t][i].mDataChan # id
    <3>1. ASSUME NEW t \in Side, NEW i \in 1 .. Len(wire[t]), Creates(wire[t][i], wire[t][i].mDataChan)
          PROVE  wire[t][i].mDataChan \in Nat /\ HandedOut(mNextChanId, wire[t][i].mDataChan)
      <4>1. wire[t][i] \in MuxPacket /\ PacketOK(mNextChanId, nFails, t, wire[t][i])
        BY <1>1, <3>1, InFlight DEF PacketsOK, TypeOK
      <4>2. wire[t][i].mDataChan \in Nat /\ wire[t][i].mCmd = "OpenChanReply" /\ wire[t][i].mErrno = 0
        BY <3>1, <4>1 DEF MuxPacket, Creates
      <4>. QED  BY <4>1, <4>2 DEF PacketOK
    <3>. QED  BY <2>2, <3>1
  <2>4. Fresh(wire[s], DOMAIN mChannels[s] \cup {id})
    BY <1>1, <2>3 DEF RepliesFresh, Fresh
  <2>5. Fresh(wire'[s], DOMAIN mChannels'[s])
    BY <1>6, <1>10, <2>1, <2>4, FreshTail DEF Moved
  <2>6. id \notin DOMAIN mChannels[o]
    BY <1>1, <1>s, <2>2 DEF ChanIdsOK, TypeOK
  <2>7. \A i \in 1 .. Len(wire[o]) : ~ Creates(wire[o][i], id)
    BY <1>s, <2>3 DEF Creates
  <2>8. Fresh(wire[o], DOMAIN mChannels'[o])
    BY <1>1, <1>6, <1>s DEF RepliesFresh
  <2>9. Fresh(wire'[o], DOMAIN mChannels'[o])
    BY <1>4, <1>5, <1>6, <1>10, <2>1, <2>6, <2>7, <2>8, FreshAppend DEF Moved, o
  <2>. QED  BY <1>s, <2>5, <2>9 DEF RepliesFresh
<1>. QED  BY <1>1, <1>3, <1>10, <1>11, <1>15, <1>16, <1>17, OpenAssertionsKept DEF IdInv, Ids

LEMMA HandleReplyIds == ASSUME IdInv, NEW s \in Side, HandleReply(s) PROVE IdInv'
<1>1. TypeOK /\ TypeOK' /\ Ids /\ OpenAssertionsHold /\ ChanIdsOK /\ PacketsOK /\ RepliesFresh /\ ControlValid
  BY HandleReplyType DEF IdInv, Ids
<1> DEFINE p == Head(wire[s])
           o == Peer(s)
<1>2. /\ wire[s] # <<>> /\ wire' = Taken(s) /\ p.mCmd = "OpenChanReply"
      /\ UNCHANGED <<mNextChanId, halted, nFails>>
      /\ mControlChan' = [mControlChan EXCEPT ![s] = Received(mControlChan[s])]
  BY DEF HandleReply, Routed, Incoming
<1>3. \A t \in Side : mControlChan'[t].mValid = mControlChan[t].mValid
  BY <1>1, <1>2 DEF TypeOK, Received, Channel
<1>4. PacketOK(mNextChanId, nFails, s, p) /\ p \in MuxPacket
  BY <1>1, <1>2, HeadOK
<1>5. nFails <= nFails'
  BY <1>1, <1>2 DEF TypeOK
<1>6. CASE mChannels' = mChannels
  <2>1. Ids'
    BY <1>1, <1>2, <1>3, <1>6, SilentIds
  <2>. QED  BY <1>1, <1>2, <1>5, <2>1, OpenAssertionsKept DEF IdInv
<1>7. CASE /\ p.mErrno = 0
           /\ mChannels' = [mChannels EXCEPT ![s] = With(@, p.mDataChan, NewChannel(p.mDataSize))]
  <2> DEFINE d == p.mDataChan
  <2>1. d \in Nat /\ NewChannel(p.mDataSize) \in Channel
    BY <1>4, NewChannelType DEF MuxPacket
  <2>2. HandedOut(mNextChanId, d) /\ Creates(p, d)
    BY <1>2, <1>4, <1>7 DEF PacketOK, Creates
  <2>3. DOMAIN mChannels'[s] = DOMAIN mChannels[s] \cup {d} /\ mChannels'[o] = mChannels[o]
    <3> HIDE DEF d, p
    <3>. QED  BY <1>1, <1>7, <2>1, InsertType DEF d
  <2>s. o \in Side /\ o # s /\ \A t \in Side : t = s \/ t = o
    BY PeerSide, SideCases
  <2> HIDE DEF d
  <2>4. ChanIdsOK'
    BY <1>1, <1>2, <2>2, <2>3, <2>s DEF ChanIdsOK
  <2>5. ControlValid'
    BY <1>1, <1>2, <1>3 DEF ControlValid
  <2>6. wire[s] \in Seq(MuxPacket) /\ wire'[s] = Tail(wire[s]) /\ wire'[o] = wire[o]
    BY <1>1, <1>2, <2>s DEF TypeOK, Taken
  <2>7. PacketsOK'
    <3>1. \A i \in 1 .. Len(wire'[s]) : PacketOK(mNextChanId', nFails', s, wire'[s][i])
      BY <1>1, <1>2, <2>6, TailFacts DEF PacketsOK
    <3>2. \A i \in 1 .. Len(wire'[o]) : PacketOK(mNextChanId', nFails', o, wire'[o][i])
      BY <1>1, <1>2, <2>6, <2>s DEF PacketsOK
    <3>. QED  BY <2>s, <3>1, <3>2 DEF PacketsOK
  <2>8. RepliesFresh'
    <3>1. Fresh(wire'[s], DOMAIN mChannels'[s])
      <4>1. Creates(Head(wire[s]), d) /\ Fresh(wire[s], DOMAIN mChannels[s])
        BY <1>1, <2>2 DEF RepliesFresh
      <4>2. Fresh(Tail(wire[s]), DOMAIN mChannels[s] \cup {d})
        BY <1>2, <2>6, <4>1, FreshTail
      <4>. QED  BY <2>3, <2>6, <4>2
    <3>2. Fresh(wire'[o], DOMAIN mChannels'[o])
      BY <1>1, <2>3, <2>6, <2>s DEF RepliesFresh
    <3>. QED  BY <2>s, <3>1, <3>2 DEF RepliesFresh
  <2>. QED  BY <1>1, <1>2, <1>5, <2>4, <2>5, <2>7, <2>8, OpenAssertionsKept DEF IdInv, Ids
<1>. QED  BY <1>6, <1>7 DEF HandleReply

-----------------------------------------------------------------------------
(* The theorems.                                                           *)

LEMMA InitIds == Init => IdInv
<1> SUFFICES ASSUME Init PROVE IdInv
  OBVIOUS
<1>1. TypeOK
  <2>1. mControlChan \in [Side -> Channel]
    BY NewChannelType DEF Init
  <2>2. \A s \in Side : DOMAIN mChannels[s] = {} /\ mChannels[s] \in [DOMAIN mChannels[s] -> Channel]
    BY DEF Init
  <2>3. mNextChanId \in [Side -> Nat]
    BY DEF Init, Side
  <2>4. wire \in [Side -> Seq(MuxPacket)] /\ mWaitingPackets \in [Side -> SUBSET SeqNo]
    BY DEF Init
  <2>5. halted \in [Side -> Asserts \cup {"no"}] /\ wrapped \in BOOLEAN
    BY DEF Init
  <2>6. nOpens \in [Side -> Nat] /\ nSends \in [Side -> Nat] /\ nFails \in Nat
    BY DEF Init
  <2>7. DOMAIN mChannels = Side /\ \A s \in Side : DOMAIN mChannels[s] \subseteq Nat
    BY <2>2 DEF Init
  <2>. QED  BY <2>1, <2>2, <2>3, <2>4, <2>5, <2>6, <2>7 DEF TypeOK
<1>2. \A s \in Side : mNextChanId[s] = 4 + s /\ DOMAIN mChannels[s] = {} /\ wire[s] = <<>> /\ mControlChan[s].mValid
  BY DEF Init, NewChannel
<1>3. Ids
  BY <1>2 DEF Ids, ChanIdsOK, PacketsOK, RepliesFresh, Fresh, ControlValid, Side
<1>4. OpenAssertionsHold
  BY DEF Init, OpenAssertionsHold
<1>. QED  BY <1>1, <1>3, <1>4 DEF IdInv

LEMMA NextIds == IdInv /\ [Next]_vars => IdInv'
<1> SUFFICES ASSUME IdInv, [Next]_vars PROVE IdInv'
  OBVIOUS
<1>1. CASE UNCHANGED vars
  BY <1>1 DEF vars, IdInv, TypeOK, Ids, ChanIdsOK, PacketsOK, RepliesFresh, ControlValid, OpenAssertionsHold
<1>2. ASSUME NEW s \in Side, Use(s) PROVE IdInv'
  BY <1>2, OpenIds, WriteIds, AskCloseIds DEF Use
<1>3. ASSUME NEW s \in Side, Receive(s) PROVE IdInv'
  BY <1>3, HandleCloseIds, HandleNakIds, HandleStrayIds, OutOfSequenceIds, HandleDataIds,
     RefuseOpenIds, AcceptOpenIds, BadReplyIds, HandleReplyIds DEF Receive
<1>. QED  BY <1>1, <1>2, <1>3 DEF Next

\* The variables keep their types.  Not inductive alone: that NextFreeId finds an
\* id, as the while loop of OnReceive must, rests on where ids come from.
THEOREM TypeCorrect == Spec => []TypeOK
<1>1. IdInv => TypeOK
  BY DEF IdInv
<1>. QED  BY <1>1, InitIds, NextIds, PTL DEF Spec

\* For every modulus, every number of channels and every pattern of failed
\* writes: the assertions of OnReceive on the id in a reply hold unless an open
\* is refused, and the control channel is torn down only after a failed write.
THEOREM OpenAssertionsCorrect == Spec => []OpenAssertionsHold
<1>1. IdInv => OpenAssertionsHold
  BY DEF IdInv
<1>. QED  BY <1>1, InitIds, NextIds, PTL DEF Spec

\* Ids are handed out once, and no reply names an id its reader already has.
THEOREM IdsCorrect == Spec => []Ids
<1>1. IdInv => Ids
  BY DEF IdInv
<1>. QED  BY <1>1, InitIds, NextIds, PTL DEF Spec

-----------------------------------------------------------------------------
(***************************************************************************)
(* Until a number wraps, no side of a Mux stops at the sequence number of  *)
(* a packet or at a reply nobody waits for: the proof that Inv of          *)
(* MuxInvariant is inductive, for every value of the constants.            *)
(***************************************************************************)

-----------------------------------------------------------------------------
(* Packets in flight: what taking the first and adding a last one does to  *)
(* the numbers of a channel.                                               *)

\* The first packet of a channel carries the expected number.
LEMMA HeadInSequence ==
    ASSUME NEW w \in Seq(MuxPacket), w # <<>>, NEW c, NEW lo \in Nat,
           Ordered(w, c), Covered(w, c, lo), Numbered(Head(w), c)
    PROVE  Head(w).mSeq = lo
<1>1. Len(w) >= 1 /\ Head(w) = w[1] /\ 1 \in 1 .. Len(w)
  BY TailFacts
<1>2. w[1].mSeq \in Nat /\ \A i \in 1 .. Len(w) : w[i].mSeq \in Nat
  BY <1>1, InFlight
<1>3. lo <= w[1].mSeq /\ \A n \in lo .. (w[1].mSeq - 1) : Carried(w, c, n)
  BY <1>1 DEF Covered
<1>4. ASSUME lo < w[1].mSeq PROVE FALSE
  <2>1. Carried(w, c, lo)
    BY <1>2, <1>3, <1>4
  <2>2. PICK j \in 1 .. Len(w) : Numbered(w[j], c) /\ w[j].mSeq = lo
    BY <2>1 DEF Carried
  <2>3. j # 1
    BY <1>2, <1>4, <2>2
  <2>4. w[1].mSeq < w[j].mSeq
    BY <1>1, <2>2, <2>3 DEF Ordered
  <2>. QED  BY <1>2, <1>4, <2>2, <2>4
<1>. QED  BY <1>1, <1>2, <1>3, <1>4

LEMMA TailOrdered ==
    ASSUME NEW w \in Seq(MuxPacket), w # <<>>, NEW c, Ordered(w, c)
    PROVE  Ordered(Tail(w), c)
BY TailFacts DEF Ordered

LEMMA TailBelow ==
    ASSUME NEW w \in Seq(MuxPacket), w # <<>>, NEW c, NEW hi, Below(w, c, hi)
    PROVE  Below(Tail(w), c, hi)
BY TailFacts DEF Below

LEMMA TailCarried ==
    ASSUME NEW w \in Seq(MuxPacket), w # <<>>, NEW c, NEW n, Carried(w, c, n),
           ~ (Numbered(Head(w), c) /\ Head(w).mSeq = n)
    PROVE  Carried(Tail(w), c, n)
BY TailFacts DEF Carried

\* Taking a packet that is not one of c's.
LEMMA TailOther ==
    ASSUME NEW w \in Seq(MuxPacket), w # <<>>, NEW c, NEW lo \in Nat, ~ Numbered(Head(w), c)
    PROVE  /\ Covered(w, c, lo) => Covered(Tail(w), c, lo)
           /\ \A hi \in Nat : Filled(w, c, lo, hi) => Filled(Tail(w), c, lo, hi)
<1>1. \A n : Carried(w, c, n) => Carried(Tail(w), c, n)
  BY TailCarried
<1>. QED  BY <1>1, TailFacts DEF Covered, Filled

\* Taking the packet of c that carries the expected number.
LEMMA TailNumbered ==
    ASSUME NEW w \in Seq(MuxPacket), w # <<>>, NEW c, NEW lo \in Nat,
           Numbered(Head(w), c), Head(w).mSeq = lo, Ordered(w, c)
    PROVE  /\ Covered(w, c, lo) => Covered(Tail(w), c, lo + 1)
           /\ \A hi \in Nat : Filled(w, c, lo, hi) /\ Below(w, c, hi) => Filled(Tail(w), c, lo + 1, hi)
<1>1. \A n \in Nat : n # lo /\ Carried(w, c, n) => Carried(Tail(w), c, n)
  BY TailCarried
<1>2. \A i \in 1 .. Len(Tail(w)) : Numbered(Tail(w)[i], c) => Tail(w)[i].mSeq \in Nat /\ lo < Tail(w)[i].mSeq
  BY TailFacts, InFlight DEF Ordered
<1>3. Covered(w, c, lo) => Covered(Tail(w), c, lo + 1)
  <2> SUFFICES ASSUME Covered(w, c, lo), NEW i \in 1 .. Len(Tail(w)), Numbered(Tail(w)[i], c)
               PROVE  /\ lo + 1 <= Tail(w)[i].mSeq
                      /\ \A n \in (lo + 1) .. (Tail(w)[i].mSeq - 1) : Carried(Tail(w), c, n)
    BY DEF Covered
  <2>1. \A n \in lo .. (Tail(w)[i].mSeq - 1) : Carried(w, c, n)
    BY TailFacts DEF Covered
  <2>. QED  BY <1>1, <1>2, <2>1
<1>4. ASSUME NEW hi \in Nat, Filled(w, c, lo, hi), Below(w, c, hi) PROVE Filled(Tail(w), c, lo + 1, hi)
  <2>1. lo < hi
    BY <1>4, TailFacts DEF Below
  <2>. QED  BY <1>1, <1>4, <2>1 DEF Filled
<1>. QED  BY <1>3, <1>4

LEMMA AppendCarried ==
    ASSUME NEW w \in Seq(MuxPacket), NEW p \in MuxPacket, NEW c, NEW n, Carried(w, c, n)
    PROVE  Carried(Append(w, p), c, n)
BY AppendFacts DEF Carried

\* Adding a packet that is not one of c's.
LEMMA AppendOther ==
    ASSUME NEW w \in Seq(MuxPacket), NEW p \in MuxPacket, NEW c, NEW lo \in Nat, ~ Numbered(p, c)
    PROVE  /\ Ordered(w, c) => Ordered(Append(w, p), c)
           /\ Covered(w, c, lo) => Covered(Append(w, p), c, lo)
           /\ \A hi : Below(w, c, hi) => Below(Append(w, p), c, hi)
           /\ \A hi : Filled(w, c, lo, hi) => Filled(Append(w, p), c, lo, hi)
<1>1. \A n : Carried(w, c, n) => Carried(Append(w, p), c, n)
  BY AppendCarried
<1>2. Ordered(w, c) => Ordered(Append(w, p), c)
  BY AppendFacts DEF Ordered
<1>3. Covered(w, c, lo) => Covered(Append(w, p), c, lo)
  BY <1>1, AppendFacts DEF Covered
<1>4. \A hi : Below(w, c, hi) => Below(Append(w, p), c, hi)
  BY AppendFacts DEF Below
<1>5. \A hi : Filled(w, c, lo, hi) => Filled(Append(w, p), c, lo, hi)
  BY <1>1 DEF Filled
<1>. QED  BY <1>2, <1>3, <1>4, <1>5

\* Adding the next packet of c.
LEMMA AppendNumbered ==
    ASSUME NEW w \in Seq(MuxPacket), NEW p \in MuxPacket, NEW c,
           Numbered(p, c), Ordered(w, c), Below(w, c, p.mSeq)
    PROVE  /\ Ordered(Append(w, p), c) /\ Below(Append(w, p), c, p.mSeq + 1)
           /\ \A lo \in Nat : Covered(w, c, lo) /\ Filled(w, c, lo, p.mSeq) =>
                /\ Covered(Append(w, p), c, lo)
                /\ Filled(Append(w, p), c, lo, p.mSeq + 1)
<1>1. \A n : Carried(w, c, n) => Carried(Append(w, p), c, n)
  BY AppendCarried
<1>2. p.mSeq \in Nat /\ \A i \in 1 .. Len(w) : w[i].mSeq \in Nat
  BY PacketSeqNat, InFlight
<1>3. Carried(Append(w, p), c, p.mSeq)
  BY AppendFacts DEF Carried
<1>4. Ordered(Append(w, p), c)
  <2> DEFINE a == Append(w, p)
  <2> SUFFICES ASSUME NEW i \in 1 .. Len(a), NEW j \in 1 .. Len(a), i < j,
                      Numbered(a[i], c), Numbered(a[j], c)
               PROVE  a[i].mSeq < a[j].mSeq
    BY DEF Ordered
  <2>1. CASE j = Len(w) + 1
    BY <2>1, AppendFacts DEF Below
  <2>2. CASE j # Len(w) + 1
    BY <2>2, AppendFacts DEF Ordered
  <2>. QED  BY <2>1, <2>2
<1>5. Below(Append(w, p), c, p.mSeq + 1)
  BY <1>2, AppendFacts DEF Below
<1>6. ASSUME NEW lo \in Nat, Covered(w, c, lo), Filled(w, c, lo, p.mSeq)
      PROVE  Covered(Append(w, p), c, lo)
  BY <1>1, <1>2, <1>6, AppendFacts DEF Covered, Filled
<1>7. ASSUME NEW lo \in Nat, Filled(w, c, lo, p.mSeq)
      PROVE  Filled(Append(w, p), c, lo, p.mSeq + 1)
  BY <1>1, <1>2, <1>3, <1>7 DEF Filled
<1>. QED  BY <1>4, <1>5, <1>6, <1>7

-----------------------------------------------------------------------------
(* Numbers as long as nothing wraps.                                       *)

LEMMA SentNext ==
    ASSUME NEW ch \in Channel, NEW ok \in BOOLEAN, ch.mSeq >= 1, Sent(ch, ok).mSeq # 0
    PROVE  /\ StampedSeq(ch) = ch.mSeq /\ ch.mSeq + 1 < SeqMod
           /\ Sent(ch, ok).mSeq = ch.mSeq + 1 /\ Sent(ch, ok).mSeqPeer = ch.mSeqPeer
           /\ Sent(ch, ok).mValid = ok
<1>1. ch.mSeq \in SeqNo
  BY DEF Channel
<1>2. Sent(ch, ok).mSeq = Incremented(ch.mSeq) /\ Sent(ch, ok).mSeqPeer = ch.mSeqPeer /\ Sent(ch, ok).mValid = ok
  BY DEF Sent, Channel
<1>. QED  BY <1>1, <1>2, SeqModAssumption DEF StampedSeq, AtLeastFirst, first_seq, Incremented, SeqNo

LEMMA ReceivedNext ==
    ASSUME NEW ch \in Channel, ch.mSeqPeer + 1 < SeqMod
    PROVE  /\ Received(ch).mSeqPeer = ch.mSeqPeer + 1
           /\ Received(ch).mSeq = ch.mSeq /\ Received(ch).mValid = ch.mValid
<1>1. ch.mSeqPeer \in SeqNo
  BY DEF Channel
<1>2. Received(ch).mSeqPeer = AtLeastFirst(Incremented(ch.mSeqPeer))
      /\ Received(ch).mSeq = ch.mSeq /\ Received(ch).mValid = ch.mValid
  BY DEF Received, Channel
<1>. QED  BY <1>1, <1>2, SeqModAssumption DEF AtLeastFirst, first_seq, Incremented, SeqNo

\* The wire w becomes w2 and the packets of c stay as they are.
Kept(w2, w, c) ==
    \/ w2 = w
    \/ w # <<>> /\ w2 = Tail(w) /\ ~ Numbered(Head(w), c)
    \/ \E p \in MuxPacket : w2 = Append(w, p) /\ ~ Numbered(p, c)

\* No packet of c is added.
NoNumber(w2, w, c) ==
    \/ w2 = w
    \/ w # <<>> /\ w2 = Tail(w)
    \/ \E p \in MuxPacket : w2 = Append(w, p) /\ ~ Numbered(p, c)

\* No reply that creates c is added.
NoPromise(w2, w, c) ==
    \/ w2 = w
    \/ w # <<>> /\ w2 = Tail(w)
    \/ \E p \in MuxPacket : w2 = Append(w, p) /\ ~ Creates(p, c)

LEMMA KeptNumbers ==
    ASSUME NEW w \in Seq(MuxPacket), NEW w2, NEW c, Kept(w2, w, c)
    PROVE  /\ Ordered(w, c) => Ordered(w2, c)
           /\ \A hi \in Nat : Below(w, c, hi) => Below(w2, c, hi)
           /\ \A lo \in Nat : Covered(w, c, lo) => Covered(w2, c, lo)
           /\ \A lo, hi \in Nat : Filled(w, c, lo, hi) => Filled(w2, c, lo, hi)
<1>1. CASE w2 = w
  BY <1>1
<1>2. CASE w # <<>> /\ w2 = Tail(w) /\ ~ Numbered(Head(w), c)
  BY <1>2, TailOrdered, TailBelow, TailOther
<1>3. ASSUME NEW p \in MuxPacket, w2 = Append(w, p), ~ Numbered(p, c)
      PROVE  /\ Ordered(w, c) => Ordered(w2, c)
             /\ \A hi \in Nat : Below(w, c, hi) => Below(w2, c, hi)
             /\ \A lo \in Nat : Covered(w, c, lo) => Covered(w2, c, lo)
             /\ \A lo, hi \in Nat : Filled(w, c, lo, hi) => Filled(w2, c, lo, hi)
  BY <1>3, AppendOther
<1>. QED  BY <1>1, <1>2, <1>3 DEF Kept

-----------------------------------------------------------------------------
(* The control stream to side t.                                           *)

LEMMA ControlNat ==
    ASSUME TypeOK, NEW t \in Side
    PROVE  /\ wire[t] \in Seq(MuxPacket) /\ Peer(t) \in Side
           /\ mControlChan[t].mSeqPeer \in Nat /\ mControlChan[t].mSeq \in Nat
           /\ mControlChan[Peer(t)].mSeq \in Nat /\ mControlChan[Peer(t)].mSeqPeer \in Nat
BY PeerSide, SeqNoType DEF TypeOK, Channel

\* Nothing of it moves; a write to t may get lost.
LEMMA ControlKept ==
    ASSUME TypeOK, TypeOK', NEW t \in Side, ControlStream(t), Kept(wire'[t], wire[t], 0),
           mControlChan'[t].mSeqPeer = mControlChan[t].mSeqPeer,
           mControlChan'[t].mValid => mControlChan[t].mValid,
           mControlChan'[Peer(t)].mSeq >= mControlChan[Peer(t)].mSeq,
           mControlChan'[Peer(t)].mValid =>
             mControlChan[Peer(t)].mValid /\ mControlChan'[Peer(t)].mSeq = mControlChan[Peer(t)].mSeq
    PROVE  ControlStream(t)'
<1> DEFINE w == wire[t]  w2 == wire'[t]
           snd == mControlChan[Peer(t)]  snd2 == mControlChan'[Peer(t)]
           rcv == mControlChan[t]  rcv2 == mControlChan'[t]
<1>1. w \in Seq(MuxPacket) /\ w2 \in Seq(MuxPacket) /\ rcv.mSeqPeer \in Nat /\ snd.mSeq \in Nat /\ snd2.mSeq \in Nat
  BY ControlNat, PeerSide, SeqNoType DEF TypeOK, Channel
<1>2. /\ Ordered(w, 0) => Ordered(w2, 0)
      /\ \A hi \in Nat : Below(w, 0, hi) => Below(w2, 0, hi)
      /\ \A lo \in Nat : Covered(w, 0, lo) => Covered(w2, 0, lo)
      /\ \A lo, hi \in Nat : Filled(w, 0, lo, hi) => Filled(w2, 0, lo, hi)
  BY <1>1, KeptNumbers
<1>3. /\ Ordered(w, 0) /\ Below(w, 0, snd.mSeq)
      /\ rcv.mValid => Covered(w, 0, rcv.mSeqPeer)
      /\ rcv.mValid /\ snd.mValid => Filled(w, 0, rcv.mSeqPeer, snd.mSeq)
  BY DEF ControlStream
<1>4. Below(w2, 0, snd.mSeq)
  BY <1>1, <1>2, <1>3
<1>5. Below(w2, 0, snd2.mSeq)
  BY <1>1, <1>4, InFlight DEF Below
<1>. QED  BY <1>1, <1>2, <1>3, <1>5 DEF ControlStream

\* Side t takes a control packet, or drops it when its end is invalid.
LEMMA ControlTake ==
    ASSUME TypeOK, TypeOK', NEW t \in Side, ControlStream(t), wire[t] # <<>>, wire'[t] = Tail(wire[t]),
           Numbered(Head(wire[t]), 0),
           mControlChan'[t].mValid =>
             /\ mControlChan[t].mValid /\ Head(wire[t]).mSeq = mControlChan[t].mSeqPeer
             /\ mControlChan'[t].mSeqPeer = mControlChan[t].mSeqPeer + 1,
           mControlChan'[Peer(t)] = mControlChan[Peer(t)]
    PROVE  ControlStream(t)'
<1> DEFINE w == wire[t]  w2 == wire'[t]
           snd == mControlChan[Peer(t)]
           rcv == mControlChan[t]  rcv2 == mControlChan'[t]
<1>1. w \in Seq(MuxPacket) /\ rcv.mSeqPeer \in Nat /\ snd.mSeq \in Nat
  BY ControlNat
<1>2. /\ Ordered(w, 0) /\ Below(w, 0, snd.mSeq)
      /\ rcv.mValid => Covered(w, 0, rcv.mSeqPeer)
      /\ rcv.mValid /\ snd.mValid => Filled(w, 0, rcv.mSeqPeer, snd.mSeq)
  BY DEF ControlStream
<1>3. Ordered(w2, 0) /\ Below(w2, 0, snd.mSeq)
  BY <1>1, <1>2, TailOrdered, TailBelow
<1>4. ASSUME rcv2.mValid
      PROVE  /\ Covered(w2, 0, rcv2.mSeqPeer)
             /\ snd.mValid => Filled(w2, 0, rcv2.mSeqPeer, snd.mSeq)
  BY <1>1, <1>2, <1>4, TailNumbered
<1>. QED  BY <1>3, <1>4 DEF ControlStream

\* The peer adds the next control packet.
LEMMA ControlAppend ==
    ASSUME TypeOK, TypeOK', NEW t \in Side, ControlStream(t), NEW p \in MuxPacket,
           wire'[t] = Append(wire[t], p), Numbered(p, 0), p.mSeq = mControlChan[Peer(t)].mSeq,
           mControlChan[Peer(t)].mValid, mControlChan'[Peer(t)].mSeq = p.mSeq + 1,
           mControlChan'[t] = mControlChan[t]
    PROVE  ControlStream(t)'
<1> DEFINE w == wire[t]  w2 == wire'[t]  snd == mControlChan[Peer(t)]  rcv == mControlChan[t]
<1>1. w \in Seq(MuxPacket) /\ rcv.mSeqPeer \in Nat /\ snd.mSeq \in Nat
  BY ControlNat
<1>2. /\ Ordered(w, 0) /\ Below(w, 0, snd.mSeq)
      /\ rcv.mValid => Covered(w, 0, rcv.mSeqPeer)
      /\ rcv.mValid /\ snd.mValid => Filled(w, 0, rcv.mSeqPeer, snd.mSeq)
  BY DEF ControlStream
<1>3. Ordered(w2, 0) /\ Below(w2, 0, p.mSeq + 1)
  BY <1>1, <1>2, AppendNumbered
<1>4. ASSUME rcv.mValid
      PROVE  Covered(w2, 0, rcv.mSeqPeer) /\ Filled(w2, 0, rcv.mSeqPeer, p.mSeq + 1)
  BY <1>1, <1>2, <1>4, AppendNumbered
<1>. QED  BY <1>3, <1>4 DEF ControlStream

-----------------------------------------------------------------------------
(* The stream of data channel c to side t.                                 *)

LEMMA ChannelNat ==
    ASSUME TypeOK, NEW t \in Side, NEW c \in DOMAIN mChannels[t]
    PROVE  mChannels[t][c] \in Channel /\ mChannels[t][c].mSeq \in Nat /\ mChannels[t][c].mSeqPeer \in Nat
BY SeqNoType DEF TypeOK, Channel

LEMMA DataKept ==
    ASSUME TypeOK, NEW t \in Side, NEW c, DataStream(t, c), Kept(wire'[t], wire[t], c),
           Listens(t, c)' => Listens(t, c) /\ Expected(t, c)' = Expected(t, c),
           Speaks(Peer(t), c)' =>
             Speaks(Peer(t), c) /\ mChannels'[Peer(t)][c].mSeq = mChannels[Peer(t)][c].mSeq
    PROVE  DataStream(t, c)'
<1>1. wire[t] \in Seq(MuxPacket) /\ Expected(t, c) \in Nat
  BY ChannelNat DEF TypeOK, Expected, first_seq
<1>2. Speaks(Peer(t), c) => mChannels[Peer(t)][c].mSeq \in Nat
  BY ChannelNat, PeerSide DEF Speaks
<1>3. /\ Ordered(wire[t], c) => Ordered(wire'[t], c)
      /\ \A hi \in Nat : Below(wire[t], c, hi) => Below(wire'[t], c, hi)
      /\ \A lo \in Nat : Covered(wire[t], c, lo) => Covered(wire'[t], c, lo)
      /\ \A lo, hi \in Nat : Filled(wire[t], c, lo, hi) => Filled(wire'[t], c, lo, hi)
  BY <1>1, KeptNumbers
<1>. QED  BY <1>1, <1>2, <1>3 DEF DataStream

LEMMA PromiseKept ==
    ASSUME NEW w \in Seq(MuxPacket), NEW w2, NEW c, NoPromise(w2, w, c),
           NEW i \in 1 .. Len(w2), Creates(w2[i], c)
    PROVE  \E j \in 1 .. Len(w) : Creates(w[j], c)
<1>1. CASE w2 = w
  BY <1>1
<1>2. CASE w # <<>> /\ w2 = Tail(w)
  <2>1. i + 1 \in 1 .. Len(w) /\ w2[i] = w[i + 1]
    BY <1>2, TailFacts
  <2>. QED  BY <2>1
<1>3. ASSUME NEW p \in MuxPacket, w2 = Append(w, p), ~ Creates(p, c)
      PROVE  \E j \in 1 .. Len(w) : Creates(w[j], c)
  <2>1. i \in 1 .. Len(w) /\ w2[i] = w[i]
    BY <1>3, AppendFacts
  <2>. QED  BY <2>1
<1>. QED  BY <1>1, <1>2, <1>3 DEF NoPromise

LEMMA ReplyKept ==
    ASSUME TypeOK, NEW t \in Side, NEW c, ReplyFirst(t, c), NoPromise(wire'[t], wire[t], c),
           NoNumber(wire'[Peer(t)], wire[Peer(t)], c),
           c \in DOMAIN mChannels'[Peer(t)] =>
             /\ c \in DOMAIN mChannels[Peer(t)]
             /\ mChannels'[Peer(t)][c].mSeqPeer = mChannels[Peer(t)][c].mSeqPeer
    PROVE  ReplyFirst(t, c)'
<1> DEFINE w == wire[t]  w2 == wire'[t]  v == wire[Peer(t)]  v2 == wire'[Peer(t)]
<1>1. w \in Seq(MuxPacket) /\ v \in Seq(MuxPacket)
  BY PeerSide DEF TypeOK
<1>2. SUFFICES ASSUME NEW i \in 1 .. Len(w2), Creates(w2[i], c)
               PROVE  /\ \A j \in 1 .. Len(w2) : Numbered(w2[j], c) => i < j
                      /\ \A j \in 1 .. Len(v2) : ~ Numbered(v2[j], c)
                      /\ c \in DOMAIN mChannels'[Peer(t)] => mChannels'[Peer(t)][c].mSeqPeer = first_seq
  BY DEF ReplyFirst
<1>3. PICK k \in 1 .. Len(w) : Creates(w[k], c)
  BY <1>1, <1>2, PromiseKept
<1>4. /\ \A j \in 1 .. Len(v) : ~ Numbered(v[j], c)
      /\ c \in DOMAIN mChannels[Peer(t)] => mChannels[Peer(t)][c].mSeqPeer = first_seq
      /\ \A m \in 1 .. Len(w) : Creates(w[m], c) => \A j \in 1 .. Len(w) : Numbered(w[j], c) => m < j
  BY <1>3 DEF ReplyFirst
<1> HIDE DEF w, w2, v, v2
<1>5. \A j \in 1 .. Len(v2) : ~ Numbered(v2[j], c)
  <2>1. CASE v2 = v
    BY <1>4, <2>1
  <2>2. CASE v # <<>> /\ v2 = Tail(v)
    BY <1>1, <1>4, <2>2, TailFacts
  <2>3. CASE \E p \in MuxPacket : v2 = Append(v, p) /\ ~ Numbered(p, c)
    BY <1>1, <1>4, <2>3, AppendFacts
  <2>. QED  BY <2>1, <2>2, <2>3 DEF NoNumber, v, v2
<1>6. \A j \in 1 .. Len(w2) : Numbered(w2[j], c) => i < j
  <2>1. CASE w2 = w
    BY <1>2, <1>4, <2>1
  <2>2. CASE w # <<>> /\ w2 = Tail(w)
    <3>1. \A m \in 1 .. Len(w2) : m \in Int /\ m + 1 \in 1 .. Len(w) /\ w2[m] = w[m + 1]
      BY <1>1, <2>2, TailFacts
    <3>2. i \in Int /\ i + 1 \in 1 .. Len(w) /\ Creates(w[i + 1], c)
      BY <1>2, <3>1
    <3>3. \A j \in 1 .. Len(w) : Numbered(w[j], c) => i + 1 < j
      BY <1>4, <3>2
    <3>4. ASSUME NEW j \in 1 .. Len(w2), Numbered(w2[j], c) PROVE i < j
      <4>1. j \in Int /\ j + 1 \in 1 .. Len(w) /\ Numbered(w[j + 1], c)
        BY <3>1, <3>4
      <4>. QED  BY <3>2, <3>3, <4>1
    <3>. QED  BY <3>4
  <2>3. CASE \E p \in MuxPacket : w2 = Append(w, p) /\ ~ Creates(p, c)
    <3>1. PICK p \in MuxPacket : w2 = Append(w, p) /\ ~ Creates(p, c)
      BY <2>3
    <3>2. i \in 1 .. Len(w) /\ w2[i] = w[i]
      BY <1>1, <1>2, <3>1, AppendFacts
    <3>3. \A j \in 1 .. Len(w2) : j # Len(w) + 1 => j \in 1 .. Len(w) /\ w2[j] = w[j]
      BY <1>1, <3>1, AppendFacts
    <3>. QED  BY <1>1, <1>2, <1>4, <3>2, <3>3, InFlight
  <2>. QED  BY <2>1, <2>2, <2>3 DEF NoPromise, w, w2
<1>. QED  BY <1>4, <1>5, <1>6 DEF v, v2, w, w2

\* Nothing was promised before and nothing is now.
LEMMA ReplyNone ==
    ASSUME TypeOK, NEW t \in Side, NEW c, ~ Promised(t, c), NoPromise(wire'[t], wire[t], c)
    PROVE  ReplyFirst(t, c)' /\ ~ Promised(t, c)'
<1>1. wire[t] \in Seq(MuxPacket)
  BY DEF TypeOK
<1>2. \A i \in 1 .. Len(wire'[t]) : ~ Creates(wire'[t][i], c)
  BY <1>1, PromiseKept DEF Promised
<1>. QED  BY <1>2 DEF ReplyFirst, Promised

\* A reply creates a channel its reader does not have.
LEMMA PromisedNew ==
    ASSUME RepliesFresh, NEW t \in Side, NEW c, Promised(t, c)
    PROVE  c \notin DOMAIN mChannels[t]
<1>1. PICK i \in 1 .. Len(wire[t]) : Creates(wire[t][i], c)
  BY DEF Promised
<1>2. Creates(wire[t][i], wire[t][i].mDataChan) /\ wire[t][i].mDataChan = c
  BY <1>1 DEF Creates
<1>. QED  BY <1>1, <1>2 DEF RepliesFresh, Fresh

\* A step that neither sends nor takes a packet of c, and creates no end of it.
LEMMA QuietData ==
    ASSUME TypeOK, RepliesFresh, NEW s \in Side, NEW q \in MuxPacket, Moved(s, q), NEW c,
           \A t \in Side : DataStream(t, c) /\ ReplyFirst(t, c),
           ~ Numbered(q, c), ~ Creates(q, c),
           wire'[s] = wire[s] \/ ~ Numbered(Head(wire[s]), c),
           \A t \in Side : c \in DOMAIN mChannels'[t] =>
             /\ c \in DOMAIN mChannels[t]
             /\ mChannels'[t][c].mSeqPeer = mChannels[t][c].mSeqPeer
             /\ mChannels'[t][c].mValid =>
                  mChannels[t][c].mValid /\ mChannels'[t][c].mSeq = mChannels[t][c].mSeq
    PROVE  \A t \in Side : DataStream(t, c)' /\ ReplyFirst(t, c)'
<1>1. Kept(wire'[s], wire[s], c) /\ Kept(wire'[Peer(s)], wire[Peer(s)], c)
  BY DEF Moved, Kept
<1>2. NoPromise(wire'[s], wire[s], c) /\ NoPromise(wire'[Peer(s)], wire[Peer(s)], c)
  BY DEF Moved, NoPromise
<1>3. SUFFICES ASSUME NEW t \in Side PROVE DataStream(t, c)' /\ ReplyFirst(t, c)'
  OBVIOUS
<1>4. /\ Kept(wire'[t], wire[t], c) /\ NoPromise(wire'[t], wire[t], c)
      /\ Kept(wire'[Peer(t)], wire[Peer(t)], c) /\ Peer(t) \in Side
  BY <1>1, <1>2, PeerSide, SideCases
<1>5. NoNumber(wire'[Peer(t)], wire[Peer(t)], c)
  BY <1>4 DEF Kept, NoNumber
<1>6. ReplyFirst(t, c)'
  BY <1>4, <1>5, ReplyKept
<1>7. Promised(t, c)' => Promised(t, c)
  <2>1. wire[t] \in Seq(MuxPacket)
    BY DEF TypeOK
  <2>. QED  BY <1>4, <2>1, PromiseKept DEF Promised
<1>8. Promised(t, c) => c \notin DOMAIN mChannels[t]
  BY PromisedNew
<1>9. Listens(t, c)' => Listens(t, c) /\ Expected(t, c)' = Expected(t, c)
  BY <1>7, <1>8 DEF Listens, Expected
<1>10. Speaks(Peer(t), c)' =>
         Speaks(Peer(t), c) /\ mChannels'[Peer(t)][c].mSeq = mChannels[Peer(t)][c].mSeq
  BY <1>4 DEF Speaks
<1>11. DataStream(t, c)'
  BY <1>4, <1>9, <1>10, DataKept
<1>. QED  BY <1>6, <1>11

\* Side t takes a packet of c, or drops it when it has no valid end.
LEMMA DataTake ==
    ASSUME TypeOK, NEW t \in Side, NEW c, DataStream(t, c), wire[t] # <<>>, wire'[t] = Tail(wire[t]),
           Numbered(Head(wire[t]), c),
           Listens(t, c)' => /\ Listens(t, c) /\ Head(wire[t]).mSeq = Expected(t, c)
                             /\ Expected(t, c)' = Expected(t, c) + 1,
           mChannels'[Peer(t)] = mChannels[Peer(t)]
    PROVE  DataStream(t, c)'
<1> DEFINE w == wire[t]  w2 == wire'[t]  lo == Expected(t, c)  hi == mChannels[Peer(t)][c].mSeq
<1>1. w \in Seq(MuxPacket) /\ lo \in Nat /\ (Speaks(Peer(t), c) => hi \in Nat)
  BY ChannelNat, PeerSide DEF TypeOK, Expected, Speaks, first_seq
<1>2. /\ Ordered(w, c)
      /\ Listens(t, c) => Covered(w, c, lo)
      /\ Speaks(Peer(t), c) => Below(w, c, hi)
      /\ Listens(t, c) /\ Speaks(Peer(t), c) => Filled(w, c, lo, hi)
  BY DEF DataStream
<1>3. Ordered(w2, c) /\ (Speaks(Peer(t), c) => Below(w2, c, hi))
  BY <1>1, <1>2, TailOrdered, TailBelow
<1>4. ASSUME Listens(t, c)'
      PROVE  /\ Covered(w2, c, lo + 1)
             /\ Speaks(Peer(t), c) => Filled(w2, c, lo + 1, hi)
  BY <1>1, <1>2, <1>4, TailNumbered
<1>5. Speaks(Peer(t), c)' = Speaks(Peer(t), c) /\ mChannels'[Peer(t)][c].mSeq = hi
  BY DEF Speaks
<1>. QED  BY <1>3, <1>4, <1>5 DEF DataStream

\* The peer adds the next packet of c.
LEMMA DataAppend ==
    ASSUME TypeOK, NEW t \in Side, NEW c, DataStream(t, c), NEW p \in MuxPacket,
           wire'[t] = Append(wire[t], p), Numbered(p, c), Speaks(Peer(t), c),
           p.mSeq = mChannels[Peer(t)][c].mSeq, mChannels'[Peer(t)][c].mSeq = p.mSeq + 1,
           Listens(t, c)' => Listens(t, c) /\ Expected(t, c)' = Expected(t, c)
    PROVE  DataStream(t, c)'
<1> DEFINE w == wire[t]  w2 == wire'[t]  lo == Expected(t, c)
<1>1. w \in Seq(MuxPacket) /\ lo \in Nat
  BY ChannelNat DEF TypeOK, Expected, first_seq
<1>2. /\ Ordered(w, c) /\ Below(w, c, p.mSeq)
      /\ Listens(t, c) => Covered(w, c, lo) /\ Filled(w, c, lo, p.mSeq)
  BY DEF DataStream
<1>3. Ordered(w2, c) /\ Below(w2, c, p.mSeq + 1)
  BY <1>1, <1>2, AppendNumbered
<1>4. Listens(t, c) => Covered(w2, c, lo) /\ Filled(w2, c, lo, p.mSeq + 1)
  BY <1>1, <1>2, AppendNumbered
<1>. QED  BY <1>3, <1>4 DEF DataStream

\* No packet of c is in flight, and every end of c is new.
LEMMA DataNew ==
    ASSUME NEW t \in Side, NEW c, \A i \in 1 .. Len(wire'[t]) : ~ Numbered(wire'[t][i], c),
           Listens(t, c)' => Expected(t, c)' = 1,
           Speaks(Peer(t), c)' => mChannels'[Peer(t)][c].mSeq = 1
    PROVE  DataStream(t, c)'
<1>1. Ordered(wire'[t], c) /\ \A n : Covered(wire'[t], c, n) /\ Below(wire'[t], c, n)
  BY DEF Ordered, Covered, Below
<1>2. Filled(wire'[t], c, 1, 1)
  BY DEF Filled
<1>. QED  BY <1>1, <1>2 DEF DataStream

-----------------------------------------------------------------------------
(* Requests and replies.                                                   *)

\* No packet with command cmd is added.
Fewer(w2, w, cmd) ==
    \/ w2 = w
    \/ w # <<>> /\ w2 = Tail(w)
    \/ \E p \in MuxPacket : w2 = Append(w, p) /\ p.mCmd # cmd

LEMMA Shifted ==
    ASSUME NEW w \in Seq(MuxPacket), NEW w2, NEW cmd, Fewer(w2, w, cmd)
    PROVE  \E d \in {0, 1} : \A i \in 1 .. Len(w2) : w2[i].mCmd = cmd =>
              i \in Nat /\ i + d \in 1 .. Len(w) /\ w2[i] = w[i + d]
<1>1. CASE w2 = w
  <2>1. \A i \in 1 .. Len(w2) : i \in Nat /\ i + 0 \in 1 .. Len(w) /\ w2[i] = w[i + 0]
    BY <1>1, InFlight
  <2>. QED  BY <2>1
<1>2. CASE w # <<>> /\ w2 = Tail(w)
  <2>1. \A i \in 1 .. Len(w2) : i \in Nat /\ i + 1 \in 1 .. Len(w) /\ w2[i] = w[i + 1]
    BY <1>2, TailFacts
  <2>. QED  BY <2>1
<1>3. ASSUME NEW p \in MuxPacket, w2 = Append(w, p), p.mCmd # cmd
      PROVE  \E d \in {0, 1} : \A i \in 1 .. Len(w2) : w2[i].mCmd = cmd =>
              i \in Nat /\ i + d \in 1 .. Len(w) /\ w2[i] = w[i + d]
  <2>1. \A i \in 1 .. Len(w2) : w2[i].mCmd = cmd => i \in Nat /\ i + 0 \in 1 .. Len(w) /\ w2[i] = w[i + 0]
    BY <1>3, AppendFacts
  <2>. QED  BY <2>1
<1>. QED  BY <1>1, <1>2, <1>3 DEF Fewer

\* What WaitingOK says of side t.
Waits(t) ==
    /\ \A n \in mWaitingPackets[t] : n < mControlChan[t].mSeq
    /\ \A i \in 1 .. Len(wire[Peer(t)]) :
        wire[Peer(t)][i].mCmd = "OpenChan" =>
            /\ wire[Peer(t)][i].mSeq \in mWaitingPackets[t]
            /\ \A j \in 1 .. Len(wire[t]) :
                wire[t][j].mCmd = "OpenChanReply" =>
                    wire[t][j].mReqSeq # wire[Peer(t)][i].mSeq
    /\ \A i \in 1 .. Len(wire[t]) :
        wire[t][i].mCmd = "OpenChanReply" =>
            /\ wire[t][i].mReqSeq \in mWaitingPackets[t]
            /\ \A j \in 1 .. Len(wire[t]) :
                wire[t][j].mCmd = "OpenChanReply" /\ i # j =>
                    wire[t][j].mReqSeq # wire[t][i].mReqSeq

LEMMA WaitingSides ==
    ASSUME NEW s \in Side
    PROVE  /\ WaitingOK <=> Waits(s) /\ Waits(Peer(s))
           /\ WaitingOK' <=> Waits(s)' /\ Waits(Peer(s))'
<1>1. WaitingOK <=> \A t \in Side : Waits(t)
  BY DEF WaitingOK, Waits
<1>2. WaitingOK' <=> \A t \in Side : Waits(t)'
  BY DEF WaitingOK, Waits
<1>. QED  BY <1>1, <1>2, PeerSide, SideCases

\* No request and no reply is added, and the same Opens wait, those whose reply
\* is taken excepted.
LEMMA WaitsKept ==
    ASSUME TypeOK, TypeOK', NEW t \in Side, Waits(t),
           Fewer(wire'[t], wire[t], "OpenChanReply"),
           Fewer(wire'[Peer(t)], wire[Peer(t)], "OpenChan"),
           \/ mWaitingPackets'[t] = mWaitingPackets[t]
           \/ /\ wire[t] # <<>> /\ wire'[t] = Tail(wire[t]) /\ Head(wire[t]).mCmd = "OpenChanReply"
              /\ mWaitingPackets'[t] = mWaitingPackets[t] \ {Head(wire[t]).mReqSeq},
           mControlChan'[t].mSeq >= mControlChan[t].mSeq
    PROVE  Waits(t)'
<1> DEFINE w == wire[t]  w2 == wire'[t]  v == wire[Peer(t)]  v2 == wire'[Peer(t)]
           a == mWaitingPackets[t]  a2 == mWaitingPackets'[t]
<1>1. /\ w \in Seq(MuxPacket) /\ v \in Seq(MuxPacket) /\ a \subseteq Nat /\ a2 \subseteq a
      /\ mControlChan[t].mSeq \in Nat /\ mControlChan'[t].mSeq \in Nat
  BY PeerSide, SeqNoType DEF TypeOK, Channel
<1>2. /\ \A n \in a : n < mControlChan[t].mSeq
      /\ \A i \in 1 .. Len(v) : v[i].mCmd = "OpenChan" =>
            v[i].mSeq \in a /\ \A j \in 1 .. Len(w) : w[j].mCmd = "OpenChanReply" => w[j].mReqSeq # v[i].mSeq
      /\ \A i \in 1 .. Len(w) : w[i].mCmd = "OpenChanReply" =>
            w[i].mReqSeq \in a /\ \A j \in 1 .. Len(w) :
                w[j].mCmd = "OpenChanReply" /\ i # j => w[j].mReqSeq # w[i].mReqSeq
  BY DEF Waits
<1>3. PICK d \in {0, 1} : \A i \in 1 .. Len(w2) : w2[i].mCmd = "OpenChanReply" =>
              i \in Nat /\ i + d \in 1 .. Len(w) /\ w2[i] = w[i + d]
  BY <1>1, Shifted
<1>4. PICK e \in {0, 1} : \A i \in 1 .. Len(v2) : v2[i].mCmd = "OpenChan" =>
              i \in Nat /\ i + e \in 1 .. Len(v) /\ v2[i] = v[i + e]
  <2>1. Fewer(v2, v, "OpenChan")
    OBVIOUS
  <2> HIDE DEF v, v2
  <2>. QED  BY <1>1, <2>1, Shifted
<1>5. \/ a2 = a
      \/ /\ 1 \in 1 .. Len(w) /\ w[1].mCmd = "OpenChanReply" /\ a2 = a \ {w[1].mReqSeq}
         /\ \A i \in 1 .. Len(w2) : i \in Nat /\ i + 1 \in 1 .. Len(w) /\ w2[i] = w[i + 1]
  <2>1. CASE a2 = a
    BY <2>1
  <2>2. CASE /\ w # <<>> /\ w2 = Tail(w) /\ Head(w).mCmd = "OpenChanReply"
             /\ a2 = a \ {Head(w).mReqSeq}
    <3> HIDE DEF w, w2, a, a2
    <3>1. 1 \in 1 .. Len(w) /\ w[1] = Head(w)
      BY <1>1, <2>2, TailFacts
    <3>2. \A i \in 1 .. Len(w2) : i \in Nat /\ i + 1 \in 1 .. Len(w) /\ w2[i] = w[i + 1]
      BY <1>1, <2>2, TailFacts
    <3>. QED  BY <2>2, <3>1, <3>2
  <2>. QED  BY <2>1, <2>2
<1> HIDE DEF w, w2, v, v2, a, a2
<1>6. \A n \in a2 : n < mControlChan'[t].mSeq
  BY <1>1, <1>2
<1>7. ASSUME NEW i \in 1 .. Len(v2), v2[i].mCmd = "OpenChan"
      PROVE  v2[i].mSeq \in a2 /\ \A j \in 1 .. Len(w2) : w2[j].mCmd = "OpenChanReply" => w2[j].mReqSeq # v2[i].mSeq
  <2>1. i + e \in 1 .. Len(v) /\ v2[i] = v[i + e]
    BY <1>4, <1>7
  <2>2. v2[i].mSeq \in a /\ \A j \in 1 .. Len(w) : w[j].mCmd = "OpenChanReply" => w[j].mReqSeq # v2[i].mSeq
    BY <1>2, <1>7, <2>1
  <2>. QED  BY <1>3, <1>5, <2>2
<1>8. ASSUME NEW i \in 1 .. Len(w2), w2[i].mCmd = "OpenChanReply"
      PROVE  w2[i].mReqSeq \in a2
  <2>1. CASE a2 = a
    BY <1>2, <1>3, <1>8, <2>1
  <2>2. CASE a2 # a
    <3>1. i \in Nat /\ i + 1 \in 1 .. Len(w) /\ i + 1 # 1 /\ w2[i] = w[i + 1]
      BY <1>5, <2>2
    <3>2. w[i + 1].mReqSeq \in a /\ w[1].mReqSeq # w[i + 1].mReqSeq
      BY <1>2, <1>5, <1>8, <2>2, <3>1
    <3>. QED  BY <1>5, <2>2, <3>1, <3>2
  <2>. QED  BY <2>1, <2>2
<1>9. ASSUME NEW i \in 1 .. Len(w2), w2[i].mCmd = "OpenChanReply",
             NEW j \in 1 .. Len(w2), w2[j].mCmd = "OpenChanReply", i # j
      PROVE  w2[j].mReqSeq # w2[i].mReqSeq
  <2>1. i \in Nat /\ j \in Nat /\ i + d \in 1 .. Len(w) /\ j + d \in 1 .. Len(w)
        /\ w2[i] = w[i + d] /\ w2[j] = w[j + d]
    BY <1>3, <1>9
  <2>2. i + d # j + d
    BY <1>9, <2>1
  <2>. QED  BY <1>2, <1>9, <2>1, <2>2
<1>. QED  BY <1>6, <1>7, <1>8, <1>9 DEF Waits, w, w2, v, v2, a, a2

\* Side t sends a request under a number of its own.
LEMMA WaitsAsks ==
    ASSUME TypeOK, TypeOK', NEW t \in Side, Waits(t), NEW p \in MuxPacket, p.mCmd = "OpenChan",
           wire'[t] = wire[t], wire'[Peer(t)] = Append(wire[Peer(t)], p),
           p.mSeq = mControlChan[t].mSeq, mControlChan'[t].mSeq = p.mSeq + 1,
           mWaitingPackets'[t] = mWaitingPackets[t] \cup {p.mSeq}
    PROVE  Waits(t)'
<1> DEFINE w == wire[t]  v == wire[Peer(t)]  v2 == wire'[Peer(t)]  a == mWaitingPackets[t]
<1>1. w \in Seq(MuxPacket) /\ v \in Seq(MuxPacket) /\ a \subseteq Nat /\ p.mSeq \in Nat
  BY PeerSide, SeqNoType, PacketSeqNat DEF TypeOK
<1>2. /\ \A n \in a : n < p.mSeq
      /\ \A i \in 1 .. Len(v) : v[i].mCmd = "OpenChan" =>
            v[i].mSeq \in a /\ \A j \in 1 .. Len(w) : w[j].mCmd = "OpenChanReply" => w[j].mReqSeq # v[i].mSeq
      /\ \A i \in 1 .. Len(w) : w[i].mCmd = "OpenChanReply" =>
            w[i].mReqSeq \in a /\ \A j \in 1 .. Len(w) :
                w[j].mCmd = "OpenChanReply" /\ i # j => w[j].mReqSeq # w[i].mReqSeq
  BY DEF Waits
<1>3. \A i \in 1 .. Len(v2) : (i \in 1 .. Len(v) /\ v2[i] = v[i]) \/ v2[i] = p
  BY <1>1, AppendFacts
<1> HIDE DEF w, v, v2, a
<1>4. p.mSeq \notin a
  BY <1>1, <1>2
<1>5. ASSUME NEW i \in 1 .. Len(v2), v2[i].mCmd = "OpenChan"
      PROVE  /\ v2[i].mSeq \in a \cup {p.mSeq}
             /\ \A j \in 1 .. Len(w) : w[j].mCmd = "OpenChanReply" => w[j].mReqSeq # v2[i].mSeq
  BY <1>2, <1>3, <1>4, <1>5
<1>6. \A n \in a \cup {p.mSeq} : n < p.mSeq + 1
  <2>1. p.mSeq < p.mSeq + 1 /\ \A n \in Nat : n < p.mSeq => n < p.mSeq + 1
    BY <1>1
  <2>. QED  BY <1>1, <1>2, <2>1
<1>. QED  BY <1>2, <1>5, <1>6 DEF Waits, w, v, v2, a

\* The peer of t answers the first request in flight.
LEMMA WaitsAnswered ==
    ASSUME TypeOK, TypeOK', NEW t \in Side, Waits(t), NEW r \in MuxPacket, r.mCmd = "OpenChanReply",
           wire[Peer(t)] # <<>>, wire'[Peer(t)] = Tail(wire[Peer(t)]),
           Head(wire[Peer(t)]).mCmd = "OpenChan", r.mReqSeq = Head(wire[Peer(t)]).mSeq,
           wire'[t] = Append(wire[t], r), PacketsOK, Ordered(wire[Peer(t)], 0),
           mControlChan'[t] = mControlChan[t], mWaitingPackets'[t] = mWaitingPackets[t]
    PROVE  Waits(t)'
<1> DEFINE w == wire[t]  w2 == wire'[t]  v == wire[Peer(t)]  v2 == wire'[Peer(t)]  a == mWaitingPackets[t]
<1>1. w \in Seq(MuxPacket) /\ v \in Seq(MuxPacket) /\ Peer(t) \in Side
  BY PeerSide DEF TypeOK
<1>2. /\ \A i \in 1 .. Len(v) : v[i].mCmd = "OpenChan" =>
            v[i].mSeq \in a /\ \A j \in 1 .. Len(w) : w[j].mCmd = "OpenChanReply" => w[j].mReqSeq # v[i].mSeq
      /\ \A i \in 1 .. Len(w) : w[i].mCmd = "OpenChanReply" =>
            w[i].mReqSeq \in a /\ \A j \in 1 .. Len(w) :
                w[j].mCmd = "OpenChanReply" /\ i # j => w[j].mReqSeq # w[i].mReqSeq
  BY DEF Waits
<1>3. /\ 1 \in 1 .. Len(v) /\ v[1].mCmd = "OpenChan" /\ r.mReqSeq = v[1].mSeq
      /\ \A i \in 1 .. Len(v2) : i + 1 \in 1 .. Len(v) /\ 1 < i + 1 /\ v2[i] = v[i + 1]
  BY <1>1, TailFacts
<1>4. \A i \in 1 .. Len(w2) : \/ i \in 1 .. Len(w) /\ w2[i] = w[i]
                              \/ i = Len(w) + 1 /\ w2[i] = r
  BY <1>1, AppendFacts
<1>5. \A i \in 1 .. Len(v) : v[i].mCmd = "OpenChan" => Numbered(v[i], 0)
  BY <1>1 DEF PacketsOK, PacketOK, Numbered
<1>6. \A i \in 1 .. Len(v) : v[i].mCmd = "OpenChan" /\ 1 < i => v[1].mSeq < v[i].mSeq
  BY <1>3, <1>5 DEF Ordered
<1>7. \A i \in 1 .. Len(v) : v[i].mSeq \in Nat
  BY <1>1, InFlight
<1>8. \A n \in a : n < mControlChan'[t].mSeq
  BY DEF Waits
<1> HIDE DEF w, w2, v, v2, a
<1>9. ASSUME NEW i \in 1 .. Len(v2), v2[i].mCmd = "OpenChan"
      PROVE  v2[i].mSeq \in a /\ \A j \in 1 .. Len(w2) : w2[j].mCmd = "OpenChanReply" => w2[j].mReqSeq # v2[i].mSeq
  <2>1. i + 1 \in 1 .. Len(v) /\ v2[i] = v[i + 1] /\ v[1].mSeq < v[i + 1].mSeq
    BY <1>3, <1>6, <1>9
  <2>2. v[1].mSeq # v[i + 1].mSeq
    BY <1>3, <1>7, <2>1
  <2>3. v[i + 1].mSeq \in a /\ \A j \in 1 .. Len(w) : w[j].mCmd = "OpenChanReply" => w[j].mReqSeq # v[i + 1].mSeq
    BY <1>2, <1>9, <2>1
  <2>. QED  BY <1>3, <1>4, <2>1, <2>2, <2>3
<1>10. r.mReqSeq \in a /\ \A j \in 1 .. Len(w) : w[j].mCmd = "OpenChanReply" => w[j].mReqSeq # r.mReqSeq
  BY <1>2, <1>3
<1>11. ASSUME NEW i \in 1 .. Len(w2), w2[i].mCmd = "OpenChanReply"
       PROVE  /\ w2[i].mReqSeq \in a
              /\ \A j \in 1 .. Len(w2) : w2[j].mCmd = "OpenChanReply" /\ i # j => w2[j].mReqSeq # w2[i].mReqSeq
  BY <1>2, <1>4, <1>10, <1>11
<1>. QED  BY <1>8, <1>9, <1>11 DEF Waits, w, w2, v, v2, a

LEMMA CountersMoved ==
    ASSUME TypeOK, CountersOK, NEW s \in Side, NEW q \in MuxPacket, Moved(s, q),
           q.mCmd \in {"OpenChan", "OpenChanReply", "Data"} => q.mSeq >= 1 /\ q.mSeq + 1 < SeqMod,
           \A t \in Side : mControlChan'[t].mSeq >= 1 /\ mControlChan'[t].mSeqPeer >= 1,
           \A t \in Side : \A c \in DOMAIN mChannels'[t] :
              mChannels'[t][c].mSeq >= 1 /\ mChannels'[t][c].mSeqPeer >= 1
    PROVE  CountersOK'
<1> DEFINE Fits(p) == p.mCmd \in {"OpenChan", "OpenChanReply", "Data"} => p.mSeq >= 1 /\ p.mSeq + 1 < SeqMod
<1>1. \A t \in Side : wire[t] \in Seq(MuxPacket) /\ \A i \in 1 .. Len(wire[t]) : Fits(wire[t][i])
  BY DEF CountersOK, TypeOK
<1>2. Fits(q)
  OBVIOUS
<1> HIDE DEF Fits
<1>3. \A i \in 1 .. Len(wire'[s]) : Fits(wire'[s][i])
  <2>1. CASE wire'[s] = wire[s]
    BY <1>1, <2>1
  <2>2. CASE wire[s] # <<>> /\ wire'[s] = Tail(wire[s])
    BY <1>1, <2>2, TailFacts
  <2>. QED  BY <2>1, <2>2 DEF Moved
<1>4. \A i \in 1 .. Len(wire'[Peer(s)]) : Fits(wire'[Peer(s)][i])
  <2>0. /\ wire[Peer(s)] \in Seq(MuxPacket)
        /\ \A i \in 1 .. Len(wire[Peer(s)]) : Fits(wire[Peer(s)][i])
    BY <1>1, PeerSide
  <2>1. CASE wire'[Peer(s)] = wire[Peer(s)]
    BY <2>0, <2>1
  <2>2. CASE wire'[Peer(s)] = Append(wire[Peer(s)], q)
    <3>1. \A i \in 1 .. Len(wire'[Peer(s)]) :
            (i \in 1 .. Len(wire[Peer(s)]) /\ wire'[Peer(s)][i] = wire[Peer(s)][i]) \/ wire'[Peer(s)][i] = q
      BY <2>0, <2>2, AppendFacts
    <3>. QED  BY <1>2, <2>0, <3>1
  <2>. QED  BY <2>1, <2>2 DEF Moved
<1>5. \A t \in Side : \A i \in 1 .. Len(wire'[t]) : Fits(wire'[t][i])
  BY <1>3, <1>4, SideCases
<1>. QED  BY <1>5 DEF CountersOK, Fits

-----------------------------------------------------------------------------
(* The steps.                                                              *)

LEMMA Parts ==
    ASSUME Unwrapped(DataIds), NEW s \in Side
    PROVE  /\ CountersOK /\ Waits(s) /\ Waits(Peer(s))
           /\ ControlStream(s) /\ ControlStream(Peer(s))
           /\ \A c \in DataIds : \A t \in Side : DataStream(t, c) /\ ReplyFirst(t, c)
<1>1. WaitingOK /\ CountersOK /\ (\A t \in Side : ControlStream(t)) /\ DataStreams(DataIds)
  BY DEF Unwrapped
<1>. QED  BY <1>1, WaitingSides, PeerSide DEF DataStreams

LEMMA Whole ==
    ASSUME NEW s \in Side, CountersOK', Waits(s)', Waits(Peer(s))',
           ControlStream(s)', ControlStream(Peer(s))',
           \A c \in DataIds : \A t \in Side : DataStream(t, c)' /\ ReplyFirst(t, c)'
    PROVE  Unwrapped(DataIds)'
<1>1. WaitingOK'
  BY WaitingSides
<1>2. \A t \in Side : ControlStream(t)'
  BY SideCases
<1>3. DataStreams(DataIds)'
  BY DEF DataStreams
<1>. QED  BY <1>1, <1>2, <1>3 DEF Unwrapped

\* The control channels and the waiting Opens stay as they are.
LEMMA ControlIdle ==
    ASSUME TypeOK, TypeOK', NEW s \in Side, NEW q \in MuxPacket, Moved(s, q),
           Waits(s), Waits(Peer(s)), ControlStream(s), ControlStream(Peer(s)),
           q.mCmd \notin {"OpenChan", "OpenChanReply"}, ~ Numbered(q, 0),
           \/ wire'[s] = wire[s]
           \/ ~ Numbered(Head(wire[s]), 0)
           \/ ~ mControlChan[s].mValid,
           mControlChan' = mControlChan, mWaitingPackets' = mWaitingPackets
    PROVE  Waits(s)' /\ Waits(Peer(s))' /\ ControlStream(s)' /\ ControlStream(Peer(s))'
<1> DEFINE o == Peer(s)
<1>1. o \in Side /\ Peer(o) = s
  BY PeerSide
<1>2. \A t \in Side : mControlChan[t].mSeq \in Nat
  BY ControlNat
<1>3. \A cmd \in {"OpenChan", "OpenChanReply"} : Fewer(wire'[s], wire[s], cmd) /\ Fewer(wire'[o], wire[o], cmd)
  BY DEF Moved, Fewer
<1>4. Waits(s)' /\ Waits(o)'
  BY <1>1, <1>2, <1>3, WaitsKept
<1>5. Kept(wire'[o], wire[o], 0)
  BY DEF Moved, Kept
<1>6. ControlStream(o)'
  BY <1>1, <1>2, <1>5, ControlKept
<1>7. ControlStream(s)'
  <2>1. CASE Kept(wire'[s], wire[s], 0)
    BY <1>1, <1>2, <2>1, ControlKept
  <2>2. CASE ~ Kept(wire'[s], wire[s], 0)
    BY <2>2, ControlTake DEF Moved, Kept
  <2>. QED  BY <2>1, <2>2
<1>. QED  BY <1>4, <1>6, <1>7

LEMMA OpenStreams ==
    ASSUME IdInv, IdInv', Unwrapped(DataIds), ~ wrapped', NEW s \in Side, Open(s)
    PROVE  Unwrapped(DataIds)'
<1> DEFINE o == Peer(s)
           ch == mControlChan[s]
           q == Pkt("OpenChan", 0, StampedSeq(ch))
<1>1. TypeOK /\ TypeOK' /\ RepliesFresh /\ o \in Side /\ o # s /\ Peer(o) = s /\ ch \in Channel
  BY PeerSide DEF IdInv, Ids, TypeOK
<1>2. PICK ok \in BOOLEAN :
        /\ mControlChan' = [mControlChan EXCEPT ![s] = Sent(ch, ok)]
        /\ wire' = DoSend(wire, s, q, ok)
        /\ mWaitingPackets' = IF ok THEN [mWaitingPackets EXCEPT ![s] = @ \cup {StampedSeq(ch)}]
                                    ELSE mWaitingPackets
        /\ wrapped' = (wrapped \/ mControlChan'[s].mSeq = 0)
  BY <1>1, WriteOutcomesType DEF Open
<1>3. ch.mValid /\ UNCHANGED mChannels
  BY DEF Open
<1>4. /\ CountersOK /\ Waits(s) /\ Waits(o) /\ ControlStream(s) /\ ControlStream(o)
      /\ \A c \in DataIds : \A t \in Side : DataStream(t, c) /\ ReplyFirst(t, c)
  BY Parts
<1>5. mControlChan'[s] = Sent(ch, ok) /\ mControlChan'[o] = mControlChan[o]
  BY <1>1, <1>2 DEF TypeOK
<1>6. q \in MuxPacket /\ q.mCmd = "OpenChan" /\ q.mChan = 0 /\ q.mSeq = StampedSeq(ch)
  BY <1>1, SentType, PktType DEF Pkt, MuxCmd
<1>7. wire'[s] = wire[s] /\ wire'[o] = IF ok THEN Append(wire[o], q) ELSE wire[o]
  BY <1>1, <1>2 DEF DoSend, TypeOK
<1>8. /\ mWaitingPackets'[o] = mWaitingPackets[o]
      /\ mWaitingPackets'[s] = IF ok THEN mWaitingPackets[s] \cup {q.mSeq} ELSE mWaitingPackets[s]
  BY <1>1, <1>2, <1>6 DEF TypeOK
<1> HIDE DEF o, q
<1>9. /\ q.mSeq = ch.mSeq /\ ch.mSeq \in Nat /\ ch.mSeq >= 1 /\ ch.mSeq + 1 < SeqMod
      /\ mControlChan'[s].mSeq = ch.mSeq + 1 /\ mControlChan'[s].mSeqPeer = ch.mSeqPeer
      /\ mControlChan'[s].mValid = ok
  <2>1. ch.mSeq >= 1 /\ Sent(ch, ok).mSeq # 0
    BY <1>2, <1>4, <1>5 DEF CountersOK
  <2>. QED  BY <1>1, <1>5, <1>6, <2>1, SentNext, ControlNat
<1>10. Moved(s, q)
  BY <1>7 DEF Moved, o
<1>11. CountersOK'
  <2>1. \A t \in Side : mControlChan'[t].mSeq >= 1 /\ mControlChan'[t].mSeqPeer >= 1
    BY <1>1, <1>4, <1>5, <1>9, SideCases DEF CountersOK, o
  <2>2. \A t \in Side : \A c \in DOMAIN mChannels'[t] : mChannels'[t][c].mSeq >= 1 /\ mChannels'[t][c].mSeqPeer >= 1
    BY <1>3, <1>4 DEF CountersOK
  <2>. QED  BY <1>1, <1>4, <1>6, <1>9, <1>10, <2>1, <2>2, CountersMoved
<1>12. \A c \in DataIds : \A t \in Side : DataStream(t, c)' /\ ReplyFirst(t, c)'
  <2> SUFFICES ASSUME NEW c \in DataIds PROVE \A t \in Side : DataStream(t, c)' /\ ReplyFirst(t, c)'
    OBVIOUS
  <2>1. ~ Numbered(q, c) /\ ~ Creates(q, c)
    BY <1>6 DEF Numbered, Creates, DataIds
  <2>. QED  BY <1>1, <1>3, <1>4, <1>6, <1>7, <1>10, <2>1, QuietData
<1>13. ControlStream(s)'
  <2>1. Kept(wire'[s], wire[s], 0) /\ mControlChan[o].mSeq \in Nat
    BY <1>1, <1>7, ControlNat DEF Kept
  <2>2. mControlChan'[s].mSeqPeer = mControlChan[s].mSeqPeer /\ mControlChan[s].mValid
    BY <1>3, <1>9
  <2>. QED  BY <1>1, <1>4, <1>5, <2>1, <2>2, ControlKept DEF o
<1>14. CASE ok
  <2>1. Numbered(q, 0) /\ Peer(o) = s
    BY <1>1, <1>6 DEF Numbered
  <2>2. ControlStream(o)'
    BY <1>1, <1>3, <1>4, <1>5, <1>6, <1>7, <1>9, <1>14, <2>1, ControlAppend
  <2>3. Waits(s)'
    BY <1>1, <1>4, <1>6, <1>7, <1>8, <1>9, <1>14, WaitsAsks DEF o
  <2>4. Waits(o)'
    <3>1. Fewer(wire'[o], wire[o], "OpenChanReply") /\ Fewer(wire'[s], wire[s], "OpenChan")
      BY <1>6, <1>7, <1>14 DEF Fewer
    <3>. QED  BY <1>1, <1>4, <1>5, <1>8, <3>1, WaitsKept, ControlNat
  <2>. QED  BY <1>11, <1>12, <1>13, <2>2, <2>3, <2>4, Whole DEF o
<1>15. CASE ~ ok
  <2>1. ControlStream(o)'
    BY <1>1, <1>4, <1>5, <1>7, <1>9, <1>15, ControlKept, ControlNat DEF Kept
  <2>2. Waits(s)' /\ Waits(o)'
    <3>1. \A cmd : Fewer(wire'[o], wire[o], cmd) /\ Fewer(wire'[s], wire[s], cmd)
      BY <1>7, <1>15 DEF Fewer
    <3>2. mWaitingPackets'[s] = mWaitingPackets[s] /\ mControlChan'[s].mSeq >= mControlChan[s].mSeq
      BY <1>8, <1>9, <1>15
    <3>3. Waits(s)'
      BY <1>1, <1>4, <3>1, <3>2, WaitsKept DEF o
    <3>4. Waits(o)'
      BY <1>1, <1>4, <1>5, <1>8, <3>1, WaitsKept, ControlNat
    <3>. QED  BY <3>3, <3>4
  <2>. QED  BY <1>11, <1>12, <1>13, <2>1, <2>2, Whole DEF o
<1>. QED  BY <1>14, <1>15

LEMMA WriteStreams ==
    ASSUME IdInv, IdInv', Unwrapped(DataIds), ~ wrapped', NEW s \in Side,
           NEW c \in DOMAIN mChannels[s], Write(s, c)
    PROVE  Unwrapped(DataIds)'
<1> DEFINE o == Peer(s)
           ch == mChannels[s][c]
           q == Pkt("Data", c, StampedSeq(ch))
<1>1. TypeOK /\ TypeOK' /\ RepliesFresh /\ o \in Side /\ o # s /\ Peer(o) = s /\ ch \in Channel /\ c \in Nat
  BY PeerSide DEF IdInv, Ids, TypeOK
<1>2. PICK ok \in BOOLEAN :
        /\ mChannels' = [mChannels EXCEPT ![s][c] = Sent(ch, ok)]
        /\ wire' = DoSend(wire, s, q, ok)
        /\ wrapped' = (wrapped \/ mChannels'[s][c].mSeq = 0)
  BY <1>1, WriteOutcomesType DEF Write
<1>3. ch.mValid /\ UNCHANGED <<mControlChan, mWaitingPackets>>
  BY DEF Write
<1>4. /\ CountersOK /\ Waits(s) /\ Waits(o) /\ ControlStream(s) /\ ControlStream(o)
      /\ \A d \in DataIds : \A t \in Side : DataStream(t, d) /\ ReplyFirst(t, d)
  BY Parts
<1>5. Sent(ch, ok) \in Channel
  BY <1>1, SentType
<1>6. /\ mChannels'[s][c] = Sent(ch, ok) /\ mChannels'[o] = mChannels[o]
      /\ DOMAIN mChannels'[s] = DOMAIN mChannels[s]
      /\ \A d \in DOMAIN mChannels[s] : d # c => mChannels'[s][d] = mChannels[s][d]
  <2> HIDE DEF ch
  <2>. QED  BY <1>1, <1>2, <1>5, UpdateType
<1>7. q \in MuxPacket /\ q.mCmd = "Data" /\ q.mChan = c /\ q.mSeq = StampedSeq(ch)
  BY <1>1, SentType, PktType DEF Pkt, MuxCmd
<1>8. wire'[s] = wire[s] /\ wire'[o] = IF ok THEN Append(wire[o], q) ELSE wire[o]
  BY <1>1, <1>2 DEF DoSend, TypeOK
<1>9. c \in DataIds
  BY <1>1 DEF IdInv, Ids, ChanIdsOK, HandedOut, DataIds
<1> HIDE DEF o, q
<1>10. /\ q.mSeq = ch.mSeq /\ ch.mSeq \in Nat /\ ch.mSeq >= 1 /\ ch.mSeq + 1 < SeqMod
       /\ mChannels'[s][c].mSeq = ch.mSeq + 1 /\ mChannels'[s][c].mSeqPeer = ch.mSeqPeer
       /\ mChannels'[s][c].mValid = ok /\ ch.mSeqPeer >= 1
  <2>1. ch.mSeq >= 1 /\ ch.mSeqPeer >= 1 /\ Sent(ch, ok).mSeq # 0
    BY <1>2, <1>4, <1>6 DEF CountersOK
  <2>2. ch.mSeq \in Nat
    BY <1>1, ChannelNat
  <2>. QED  BY <1>1, <1>6, <1>7, <2>1, <2>2, SentNext
<1>11. Moved(s, q)
  BY <1>8 DEF Moved, o
<1>12. CountersOK'
  <2>1. \A d \in DOMAIN mChannels'[s] : mChannels'[s][d].mSeq >= 1 /\ mChannels'[s][d].mSeqPeer >= 1
    <3>1. \A d \in DOMAIN mChannels[s] : mChannels[s][d].mSeq >= 1 /\ mChannels[s][d].mSeqPeer >= 1
      BY <1>4 DEF CountersOK
    <3>2. mChannels'[s][c].mSeq >= 1 /\ mChannels'[s][c].mSeqPeer >= 1
      BY <1>10
    <3>. QED  BY <1>6, <3>1, <3>2
  <2>2. \A d \in DOMAIN mChannels'[o] : mChannels'[o][d].mSeq >= 1 /\ mChannels'[o][d].mSeqPeer >= 1
    BY <1>1, <1>4, <1>6 DEF CountersOK
  <2>3. \A t \in Side : \A d \in DOMAIN mChannels'[t] : mChannels'[t][d].mSeq >= 1 /\ mChannels'[t][d].mSeqPeer >= 1
    BY <2>1, <2>2, SideCases DEF o
  <2>4. \A t \in Side : mControlChan'[t].mSeq >= 1 /\ mControlChan'[t].mSeqPeer >= 1
    BY <1>3, <1>4 DEF CountersOK
  <2>5. q.mSeq >= 1 /\ q.mSeq + 1 < SeqMod
    BY <1>10
  <2>. QED  BY <1>1, <1>4, <1>7, <1>11, <2>3, <2>4, <2>5, CountersMoved
<1>13. Waits(s)' /\ Waits(o)' /\ ControlStream(s)' /\ ControlStream(o)'
  <2>1. ~ Numbered(q, 0) /\ q.mCmd \notin {"OpenChan", "OpenChanReply"}
    BY <1>7, <1>9 DEF Numbered, DataIds
  <2>. QED  BY <1>1, <1>3, <1>4, <1>7, <1>8, <1>11, <2>1, ControlIdle DEF o
<1>14. ASSUME NEW d \in DataIds, d # c \/ ~ ok PROVE \A t \in Side : DataStream(t, d)' /\ ReplyFirst(t, d)'
  <2>1. \A t \in Side : d \in DOMAIN mChannels'[t] =>
             /\ d \in DOMAIN mChannels[t]
             /\ mChannels'[t][d].mSeqPeer = mChannels[t][d].mSeqPeer
             /\ mChannels'[t][d].mValid =>
                  mChannels[t][d].mValid /\ mChannels'[t][d].mSeq = mChannels[t][d].mSeq
    BY <1>1, <1>6, <1>10, <1>14, SideCases DEF o
  <2>2. CASE d # c
    <3>1. ~ Numbered(q, d) /\ ~ Creates(q, d)
      BY <1>7, <2>2 DEF Numbered, Creates
    <3>. QED  BY <1>1, <1>4, <1>7, <1>8, <1>11, <2>1, <3>1, QuietData
  <2>3. CASE ~ ok
    <3> DEFINE e == Pkt("Nak", 0, 0)
    <3>1. e \in MuxPacket /\ e.mCmd = "Nak"
      BY PktType, SeqNoType DEF Pkt, MuxCmd
    <3> HIDE DEF e
    <3>2. ~ Numbered(e, d) /\ ~ Creates(e, d) /\ Moved(s, e)
      BY <1>8, <2>3, <3>1 DEF Numbered, Creates, Moved, o
    <3>. QED  BY <1>1, <1>4, <1>8, <2>1, <3>1, <3>2, QuietData
  <2>. QED  BY <1>14, <2>2, <2>3
<1>15. ASSUME ok PROVE \A t \in Side : DataStream(t, c)' /\ ReplyFirst(t, c)'
  <2>1. ~ Promised(s, c)
    BY <1>1, PromisedNew
  <2>2. /\ Numbered(q, c) /\ ~ Creates(q, c) /\ wire'[o] = Append(wire[o], q)
        /\ NoPromise(wire'[s], wire[s], c) /\ NoPromise(wire'[o], wire[o], c)
        /\ NoNumber(wire'[s], wire[s], c) /\ Kept(wire'[s], wire[s], c)
    BY <1>7, <1>8, <1>15 DEF Numbered, Creates, NoPromise, NoNumber, Kept
  <2>3. ReplyFirst(s, c)'
    BY <1>1, <2>1, <2>2, ReplyNone
  <2>4. ReplyFirst(o, c)'
    BY <1>1, <1>4, <1>6, <1>9, <1>10, <2>2, ReplyKept
  <2>5. Promised(o, c)' => Promised(o, c)
    <3>1. wire[o] \in Seq(MuxPacket)
      BY <1>1 DEF TypeOK
    <3>. QED  BY <2>2, <3>1, PromiseKept DEF Promised
  <2>6. Listens(o, c)' => Listens(o, c) /\ Expected(o, c)' = Expected(o, c)
    BY <1>6, <2>5 DEF Listens, Expected
  <2>7. DataStream(o, c)'
    <3>1. Speaks(s, c) /\ DataStream(o, c)
      BY <1>1, <1>3, <1>4, <1>9 DEF Speaks
    <3>. QED  BY <1>1, <1>7, <1>10, <2>2, <2>6, <3>1, DataAppend
  <2>8. DataStream(s, c)'
    <3>1. Listens(s, c)' => Listens(s, c) /\ Expected(s, c)' = Expected(s, c)
      BY <1>3, <1>6, <1>8, <1>10, <2>1 DEF Listens, Expected, Promised
    <3>2. Speaks(o, c)' => Speaks(o, c) /\ mChannels'[o][c].mSeq = mChannels[o][c].mSeq
      BY <1>6 DEF Speaks
    <3>. QED  BY <1>1, <1>4, <1>9, <2>2, <3>1, <3>2, DataKept DEF o
  <2>. QED  BY <2>3, <2>4, <2>7, <2>8, SideCases DEF o
<1>16. \A d \in DataIds : \A t \in Side : DataStream(t, d)' /\ ReplyFirst(t, d)'
  BY <1>14, <1>15
<1>. QED  BY <1>12, <1>13, <1>16, Whole DEF o

\* A step that only closes channels of s.
LEMMA ClosedStreams ==
    ASSUME IdInv, IdInv', Unwrapped(DataIds), NEW s \in Side, NEW q \in MuxPacket, Moved(s, q),
           q.mCmd \in {"CloseChan", "Nak"},
           wire'[s] = wire[s] \/ Head(wire[s]).mCmd \in {"CloseChan", "Nak"},
           \A t \in Side : \A c \in DOMAIN mChannels'[t] :
              c \in DOMAIN mChannels[t] /\ mChannels'[t][c] = mChannels[t][c],
           mControlChan' = mControlChan, mWaitingPackets' = mWaitingPackets
    PROVE  Unwrapped(DataIds)'
<1> DEFINE o == Peer(s)
<1>1. TypeOK /\ TypeOK' /\ RepliesFresh
  BY DEF IdInv, Ids
<1>2. /\ CountersOK /\ Waits(s) /\ Waits(o) /\ ControlStream(s) /\ ControlStream(o)
      /\ \A c \in DataIds : \A t \in Side : DataStream(t, c) /\ ReplyFirst(t, c)
  BY Parts
<1>3. \A c : ~ Numbered(q, c) /\ ~ Creates(q, c) /\ (wire'[s] = wire[s] \/ ~ Numbered(Head(wire[s]), c))
  BY DEF Numbered, Creates
<1>4. CountersOK'
  <2>1. \A t \in Side : \A c \in DOMAIN mChannels'[t] : mChannels'[t][c].mSeq >= 1 /\ mChannels'[t][c].mSeqPeer >= 1
    BY <1>2 DEF CountersOK
  <2>2. \A t \in Side : mControlChan'[t].mSeq >= 1 /\ mControlChan'[t].mSeqPeer >= 1
    BY <1>2 DEF CountersOK
  <2>. QED  BY <1>1, <1>2, <2>1, <2>2, CountersMoved
<1>5. Waits(s)' /\ Waits(o)' /\ ControlStream(s)' /\ ControlStream(o)'
  BY <1>1, <1>2, <1>3, ControlIdle
<1>6. \A c \in DataIds : \A t \in Side : DataStream(t, c)' /\ ReplyFirst(t, c)'
  BY <1>1, <1>2, <1>3, QuietData
<1>. QED  BY <1>4, <1>5, <1>6, Whole

LEMMA AskCloseStreams ==
    ASSUME IdInv, IdInv', Unwrapped(DataIds), NEW s \in Side,
           NEW c \in DOMAIN mChannels[s], AskClose(s, c)
    PROVE  Unwrapped(DataIds)'
<1> DEFINE ch == mChannels[s][c]
           q == Pkt("CloseChan", c, StampedSeq(ch))
<1>1. TypeOK /\ ch \in Channel /\ c \in Nat
  BY DEF IdInv, TypeOK
<1>2. PICK ok \in BOOLEAN : wire' = DoSend(wire, s, q, ok /\ ch.mValid)
  BY <1>1, WriteOutcomesType DEF AskClose
<1>3. UNCHANGED <<mControlChan, mWaitingPackets>>
  BY DEF AskClose
<1>4. \A t \in Side : \A d \in DOMAIN mChannels'[t] : d \in DOMAIN mChannels[t] /\ mChannels'[t][d] = mChannels[t][d]
  <2>1. mChannels' = [mChannels EXCEPT ![s] = Without(@, c)]
    BY DEF AskClose
  <2>. QED  BY <1>1, <2>1, EraseType, SideCases
<1>5. q \in MuxPacket /\ q.mCmd = "CloseChan"
  BY <1>1, SentType, PktType DEF Pkt, MuxCmd
<1>6. wire'[s] = wire[s]
  BY <1>1, <1>2, PeerSide DEF DoSend, TypeOK
<1> HIDE DEF q
<1>7. Moved(s, q)
  <2>1. (ok /\ ch.mValid) \in BOOLEAN
    OBVIOUS
  <2> HIDE DEF ch
  <2>. QED  BY <1>1, <1>2, <1>5, <2>1, MovedByStep
<1>. QED  BY <1>3, <1>4, <1>5, <1>6, <1>7, ClosedStreams

\* CloseChan and Nak.
LEMMA ErasedStreams ==
    ASSUME IdInv, IdInv', Unwrapped(DataIds), NEW s \in Side, wire[s] # <<>>, wire' = Taken(s),
           Head(wire[s]).mCmd \in {"CloseChan", "Nak"},
           mChannels' = [mChannels EXCEPT ![s] = Without(@, Head(wire[s]).mChan)],
           UNCHANGED <<mControlChan, mWaitingPackets>>
    PROVE  Unwrapped(DataIds)'
<1> DEFINE q == Pkt("Nak", 0, 0)
<1>1. q \in MuxPacket /\ q.mCmd = "Nak" /\ TypeOK
  BY PktType, SeqNoType DEF Pkt, MuxCmd, IdInv
<1> HIDE DEF q
<1>2. Moved(s, q)
  BY <1>1, MovedByStep
<1>3. \A t \in Side : \A d \in DOMAIN mChannels'[t] : d \in DOMAIN mChannels[t] /\ mChannels'[t][d] = mChannels[t][d]
  <2>0. PICK c : c = Head(wire[s]).mChan
    OBVIOUS
  <2>1. mChannels' = [mChannels EXCEPT ![s] = Without(@, c)]
    BY <2>0
  <2>2. /\ DOMAIN mChannels'[s] = DOMAIN mChannels[s] \ {c}
        /\ \A x \in DOMAIN mChannels'[s] : mChannels'[s][x] = mChannels[s][x]
        /\ mChannels'[Peer(s)] = mChannels[Peer(s)]
    BY <1>1, <2>1, EraseType
  <2>. QED  BY <2>2, SideCases
<1>. QED  BY <1>1, <1>2, <1>3, ClosedStreams

LEMMA HaltStreams ==
    ASSUME Unwrapped(DataIds), NEW s \in Side, NEW why, Halt(s, why)
    PROVE  Unwrapped(DataIds)'
<1>1. UNCHANGED <<mControlChan, mChannels, mWaitingPackets, wire>>
  BY DEF Halt
<1>2. CountersOK' /\ WaitingOK'
  BY <1>1 DEF Unwrapped, CountersOK, WaitingOK
<1>3. \A t \in Side : ControlStream(t)'
  BY <1>1 DEF Unwrapped, ControlStream
<1>4. \A t \in Side : \A c \in DataIds : DataStream(t, c)' /\ ReplyFirst(t, c)'
  BY <1>1 DEF Unwrapped, DataStreams, DataStream, ReplyFirst, Listens, Promised, Expected, Speaks
<1>. QED  BY <1>2, <1>3, <1>4 DEF Unwrapped, DataStreams

LEMMA HandleStrayStreams ==
    ASSUME IdInv, IdInv', Unwrapped(DataIds), NEW s \in Side, HandleStray(s)
    PROVE  Unwrapped(DataIds)'
<1> DEFINE o == Peer(s)
           p == Head(wire[s])
           q == Pkt("Nak", p.mChan, p.mSeq)
<1>1. TypeOK /\ TypeOK' /\ RepliesFresh /\ Ids /\ o \in Side /\ Peer(o) = s
  BY PeerSide DEF IdInv, Ids
<1>2. PICK ok \in BOOLEAN : wire' = DoSend(Taken(s), s, q, ok)
  BY <1>1, WriteOutcomesType DEF HandleStray
<1>3. /\ wire[s] # <<>> /\ (HasChannel(s, p.mChan) => ~ GetChannel(s, p.mChan).mValid)
      /\ p.mCmd \in {"OpenChan", "OpenChanReply", "Data"}
      /\ UNCHANGED <<mControlChan, mChannels, mWaitingPackets>>
  BY DEF HandleStray, Incoming
<1>4. /\ CountersOK /\ Waits(s) /\ Waits(o) /\ ControlStream(s) /\ ControlStream(o)
      /\ \A c \in DataIds : \A t \in Side : DataStream(t, c) /\ ReplyFirst(t, c)
  BY Parts
<1>5. p \in MuxPacket /\ PacketOK(mNextChanId, nFails, s, p)
  BY <1>1, <1>3, HeadOK
<1>6. p.mChan \in Nat /\ p.mSeq \in SeqNo
  BY <1>5 DEF MuxPacket
<1>7. q \in MuxPacket /\ q.mCmd = "Nak"
  BY <1>6, PktType DEF Pkt, MuxCmd
<1> HIDE DEF q
<1>8. Moved(s, q)
  BY <1>1, <1>2, <1>3, <1>7, MovedByStep
<1>9. wire'[s] = Tail(wire[s])
  BY <1>1, <1>2, PeerSide DEF DoSend, Taken, TypeOK
<1>10. \A c : ~ Numbered(q, c) /\ ~ Creates(q, c)
  BY <1>7 DEF Numbered, Creates
<1>11. CountersOK'
  BY <1>1, <1>3, <1>4, <1>7, <1>8, CountersMoved DEF CountersOK
<1>12. Waits(s)' /\ Waits(o)' /\ ControlStream(s)' /\ ControlStream(o)'
  <2>1. Numbered(p, 0) => ~ mControlChan[s].mValid
    BY <1>3 DEF Numbered, HasChannel, GetChannel
  <2>2. q.mCmd \notin {"OpenChan", "OpenChanReply"}
    BY <1>7
  <2>. QED  BY <1>1, <1>3, <1>4, <1>7, <1>8, <1>10, <2>1, <2>2, ControlIdle
<1>13. ASSUME NEW c \in DataIds PROVE \A t \in Side : DataStream(t, c)' /\ ReplyFirst(t, c)'
  <2>1. CASE ~ Numbered(p, c)
    BY <1>1, <1>3, <1>4, <1>7, <1>8, <1>10, <1>13, <2>1, QuietData
  <2>2. CASE Numbered(p, c)
    <3>1. /\ NoPromise(wire'[s], wire[s], c) /\ NoPromise(wire'[o], wire[o], c)
          /\ NoNumber(wire'[s], wire[s], c) /\ NoNumber(wire'[o], wire[o], c) /\ Kept(wire'[o], wire[o], c)
      BY <1>7, <1>8, <1>10 DEF Moved, NoPromise, NoNumber, Kept
    <3>2. ReplyFirst(s, c)' /\ ReplyFirst(o, c)'
      BY <1>1, <1>3, <1>4, <1>13, <3>1, ReplyKept
    <3>3. wire[s] \in Seq(MuxPacket) /\ wire[o] \in Seq(MuxPacket)
      BY <1>1 DEF TypeOK
    <3>4. ~ Promised(s, c)
      <4>1. p = wire[s][1] /\ 1 \in 1 .. Len(wire[s])
        BY <1>3, <3>3, TailFacts
      <4>2. \A i \in 1 .. Len(wire[s]) : i \in Nat /\ ~ (i < 1)
        BY <3>3, InFlight
      <4>3. ReplyFirst(s, c)
        BY <1>4, <1>13
      <4>. QED  BY <2>2, <4>1, <4>2, <4>3 DEF Promised, ReplyFirst
    <3>5. ~ Listens(s, c)'
      <4>1. ~ Promised(s, c)'
        BY <1>1, <3>1, <3>4, ReplyNone
      <4>2. c \in DOMAIN mChannels[s] => ~ mChannels[s][c].mValid
        BY <1>3, <2>2, <1>13 DEF Numbered, HasChannel, GetChannel, DataIds
      <4>. QED  BY <1>3, <4>1, <4>2 DEF Listens
    <3>6. DataStream(s, c)'
      BY <1>1, <1>3, <1>4, <1>9, <1>13, <2>2, <3>5, DataTake
    <3>7. DataStream(o, c)'
      <4>1. Promised(o, c)' => Promised(o, c)
        BY <3>1, <3>3, PromiseKept DEF Promised
      <4>2. Listens(o, c)' => Listens(o, c) /\ Expected(o, c)' = Expected(o, c)
        BY <1>3, <4>1 DEF Listens, Expected
      <4>3. Speaks(s, c)' => Speaks(s, c) /\ mChannels'[s][c].mSeq = mChannels[s][c].mSeq
        BY <1>3 DEF Speaks
      <4>. QED  BY <1>1, <1>4, <1>13, <3>1, <4>2, <4>3, DataKept
    <3>. QED  BY <3>2, <3>6, <3>7, SideCases
  <2>. QED  BY <2>1, <2>2
<1>. QED  BY <1>11, <1>12, <1>13, Whole

\* The packet a valid channel takes has a number below the modulus.
LEMMA TakenNumber ==
    ASSUME TypeOK, CountersOK, NEW s \in Side, wire[s] # <<>>,
           Head(wire[s]).mCmd \in {"OpenChan", "OpenChanReply", "Data"}
    PROVE  Head(wire[s]).mSeq \in Nat /\ Head(wire[s]).mSeq >= 1 /\ Head(wire[s]).mSeq + 1 < SeqMod
<1>1. wire[s] \in Seq(MuxPacket)
  BY DEF TypeOK
<1>2. Head(wire[s]) = wire[s][1] /\ 1 \in 1 .. Len(wire[s])
  BY <1>1, TailFacts
<1>. QED  BY <1>1, <1>2, InFlight DEF CountersOK

LEMMA HandleDataStreams ==
    ASSUME IdInv, IdInv', Unwrapped(DataIds), NEW s \in Side, HandleData(s)
    PROVE  Unwrapped(DataIds)'
<1> DEFINE o == Peer(s)
           p == Head(wire[s])
           q == Pkt("Nak", 0, 0)
<1>0. PICK c : c = p.mChan
  OBVIOUS
<1> DEFINE ch == mChannels[s][c]
<1>1. TypeOK /\ TypeOK' /\ RepliesFresh /\ Ids /\ o \in Side /\ Peer(o) = s /\ o # s
  BY PeerSide DEF IdInv, Ids
<1>2. /\ wire[s] # <<>> /\ p.mCmd = "Data" /\ c \in DOMAIN mChannels[s] /\ wire' = Taken(s)
      /\ mChannels' = [mChannels EXCEPT ![s][c] = Received(ch)]
      /\ UNCHANGED <<mControlChan, mWaitingPackets>>
  BY <1>0 DEF HandleData, Routed, Incoming
<1>3. c \in DataIds /\ c # 0 /\ c \in Nat
  <2>1. c \in Nat /\ HandedOut(mNextChanId, c)
    BY <1>1, <1>2 DEF Ids, ChanIdsOK, TypeOK
  <2>. QED  BY <2>1 DEF HandedOut, DataIds
<1>4. ch.mValid /\ p.mSeq = ch.mSeqPeer
  BY <1>0, <1>3 DEF HandleData, Routed, InSequence, GetChannel
<1>5. /\ CountersOK /\ Waits(s) /\ Waits(o) /\ ControlStream(s) /\ ControlStream(o)
      /\ \A d \in DataIds : \A t \in Side : DataStream(t, d) /\ ReplyFirst(t, d)
  BY Parts
<1>6. ch \in Channel /\ ch.mSeqPeer \in Nat /\ ch.mSeqPeer >= 1 /\ ch.mSeqPeer + 1 < SeqMod /\ ch.mSeq >= 1
  <2>1. ch \in Channel /\ ch.mSeqPeer >= 1 /\ ch.mSeq >= 1
    BY <1>1, <1>2, <1>5 DEF TypeOK, CountersOK
  <2>2. p.mSeq \in Nat /\ p.mSeq + 1 < SeqMod
    BY <1>1, <1>2, <1>5, TakenNumber
  <2>. QED  BY <1>4, <2>1, <2>2
<1>7. Received(ch).mSeqPeer = ch.mSeqPeer + 1 /\ Received(ch).mSeq = ch.mSeq /\ Received(ch).mValid = ch.mValid
      /\ Received(ch) \in Channel
  BY <1>6, ReceivedNext, SentType
<1>8. /\ mChannels'[s][c] = Received(ch) /\ mChannels'[o] = mChannels[o]
      /\ DOMAIN mChannels'[s] = DOMAIN mChannels[s]
      /\ \A d \in DOMAIN mChannels[s] : d # c => mChannels'[s][d] = mChannels[s][d]
  <2> HIDE DEF ch
  <2>. QED  BY <1>1, <1>2, <1>7, UpdateType
<1>9. q \in MuxPacket /\ q.mCmd = "Nak"
  BY PktType, SeqNoType DEF Pkt, MuxCmd
<1>10. Numbered(p, c) /\ \A d : Numbered(p, d) => d = c
  BY <1>0, <1>2 DEF Numbered
<1>11. wire[s] \in Seq(MuxPacket) /\ wire[o] \in Seq(MuxPacket) /\ wire'[s] = Tail(wire[s]) /\ wire'[o] = wire[o]
  BY <1>1, <1>2 DEF Taken, TypeOK
<1> HIDE DEF q, o, p
<1>12. Moved(s, q) /\ \A d : ~ Numbered(q, d) /\ ~ Creates(q, d)
  BY <1>2, <1>9, <1>11 DEF Moved, Numbered, Creates, o
<1>13. CountersOK'
  <2>1. \A d \in DOMAIN mChannels'[s] : mChannels'[s][d].mSeq >= 1 /\ mChannels'[s][d].mSeqPeer >= 1
    <3>1. \A d \in DOMAIN mChannels[s] : mChannels[s][d].mSeq >= 1 /\ mChannels[s][d].mSeqPeer >= 1
      BY <1>5 DEF CountersOK
    <3>2. mChannels'[s][c].mSeq >= 1 /\ mChannels'[s][c].mSeqPeer >= 1
      BY <1>6, <1>7, <1>8
    <3>. QED  BY <1>8, <3>1, <3>2
  <2>2. \A d \in DOMAIN mChannels'[o] : mChannels'[o][d].mSeq >= 1 /\ mChannels'[o][d].mSeqPeer >= 1
    BY <1>1, <1>5, <1>8 DEF CountersOK
  <2>3. \A t \in Side : \A d \in DOMAIN mChannels'[t] : mChannels'[t][d].mSeq >= 1 /\ mChannels'[t][d].mSeqPeer >= 1
    BY <2>1, <2>2, SideCases DEF o
  <2>4. \A t \in Side : mControlChan'[t].mSeq >= 1 /\ mControlChan'[t].mSeqPeer >= 1
    BY <1>2, <1>5 DEF CountersOK
  <2>. QED  BY <1>1, <1>5, <1>9, <1>12, <2>3, <2>4, CountersMoved
<1>14. Waits(s)' /\ Waits(o)' /\ ControlStream(s)' /\ ControlStream(o)'
  <2>1. ~ Numbered(p, 0) /\ q.mCmd \notin {"OpenChan", "OpenChanReply"}
    BY <1>3, <1>9, <1>10
  <2>. QED  BY <1>1, <1>2, <1>5, <1>9, <1>12, <2>1, ControlIdle DEF o, p
<1>15. ASSUME NEW d \in DataIds, d # c PROVE \A t \in Side : DataStream(t, d)' /\ ReplyFirst(t, d)'
  <2>1. \A t \in Side : d \in DOMAIN mChannels'[t] => d \in DOMAIN mChannels[t] /\ mChannels'[t][d] = mChannels[t][d]
    BY <1>8, <1>15, SideCases DEF o
  <2>2. ~ Numbered(p, d)
    BY <1>10, <1>15
  <2>. QED  BY <1>1, <1>5, <1>9, <1>12, <1>15, <2>1, <2>2, QuietData DEF p
<1>16. DataStream(s, c)' /\ DataStream(o, c)' /\ ReplyFirst(s, c)' /\ ReplyFirst(o, c)'
  <2>1. ~ Promised(s, c)
    BY <1>1, <1>2, PromisedNew
  <2>2. ~ Promised(o, c)
    <3>1. p = wire[s][1] /\ 1 \in 1 .. Len(wire[s])
      BY <1>2, <1>11, TailFacts DEF p
    <3>2. ReplyFirst(o, c)
      BY <1>1, <1>3, <1>5
    <3>. QED  BY <1>1, <1>10, <3>1, <3>2 DEF Promised, ReplyFirst
  <2>3. NoPromise(wire'[s], wire[s], c) /\ NoPromise(wire'[o], wire[o], c) /\ Kept(wire'[o], wire[o], c)
    BY <1>2, <1>11 DEF NoPromise, Kept
  <2>4. ReplyFirst(s, c)' /\ ReplyFirst(o, c)' /\ ~ Promised(s, c)' /\ ~ Promised(o, c)'
    BY <1>1, <2>1, <2>2, <2>3, ReplyNone
  <2>5. DataStream(s, c)'
    <3>1. Listens(s, c) /\ p.mSeq = Expected(s, c) /\ Expected(s, c)' = Expected(s, c) + 1
      BY <1>2, <1>4, <1>7, <1>8 DEF Listens, Expected
    <3>. QED  BY <1>1, <1>2, <1>3, <1>5, <1>8, <1>10, <1>11, <3>1, DataTake DEF o, p
  <2>6. DataStream(o, c)'
    <3>1. Listens(o, c)' => Listens(o, c) /\ Expected(o, c)' = Expected(o, c)
      BY <1>8, <2>4 DEF Listens, Expected
    <3>2. Speaks(s, c)' => Speaks(s, c) /\ mChannels'[s][c].mSeq = mChannels[s][c].mSeq
      BY <1>2, <1>7, <1>8 DEF Speaks
    <3>. QED  BY <1>1, <1>3, <1>5, <2>3, <3>1, <3>2, DataKept
  <2>. QED  BY <2>4, <2>5, <2>6
<1>17. \A d \in DataIds : \A t \in Side : DataStream(t, d)' /\ ReplyFirst(t, d)'
  BY <1>15, <1>16, SideCases DEF o
<1>. QED  BY <1>13, <1>14, <1>17, Whole DEF o

\* What side s does to the control channels when it answers a request with r; ok
\* is the transport's answer.
Answers(s, r, ok) ==
    LET ctl == Received(mControlChan[s]) IN
    /\ Routed(s, "OpenChan") /\ InSequence(s)
    /\ r \in MuxPacket /\ r.mCmd = "OpenChanReply" /\ r.mChan = 0
    /\ r.mSeq = StampedSeq(ctl) /\ r.mReqSeq = Head(wire[s]).mSeq
    /\ mControlChan' = [mControlChan EXCEPT ![s] = Sent(ctl, ok)]
    /\ wire' = DoSend(Taken(s), s, r, ok)
    /\ wrapped' = (wrapped \/ mControlChan'[s].mSeq = 0)
    /\ mWaitingPackets' = mWaitingPackets

\* The control channel that takes a packet expects its number, and the next.
LEMMA ControlReceived ==
    ASSUME IdInv, CountersOK, NEW s \in Side, NEW cmd \in {"OpenChan", "OpenChanReply"},
           Routed(s, cmd), InSequence(s)
    PROVE  LET ch == mControlChan[s]  ctl == Received(ch)  p == Head(wire[s]) IN
           /\ wire[s] # <<>> /\ p.mCmd = cmd /\ Numbered(p, 0) /\ p.mChan = 0
           /\ p \in MuxPacket /\ PacketOK(mNextChanId, nFails, s, p)
           /\ ch \in Channel /\ ch.mValid /\ p.mSeq = ch.mSeqPeer
           /\ ch.mSeq \in Nat /\ ch.mSeq >= 1 /\ ch.mSeqPeer \in Nat /\ ch.mSeqPeer >= 1
           /\ ctl \in Channel /\ ctl.mSeqPeer = ch.mSeqPeer + 1 /\ ctl.mSeq = ch.mSeq /\ ctl.mValid
<1> DEFINE ch == mControlChan[s]  ctl == Received(ch)  p == Head(wire[s])
<1>1. TypeOK /\ Ids /\ wire[s] # <<>> /\ p.mCmd = cmd
  BY DEF IdInv, Routed, Incoming
<1>2. p \in MuxPacket /\ PacketOK(mNextChanId, nFails, s, p)
  BY <1>1, HeadOK
<1>3. p.mChan = 0 /\ Numbered(p, 0)
  BY <1>1, <1>2 DEF PacketOK, Numbered
<1>4. ch.mValid /\ p.mSeq = ch.mSeqPeer
  BY <1>3 DEF Routed, InSequence, GetChannel
<1>5. p.mSeq \in Nat /\ p.mSeq + 1 < SeqMod
  BY <1>1, TakenNumber
<1>6. ch \in Channel /\ ch.mSeq \in Nat /\ ch.mSeqPeer \in Nat /\ ch.mSeq >= 1 /\ ch.mSeqPeer >= 1
  BY <1>1, ControlNat DEF CountersOK, TypeOK
<1>7. ctl \in Channel /\ ctl.mSeqPeer = ch.mSeqPeer + 1 /\ ctl.mSeq = ch.mSeq /\ ctl.mValid = ch.mValid
  BY <1>4, <1>5, <1>6, ReceivedNext, SentType
<1>. QED  BY <1>1, <1>2, <1>3, <1>4, <1>6, <1>7

LEMMA AnswersControl ==
    ASSUME IdInv, IdInv', Unwrapped(DataIds), ~ wrapped', NEW s \in Side, NEW r \in MuxPacket,
           NEW ok \in BOOLEAN, Answers(s, r, ok)
    PROVE  /\ Waits(s)' /\ Waits(Peer(s))' /\ ControlStream(s)' /\ ControlStream(Peer(s))'
           /\ \A t \in Side : mControlChan'[t].mSeq >= 1 /\ mControlChan'[t].mSeqPeer >= 1
           /\ r.mSeq >= 1 /\ r.mSeq + 1 < SeqMod
           /\ wire[s] # <<>> /\ wire'[s] = Tail(wire[s])
           /\ wire'[Peer(s)] = IF ok THEN Append(wire[Peer(s)], r) ELSE wire[Peer(s)]
           /\ Moved(s, r) /\ \A c \in DataIds : ~ Numbered(Head(wire[s]), c) /\ ~ Numbered(r, c)
<1> DEFINE o == Peer(s)
           p == Head(wire[s])
           ch == mControlChan[s]
           ctl == Received(ch)
<1>1. TypeOK /\ TypeOK' /\ PacketsOK /\ o \in Side /\ o # s /\ Peer(o) = s
  BY PeerSide DEF IdInv, Ids
<1>2. /\ CountersOK /\ Waits(s) /\ Waits(o) /\ ControlStream(s) /\ ControlStream(o)
  BY Parts
<1>3. /\ wire[s] # <<>> /\ p.mCmd = "OpenChan" /\ Numbered(p, 0) /\ p.mChan = 0
      /\ ch \in Channel /\ ch.mValid /\ p.mSeq = ch.mSeqPeer
      /\ ch.mSeq \in Nat /\ ch.mSeq >= 1 /\ ch.mSeqPeer \in Nat /\ ch.mSeqPeer >= 1
      /\ ctl \in Channel /\ ctl.mSeqPeer = ch.mSeqPeer + 1 /\ ctl.mSeq = ch.mSeq /\ ctl.mValid
  BY <1>2, ControlReceived DEF Answers
<1>4. /\ r.mCmd = "OpenChanReply" /\ r.mChan = 0
      /\ r.mSeq = StampedSeq(ctl) /\ r.mReqSeq = p.mSeq
      /\ mControlChan' = [mControlChan EXCEPT ![s] = Sent(ctl, ok)]
      /\ wire' = DoSend(Taken(s), s, r, ok)
      /\ wrapped' = (wrapped \/ mControlChan'[s].mSeq = 0)
      /\ mWaitingPackets' = mWaitingPackets
  BY DEF Answers
<1>5. /\ wire'[s] = Tail(wire[s])
      /\ wire'[o] = IF ok THEN Append(wire[o], r) ELSE wire[o]
      /\ wire[s] \in Seq(MuxPacket) /\ wire[o] \in Seq(MuxPacket)
  BY <1>1, <1>4 DEF DoSend, Taken, TypeOK
<1>6. mControlChan'[s] = Sent(ctl, ok) /\ mControlChan'[o] = mControlChan[o]
  BY <1>1, <1>4 DEF TypeOK
<1> HIDE DEF o, p, ctl
<1>7. /\ r.mSeq = ch.mSeq /\ ch.mSeq + 1 < SeqMod
      /\ mControlChan'[s].mSeq = ch.mSeq + 1 /\ mControlChan'[s].mSeqPeer = ch.mSeqPeer + 1
      /\ mControlChan'[s].mValid = ok
  <2>1. ctl.mSeq >= 1 /\ Sent(ctl, ok).mSeq # 0
    BY <1>3, <1>4, <1>6
  <2>. QED  BY <1>3, <1>4, <1>6, <2>1, SentNext
<1>8. ControlStream(s)'
  BY <1>1, <1>2, <1>3, <1>5, <1>6, <1>7, ControlTake DEF o, p
<1>9. Waits(s)'
  <2>1. Fewer(wire'[s], wire[s], "OpenChanReply") /\ Fewer(wire'[o], wire[o], "OpenChan")
    BY <1>3, <1>4, <1>5 DEF Fewer
  <2>2. mControlChan'[s].mSeq >= mControlChan[s].mSeq
    BY <1>3, <1>7
  <2>. QED  BY <1>1, <1>2, <1>4, <2>1, <2>2, WaitsKept DEF o
<1>10. ControlStream(o)' /\ Waits(o)'
  <2>1. CASE ok
    <3>1. wire'[o] = Append(wire[o], r) /\ Numbered(r, 0)
      BY <1>4, <1>5, <2>1 DEF Numbered
    <3>2. ControlStream(o)'
      BY <1>1, <1>2, <1>3, <1>6, <1>7, <3>1, ControlAppend
    <3>3. Ordered(wire[s], 0)
      BY <1>2 DEF ControlStream
    <3>4. Waits(o)'
      BY <1>1, <1>2, <1>3, <1>4, <1>5, <1>6, <3>1, <3>3, WaitsAnswered DEF p
    <3>. QED  BY <3>2, <3>4
  <2>2. CASE ~ ok
    <3>1. wire'[o] = wire[o]
      BY <1>5, <2>2
    <3>2. ControlStream(o)'
      <4>1. Kept(wire'[o], wire[o], 0) /\ mControlChan'[s].mSeq >= mControlChan[s].mSeq
        BY <1>3, <1>7, <3>1 DEF Kept
      <4>. QED  BY <1>1, <1>2, <1>6, <1>7, <2>2, <4>1, ControlKept
    <3>3. Waits(o)'
      <4>1. Fewer(wire'[o], wire[o], "OpenChanReply") /\ Fewer(wire'[s], wire[s], "OpenChan")
        BY <1>3, <1>5, <3>1 DEF Fewer
      <4>2. mControlChan'[o].mSeq >= mControlChan[o].mSeq
        BY <1>1, <1>6, ControlNat
      <4>. QED  BY <1>1, <1>2, <1>4, <4>1, <4>2, WaitsKept
    <3>. QED  BY <3>2, <3>3
  <2>. QED  BY <2>1, <2>2
<1>11. \A t \in Side : mControlChan'[t].mSeq >= 1 /\ mControlChan'[t].mSeqPeer >= 1
  <2>1. mControlChan'[s].mSeq >= 1 /\ mControlChan'[s].mSeqPeer >= 1
    BY <1>3, <1>7
  <2>2. mControlChan'[o].mSeq >= 1 /\ mControlChan'[o].mSeqPeer >= 1
    BY <1>1, <1>2, <1>6 DEF CountersOK
  <2>. QED  BY <2>1, <2>2, SideCases DEF o
<1>12. Moved(s, r) /\ \A c \in DataIds : ~ Numbered(Head(wire[s]), c) /\ ~ Numbered(r, c)
  BY <1>3, <1>4, <1>5 DEF Moved, Numbered, DataIds, o, p
<1>. QED  BY <1>3, <1>5, <1>7, <1>8, <1>9, <1>10, <1>11, <1>12 DEF o

LEMMA RefuseOpenStreams ==
    ASSUME IdInv, IdInv', Unwrapped(DataIds), ~ wrapped', NEW s \in Side, RefuseOpen(s)
    PROVE  Unwrapped(DataIds)'
<1>1. TypeOK /\ TypeOK' /\ RepliesFresh /\ wire[s] # <<>>
  BY DEF IdInv, Ids, RefuseOpen, Routed, Incoming
<1>0. PICK r : r = ReplyPkt(StampedSeq(Received(mControlChan[s])), Head(wire[s]).mSeq, 1, 0, 0)
  OBVIOUS
<1>2. PICK ok \in BOOLEAN :
        /\ mControlChan' = [mControlChan EXCEPT ![s] = Sent(Received(mControlChan[s]), ok)]
        /\ wire' = DoSend(Taken(s), s, r, ok)
        /\ wrapped' = (wrapped \/ mControlChan'[s].mSeq = 0)
  BY <1>0, <1>1, WriteOutcomesType DEF RefuseOpen
<1>3. r \in MuxPacket
  BY <1>0, <1>1, ReplySent
<1>4. /\ r.mCmd = "OpenChanReply" /\ r.mChan = 0 /\ r.mErrno = 1
      /\ r.mSeq = StampedSeq(Received(mControlChan[s])) /\ r.mReqSeq = Head(wire[s]).mSeq
  BY <1>0 DEF ReplyPkt
<1>5. Routed(s, "OpenChan") /\ InSequence(s) /\ UNCHANGED <<mChannels, mWaitingPackets>>
  BY DEF RefuseOpen
<1>6. Answers(s, r, ok)
  BY <1>2, <1>3, <1>4, <1>5 DEF Answers
<1>7. /\ Waits(s)' /\ Waits(Peer(s))' /\ ControlStream(s)' /\ ControlStream(Peer(s))'
      /\ \A t \in Side : mControlChan'[t].mSeq >= 1 /\ mControlChan'[t].mSeqPeer >= 1
      /\ r.mSeq >= 1 /\ r.mSeq + 1 < SeqMod
      /\ Moved(s, r) /\ \A c \in DataIds : ~ Numbered(Head(wire[s]), c) /\ ~ Numbered(r, c)
  BY <1>3, <1>6, AnswersControl
<1>8. CountersOK /\ \A c \in DataIds : \A t \in Side : DataStream(t, c) /\ ReplyFirst(t, c)
  BY Parts
<1>9. CountersOK'
  BY <1>1, <1>3, <1>5, <1>7, <1>8, CountersMoved DEF CountersOK
<1>10. \A c \in DataIds : \A t \in Side : DataStream(t, c)' /\ ReplyFirst(t, c)'
  <2>1. \A c : ~ Creates(r, c)
    BY <1>4 DEF Creates
  <2>. QED  BY <1>1, <1>3, <1>5, <1>7, <1>8, <2>1, QuietData
<1>. QED  BY <1>7, <1>9, <1>10, Whole

\* Before an id is handed out nothing is known of it.
LEMMA IdUnused ==
    ASSUME IdInv, NEW s \in Side, NEW t \in Side
    PROVE  LET id == mNextChanId[s] IN
           /\ id \in DataIds /\ id \notin DOMAIN mChannels[t]
           /\ \A i \in 1 .. Len(wire[t]) : ~ Numbered(wire[t][i], id) /\ ~ Creates(wire[t][i], id)
<1> DEFINE id == mNextChanId[s]
<1>1. TypeOK /\ ChanIdsOK /\ PacketsOK
  BY DEF IdInv, Ids
<1>2. id \in Nat /\ id >= 4 /\ id % 2 = s
  BY <1>1 DEF ChanIdsOK, TypeOK
<1>3. ~ HandedOut(mNextChanId, id)
  BY <1>2 DEF HandedOut
<1>4. id \notin DOMAIN mChannels[t]
  BY <1>1, <1>3 DEF ChanIdsOK
<1>5. ASSUME NEW i \in 1 .. Len(wire[t]) PROVE ~ Numbered(wire[t][i], id) /\ ~ Creates(wire[t][i], id)
  <2>1. PacketOK(mNextChanId, nFails, t, wire[t][i])
    BY <1>1, <1>5 DEF PacketsOK
  <2>. QED  BY <1>2, <1>3, <2>1 DEF PacketOK, Numbered, Creates
<1>. QED  BY <1>2, <1>4, <1>5 DEF DataIds

LEMMA AcceptOpenStreams ==
    ASSUME IdInv, IdInv', Unwrapped(DataIds), ~ wrapped', NEW s \in Side, AcceptOpen(s)
    PROVE  Unwrapped(DataIds)'
<1> DEFINE o == Peer(s)
<1>1. TypeOK /\ TypeOK' /\ RepliesFresh /\ wire[s] # <<>> /\ o \in Side /\ Peer(o) = s /\ o # s
  BY PeerSide DEF IdInv, Ids, AcceptOpen, Routed, Incoming
<1>0. PICK id : id = mNextChanId[s]
  OBVIOUS
<1>a. PICK sz \in Sizes, ok \in BOOLEAN :
        /\ sz >= 0
        /\ mChannels' = [mChannels EXCEPT ![s] = With(@, id, NewChannel(sz))]
        /\ mControlChan' = [mControlChan EXCEPT ![s] = Sent(Received(mControlChan[s]), ok)]
        /\ wire' = DoSend(Taken(s), s,
                         ReplyPkt(StampedSeq(Received(mControlChan[s])), Head(wire[s]).mSeq, 0, sz, id), ok)
        /\ wrapped' = (wrapped \/ mControlChan'[s].mSeq = 0)
  BY <1>0, <1>1, WriteOutcomesType DEF AcceptOpen
<1>b. PICK r : r = ReplyPkt(StampedSeq(Received(mControlChan[s])), Head(wire[s]).mSeq, 0, sz, id)
  OBVIOUS
<1>2. /\ sz >= 0 /\ id = mNextChanId[s]
      /\ r = ReplyPkt(StampedSeq(Received(mControlChan[s])), Head(wire[s]).mSeq, 0, sz, id)
      /\ mChannels' = [mChannels EXCEPT ![s] = With(@, id, NewChannel(sz))]
      /\ mControlChan' = [mControlChan EXCEPT ![s] = Sent(Received(mControlChan[s]), ok)]
      /\ wire' = DoSend(Taken(s), s, r, ok)
      /\ wrapped' = (wrapped \/ mControlChan'[s].mSeq = 0)
  BY <1>0, <1>a, <1>b
<1>3. sz \in Nat /\ id \in Nat
  BY <1>1, <1>2, SizesAssumption DEF TypeOK
<1>4. r \in MuxPacket
  BY <1>1, <1>2, <1>3, ReplySent
<1>5. /\ r.mCmd = "OpenChanReply" /\ r.mChan = 0 /\ r.mErrno = 0 /\ r.mDataChan = id
      /\ r.mSeq = StampedSeq(Received(mControlChan[s])) /\ r.mReqSeq = Head(wire[s]).mSeq
  BY <1>2 DEF ReplyPkt
<1>6. Routed(s, "OpenChan") /\ InSequence(s) /\ UNCHANGED mWaitingPackets
  BY DEF AcceptOpen
<1>7. Answers(s, r, ok)
  BY <1>2, <1>4, <1>5, <1>6 DEF Answers
<1>8. /\ Waits(s)' /\ Waits(o)' /\ ControlStream(s)' /\ ControlStream(o)'
      /\ \A t \in Side : mControlChan'[t].mSeq >= 1 /\ mControlChan'[t].mSeqPeer >= 1
      /\ r.mSeq >= 1 /\ r.mSeq + 1 < SeqMod
      /\ wire'[s] = Tail(wire[s]) /\ wire'[o] = IF ok THEN Append(wire[o], r) ELSE wire[o]
      /\ Moved(s, r) /\ \A c \in DataIds : ~ Numbered(Head(wire[s]), c) /\ ~ Numbered(r, c)
  BY <1>4, <1>7, AnswersControl
<1>9. CountersOK /\ \A c \in DataIds : \A t \in Side : DataStream(t, c) /\ ReplyFirst(t, c)
  BY Parts
<1>10. /\ DOMAIN mChannels'[s] = DOMAIN mChannels[s] \cup {id} /\ mChannels'[s][id] = NewChannel(sz)
       /\ \A x \in DOMAIN mChannels[s] : x # id => mChannels'[s][x] = mChannels[s][x]
       /\ mChannels'[o] = mChannels[o]
  <2>1. NewChannel(sz) \in Channel
    BY <1>3, NewChannelType
  <2>. QED  BY <1>1, <1>a, <1>3, <2>1, InsertType
<1>11. NewChannel(sz).mSeq = 1 /\ NewChannel(sz).mSeqPeer = 1
  BY DEF NewChannel, first_seq
<1> HIDE DEF o
<1>12. CountersOK'
  <2>1. \A d \in DOMAIN mChannels'[s] : mChannels'[s][d].mSeq >= 1 /\ mChannels'[s][d].mSeqPeer >= 1
    <3>1. \A d \in DOMAIN mChannels[s] : mChannels[s][d].mSeq >= 1 /\ mChannels[s][d].mSeqPeer >= 1
      BY <1>9 DEF CountersOK
    <3>2. mChannels'[s][id].mSeq >= 1 /\ mChannels'[s][id].mSeqPeer >= 1
      BY <1>10, <1>11
    <3>. QED  BY <1>10, <3>1, <3>2
  <2>2. \A d \in DOMAIN mChannels'[o] : mChannels'[o][d].mSeq >= 1 /\ mChannels'[o][d].mSeqPeer >= 1
    BY <1>1, <1>9, <1>10 DEF CountersOK
  <2>3. \A t \in Side : \A d \in DOMAIN mChannels'[t] : mChannels'[t][d].mSeq >= 1 /\ mChannels'[t][d].mSeqPeer >= 1
    BY <2>1, <2>2, SideCases DEF o
  <2>. QED  BY <1>1, <1>4, <1>8, <1>9, <2>3, CountersMoved
<1>13. ASSUME NEW c \in DataIds, c # id PROVE \A t \in Side : DataStream(t, c)' /\ ReplyFirst(t, c)'
  <2>1. ~ Creates(r, c)
    BY <1>5, <1>13 DEF Creates
  <2>2. \A t \in Side : c \in DOMAIN mChannels'[t] => c \in DOMAIN mChannels[t] /\ mChannels'[t][c] = mChannels[t][c]
    BY <1>10, <1>13, SideCases DEF o
  <2>. QED  BY <1>1, <1>4, <1>8, <1>9, <1>13, <2>1, <2>2, QuietData
<1>14. id \in DataIds /\ DataStream(s, id)' /\ DataStream(o, id)' /\ ReplyFirst(s, id)' /\ ReplyFirst(o, id)'
  <2>1. id \in DataIds /\ \A t \in Side :
          /\ id \notin DOMAIN mChannels[t]
          /\ \A i \in 1 .. Len(wire[t]) : ~ Numbered(wire[t][i], id) /\ ~ Creates(wire[t][i], id)
    BY <1>2, IdUnused
  <2>2. wire[s] \in Seq(MuxPacket) /\ wire[o] \in Seq(MuxPacket)
    BY <1>1 DEF TypeOK
  <2>3. \A i \in 1 .. Len(wire'[s]) : ~ Numbered(wire'[s][i], id) /\ ~ Creates(wire'[s][i], id)
    <3>1. \A i \in 1 .. Len(wire'[s]) : i + 1 \in 1 .. Len(wire[s]) /\ wire'[s][i] = wire[s][i + 1]
      BY <1>1, <1>8, <2>2, TailFacts
    <3>. QED  BY <2>1, <3>1
  <2>4. \A i \in 1 .. Len(wire'[o]) : ~ Numbered(wire'[o][i], id)
    <3>1. \A i \in 1 .. Len(wire'[o]) : (i \in 1 .. Len(wire[o]) /\ wire'[o][i] = wire[o][i]) \/ wire'[o][i] = r
      BY <1>4, <1>8, <2>2, AppendFacts
    <3>. QED  BY <1>1, <1>8, <2>1, <3>1
  <2>5. ReplyFirst(s, id)' /\ ~ Promised(s, id)'
    BY <2>3 DEF ReplyFirst, Promised
  <2>6. ReplyFirst(o, id)'
    BY <1>1, <1>10, <1>11, <2>3, <2>4 DEF ReplyFirst, first_seq
  <2>7. DataStream(s, id)'
    <3>1. ~ Speaks(o, id)'
      BY <1>1, <1>10, <2>1 DEF Speaks
    <3>2. Expected(s, id)' = 1
      BY <1>10, <1>11 DEF Expected
    <3>. QED  BY <2>3, <3>1, <3>2, DataNew DEF o
  <2>8. DataStream(o, id)'
    <3>1. Expected(o, id)' = 1
      BY <1>1, <1>10, <2>1 DEF Expected, first_seq
    <3>2. mChannels'[s][id].mSeq = 1
      BY <1>10, <1>11
    <3>. QED  BY <1>1, <2>4, <3>1, <3>2, DataNew
  <2>. QED  BY <2>1, <2>5, <2>6, <2>7, <2>8
<1>15. \A c \in DataIds : \A t \in Side : DataStream(t, c)' /\ ReplyFirst(t, c)'
  BY <1>13, <1>14, SideCases DEF o
<1>. QED  BY <1>8, <1>12, <1>15, Whole DEF o

\* A new channel under id d.
LEMMA Inserted ==
    ASSUME TypeOK, NEW s \in Side, NEW d \in Nat, NEW z \in Nat,
           mChannels' = [mChannels EXCEPT ![s] = With(@, d, NewChannel(z))]
    PROVE  /\ DOMAIN mChannels'[s] = DOMAIN mChannels[s] \cup {d} /\ mChannels'[s][d] = NewChannel(z)
           /\ \A x \in DOMAIN mChannels[s] : x # d => mChannels'[s][x] = mChannels[s][x]
           /\ mChannels'[Peer(s)] = mChannels[Peer(s)]
<1>1. NewChannel(z) \in Channel
  BY NewChannelType
<1>2. DOMAIN mChannels'[s] = DOMAIN mChannels[s] \cup {d} /\ mChannels'[Peer(s)] = mChannels[Peer(s)]
  BY <1>1, InsertType
<1>3. mChannels'[s][d] = NewChannel(z)
  <2>1. mChannels'[s] = With(mChannels[s], d, NewChannel(z))
    BY DEF TypeOK
  <2>. QED  BY <2>1 DEF With
<1>4. \A x \in DOMAIN mChannels[s] : x # d => mChannels'[s][x] = mChannels[s][x]
  BY <1>1, InsertType
<1>. QED  BY <1>2, <1>3, <1>4

LEMMA HandleReplyStreams ==
    ASSUME IdInv, IdInv', Unwrapped(DataIds), NEW s \in Side, HandleReply(s)
    PROVE  Unwrapped(DataIds)'
<1> DEFINE o == Peer(s)
           p == Head(wire[s])
           ch == mControlChan[s]
           q == Pkt("Nak", 0, 0)
<1>1. TypeOK /\ TypeOK' /\ RepliesFresh /\ RepliesFresh' /\ o \in Side /\ Peer(o) = s /\ o # s
  BY PeerSide DEF IdInv, Ids
<1>2. /\ Routed(s, "OpenChanReply") /\ InSequence(s) /\ wire' = Taken(s)
      /\ mWaitingPackets' = [mWaitingPackets EXCEPT ![s] = @ \ {p.mReqSeq}]
      /\ mControlChan' = [mControlChan EXCEPT ![s] = Received(ch)]
      /\ mChannels' = IF p.mErrno # 0 THEN mChannels
                      ELSE [mChannels EXCEPT ![s] = With(@, p.mDataChan, NewChannel(p.mDataSize))]
  BY DEF HandleReply
<1>3. /\ CountersOK /\ Waits(s) /\ Waits(o) /\ ControlStream(s) /\ ControlStream(o)
      /\ \A c \in DataIds : \A t \in Side : DataStream(t, c) /\ ReplyFirst(t, c)
  BY Parts
<1>4. /\ wire[s] # <<>> /\ p.mCmd = "OpenChanReply" /\ Numbered(p, 0) /\ p.mChan = 0
      /\ p \in MuxPacket /\ PacketOK(mNextChanId, nFails, s, p)
      /\ ch \in Channel /\ ch.mValid /\ p.mSeq = ch.mSeqPeer
      /\ ch.mSeq \in Nat /\ ch.mSeq >= 1 /\ ch.mSeqPeer \in Nat /\ ch.mSeqPeer >= 1
      /\ Received(ch).mSeqPeer = ch.mSeqPeer + 1 /\ Received(ch).mSeq = ch.mSeq /\ Received(ch).mValid
  BY <1>2, <1>3, ControlReceived
<1>5. /\ wire'[s] = Tail(wire[s]) /\ wire'[o] = wire[o]
      /\ wire[s] \in Seq(MuxPacket) /\ wire[o] \in Seq(MuxPacket)
  BY <1>1, <1>2 DEF Taken, TypeOK
<1>6. /\ mControlChan'[s] = Received(ch) /\ mControlChan'[o] = mControlChan[o]
      /\ mWaitingPackets'[s] = mWaitingPackets[s] \ {p.mReqSeq} /\ mWaitingPackets'[o] = mWaitingPackets[o]
  BY <1>1, <1>2 DEF TypeOK
<1>7. q \in MuxPacket /\ q.mCmd = "Nak"
  BY PktType, SeqNoType DEF Pkt, MuxCmd
<1> HIDE DEF q, o
<1>8. Moved(s, q) /\ \A c : ~ Numbered(q, c) /\ ~ Creates(q, c)
  BY <1>4, <1>5, <1>7 DEF Moved, Numbered, Creates, o
<1>9. \A t \in Side : mControlChan'[t].mSeq >= 1 /\ mControlChan'[t].mSeqPeer >= 1
  <2>1. mControlChan'[s].mSeq >= 1 /\ mControlChan'[s].mSeqPeer >= 1
    BY <1>4, <1>6
  <2>2. mControlChan'[o].mSeq >= 1 /\ mControlChan'[o].mSeqPeer >= 1
    BY <1>1, <1>3, <1>6 DEF CountersOK
  <2>. QED  BY <2>1, <2>2, SideCases DEF o
<1>10. ControlStream(s)'
  BY <1>1, <1>3, <1>4, <1>5, <1>6, ControlTake DEF o
<1>11. ControlStream(o)'
  <2>1. Kept(wire'[o], wire[o], 0)
    BY <1>5 DEF Kept
  <2>2. mControlChan'[s].mSeq >= mControlChan[s].mSeq /\ mControlChan'[s].mSeq = mControlChan[s].mSeq
    BY <1>4, <1>6
  <2>. QED  BY <1>1, <1>3, <1>4, <1>6, <2>1, <2>2, ControlKept
<1>12. Waits(s)'
  <2>1. Fewer(wire'[s], wire[s], "OpenChanReply") /\ Fewer(wire'[o], wire[o], "OpenChan")
    BY <1>4, <1>5 DEF Fewer
  <2>2. mControlChan'[s].mSeq >= mControlChan[s].mSeq
    BY <1>4, <1>6
  <2>. QED  BY <1>1, <1>3, <1>4, <1>5, <1>6, <2>1, <2>2, WaitsKept DEF o
<1>13. Waits(o)'
  <2>1. Fewer(wire'[o], wire[o], "OpenChanReply") /\ Fewer(wire'[s], wire[s], "OpenChan")
    BY <1>4, <1>5 DEF Fewer
  <2>2. mControlChan'[o].mSeq >= mControlChan[o].mSeq
    BY <1>1, <1>6, ControlNat
  <2>. QED  BY <1>1, <1>3, <1>6, <2>1, <2>2, WaitsKept
<1>14. \A c \in DataIds : ~ Numbered(p, c)
  BY <1>4 DEF Numbered, DataIds
<1>15. CASE p.mErrno # 0
  <2>1. mChannels' = mChannels
    BY <1>2, <1>15
  <2>2. CountersOK'
    BY <1>1, <1>3, <1>7, <1>8, <1>9, <2>1, CountersMoved DEF CountersOK
  <2>3. \A c \in DataIds : \A t \in Side : DataStream(t, c)' /\ ReplyFirst(t, c)'
    BY <1>1, <1>3, <1>7, <1>8, <1>14, <2>1, QuietData
  <2>. QED  BY <1>10, <1>11, <1>12, <1>13, <2>2, <2>3, Whole DEF o
<1>16. CASE p.mErrno = 0
  <2>0. PICK d, z : d = p.mDataChan /\ z = p.mDataSize
    OBVIOUS
  <2>1. d \in Nat /\ z \in Nat /\ NewChannel(z) \in Channel
    BY <1>4, <2>0, NewChannelType DEF MuxPacket
  <2>2. Creates(p, d) /\ d \in DataIds
    BY <1>4, <1>16, <2>0, <2>1 DEF Creates, PacketOK, HandedOut, DataIds
  <2>3. mChannels' = [mChannels EXCEPT ![s] = With(@, d, NewChannel(z))]
    BY <1>2, <1>16, <2>0
  <2>4. /\ DOMAIN mChannels'[s] = DOMAIN mChannels[s] \cup {d} /\ mChannels'[s][d] = NewChannel(z)
        /\ \A x \in DOMAIN mChannels[s] : x # d => mChannels'[s][x] = mChannels[s][x]
        /\ mChannels'[o] = mChannels[o]
    <3>1. /\ DOMAIN mChannels'[s] = DOMAIN mChannels[s] \cup {d} /\ mChannels'[s][d] = NewChannel(z)
          /\ \A x \in DOMAIN mChannels[s] : x # d => mChannels'[s][x] = mChannels[s][x]
          /\ mChannels'[Peer(s)] = mChannels[Peer(s)]
      BY <1>1, <2>1, <2>3, Inserted
    <3>. QED  BY <3>1 DEF o
  <2>5. NewChannel(z).mSeq = 1 /\ NewChannel(z).mSeqPeer = 1
    BY DEF NewChannel, first_seq
  <2>6. CountersOK'
    <3>1. \A c \in DOMAIN mChannels'[s] : mChannels'[s][c].mSeq >= 1 /\ mChannels'[s][c].mSeqPeer >= 1
      <4>1. \A c \in DOMAIN mChannels[s] : mChannels[s][c].mSeq >= 1 /\ mChannels[s][c].mSeqPeer >= 1
        BY <1>3 DEF CountersOK
      <4>2. mChannels'[s][d].mSeq >= 1 /\ mChannels'[s][d].mSeqPeer >= 1
        BY <2>4, <2>5
      <4>. QED  BY <2>4, <4>1, <4>2
    <3>2. \A c \in DOMAIN mChannels'[o] : mChannels'[o][c].mSeq >= 1 /\ mChannels'[o][c].mSeqPeer >= 1
      BY <1>1, <1>3, <2>4 DEF CountersOK
    <3>3. \A t \in Side : \A c \in DOMAIN mChannels'[t] : mChannels'[t][c].mSeq >= 1 /\ mChannels'[t][c].mSeqPeer >= 1
      BY <3>1, <3>2, SideCases DEF o
    <3>. QED  BY <1>1, <1>3, <1>7, <1>8, <1>9, <3>3, CountersMoved
  <2>7. ASSUME NEW c \in DataIds, c # d PROVE \A t \in Side : DataStream(t, c)' /\ ReplyFirst(t, c)'
    <3>1. \A t \in Side : c \in DOMAIN mChannels'[t] => c \in DOMAIN mChannels[t] /\ mChannels'[t][c] = mChannels[t][c]
      BY <2>4, <2>7, SideCases DEF o
    <3>. QED  BY <1>1, <1>3, <1>7, <1>8, <1>14, <2>7, <3>1, QuietData
  <2>8. DataStream(s, d)' /\ DataStream(o, d)' /\ ReplyFirst(s, d)' /\ ReplyFirst(o, d)'
    <3>1. p = wire[s][1] /\ 1 \in 1 .. Len(wire[s])
      BY <1>4, <1>5, TailFacts
    <3>2. Promised(s, d) /\ d \notin DOMAIN mChannels[s]
      BY <1>1, <2>2, <3>1, PromisedNew DEF Promised
    <3>3. /\ \A j \in 1 .. Len(wire[o]) : ~ Numbered(wire[o][j], d)
          /\ d \in DOMAIN mChannels[o] => mChannels[o][d].mSeqPeer = 1
      BY <1>3, <2>2, <3>1 DEF ReplyFirst, first_seq, o
    <3>4. DataStream(s, d)'
      <4>1. Listens(s, d) /\ Expected(s, d) = 1 /\ Expected(s, d)' = 1
        BY <2>4, <2>5, <3>2 DEF Listens, Expected, first_seq
      <4>2. Speaks(o, d)' => Speaks(o, d) /\ mChannels'[o][d].mSeq = mChannels[o][d].mSeq
        BY <2>4 DEF Speaks
      <4>3. Kept(wire'[s], wire[s], d)
        BY <1>4, <1>5, <1>14, <2>2 DEF Kept
      <4>. QED  BY <1>1, <1>3, <2>2, <4>1, <4>2, <4>3, DataKept DEF o
    <3>5. DataStream(o, d)'
      <4>1. Expected(o, d)' = 1
        BY <2>4, <3>3 DEF Expected, first_seq
      <4>2. mChannels'[s][d].mSeq = 1
        BY <2>4, <2>5
      <4>. QED  BY <1>1, <1>5, <3>3, <4>1, <4>2, DataNew
    <3>6. ReplyFirst(s, d)'
      <4>1. \A i \in 1 .. Len(wire'[s]) : ~ Creates(wire'[s][i], d)
        BY <1>1, <2>4 DEF RepliesFresh, Fresh, Creates
      <4>. QED  BY <4>1 DEF ReplyFirst
    <3>7. ReplyFirst(o, d)'
      <4>1. ReplyFirst(o, d)
        BY <1>1, <1>3, <2>2
      <4>2. /\ \A i \in 1 .. Len(wire[o]) : Creates(wire[o][i], d) =>
                 \A j \in 1 .. Len(wire[s]) : ~ Numbered(wire[s][j], d)
        BY <1>1, <4>1 DEF ReplyFirst
      <4>3. \A j \in 1 .. Len(wire'[s]) : j + 1 \in 1 .. Len(wire[s]) /\ wire'[s][j] = wire[s][j + 1]
        BY <1>4, <1>5, TailFacts
      <4>4. \A i \in 1 .. Len(wire[o]) : Creates(wire[o][i], d) =>
                 \A j \in 1 .. Len(wire'[s]) : ~ Numbered(wire'[s][j], d)
        BY <4>2, <4>3
      <4>5. mChannels'[s][d].mSeqPeer = first_seq
        BY <2>4, <2>5 DEF first_seq
      <4>. QED  BY <1>1, <1>5, <3>3, <4>4, <4>5 DEF ReplyFirst
    <3>. QED  BY <3>4, <3>5, <3>6, <3>7
  <2>9. \A c \in DataIds : \A t \in Side : DataStream(t, c)' /\ ReplyFirst(t, c)'
    BY <2>7, <2>8, SideCases DEF o
  <2>. QED  BY <1>10, <1>11, <1>12, <1>13, <2>6, <2>9, Whole DEF o
<1>. QED  BY <1>15, <1>16

-----------------------------------------------------------------------------
(* The assertions.                                                         *)

\* A packet a valid channel gets carries the number it expects.
LEMMA RoutedInSequence ==
    ASSUME IdInv, Unwrapped(DataIds), NEW s \in Side,
           NEW cmd \in {"OpenChan", "OpenChanReply", "Data"}, Routed(s, cmd)
    PROVE  InSequence(s)
<1> DEFINE p == Head(wire[s])
<1>1. TypeOK /\ Ids /\ wire[s] # <<>> /\ p.mCmd = cmd
  BY DEF IdInv, Routed, Incoming
<1>2. p \in MuxPacket /\ PacketOK(mNextChanId, nFails, s, p) /\ wire[s] \in Seq(MuxPacket)
  BY <1>1, HeadOK DEF TypeOK
<1>3. HasChannel(s, p.mChan) /\ GetChannel(s, p.mChan).mValid
  BY DEF Routed
<1>4. Numbered(p, p.mChan)
  BY <1>1 DEF Numbered
<1>5. CASE p.mChan = 0
  <2>1. mControlChan[s].mValid /\ ControlStream(s) /\ mControlChan[s].mSeqPeer \in Nat
    BY <1>1, <1>3, <1>5, Parts, ControlNat DEF GetChannel
  <2>2. Ordered(wire[s], 0) /\ Covered(wire[s], 0, mControlChan[s].mSeqPeer)
    BY <2>1 DEF ControlStream
  <2>3. p.mSeq = mControlChan[s].mSeqPeer
    BY <1>1, <1>2, <1>4, <1>5, <2>1, <2>2, HeadInSequence
  <2>. QED  BY <1>5, <2>3 DEF InSequence, GetChannel
<1>6. CASE p.mChan # 0
  <2>0. PICK c : c = p.mChan
    OBVIOUS
  <2>1. c \in DOMAIN mChannels[s] /\ mChannels[s][c].mValid
    BY <1>3, <1>6, <2>0 DEF HasChannel, GetChannel
  <2>2. c \in DataIds
    <3>1. c \in Nat /\ HandedOut(mNextChanId, c)
      BY <1>1, <2>1 DEF Ids, ChanIdsOK, TypeOK
    <3>. QED  BY <3>1 DEF DataIds, HandedOut
  <2>3. DataStream(s, c) /\ Listens(s, c) /\ Expected(s, c) = mChannels[s][c].mSeqPeer
        /\ mChannels[s][c].mSeqPeer \in Nat
    BY <1>1, <2>1, <2>2, Parts, ChannelNat DEF Listens, Expected
  <2>4. Ordered(wire[s], c) /\ Covered(wire[s], c, mChannels[s][c].mSeqPeer)
    BY <2>3 DEF DataStream
  <2>5. p.mSeq = mChannels[s][c].mSeqPeer
    BY <1>1, <1>2, <1>4, <2>0, <2>3, <2>4, HeadInSequence
  <2>. QED  BY <1>6, <2>0, <2>5 DEF InSequence, GetChannel
<1>. QED  BY <1>5, <1>6

\* A reply that arrives names a request that waits.
LEMMA ReplyAwaited ==
    ASSUME IdInv, Unwrapped(DataIds), NEW s \in Side, Routed(s, "OpenChanReply")
    PROVE  ReplyVerdict(s, Head(wire[s])) # "mWaitingPackets"
<1>1. wire[s] # <<>> /\ Head(wire[s]).mCmd = "OpenChanReply" /\ wire[s] \in Seq(MuxPacket)
  BY DEF IdInv, TypeOK, Routed, Incoming
<1>2. Head(wire[s]) = wire[s][1] /\ 1 \in 1 .. Len(wire[s])
  BY <1>1, TailFacts
<1>3. Head(wire[s]).mReqSeq \in mWaitingPackets[s]
  BY <1>1, <1>2, Parts DEF Waits
<1>. QED  BY <1>3 DEF ReplyVerdict

\* The reasons the assertions on sequence numbers and on waiting Opens give.
SeqReasons == {"mSeq", "mWaitingPackets"}

LEMMA SequenceKept ==
    ASSUME IdInv, IdInv', Unwrapped(DataIds), NEW s \in Side, Use(s) \/ Receive(s)
    PROVE  \A t \in Side : halted'[t] \in SeqReasons => halted[t] \in SeqReasons
<1>1. halted \in [Side -> Asserts \cup {"no"}]
  BY DEF IdInv, TypeOK
<1>2. ASSUME NEW why, why \notin SeqReasons, Halt(s, why)
      PROVE  \A t \in Side : halted'[t] \in SeqReasons => halted[t] \in SeqReasons
  BY <1>1, <1>2 DEF Halt
<1>3. CASE halted' = halted
  BY <1>3
<1>4. CASE HandleNak(s)
  <2>1. halted' = halted \/ Halt(s, "delete of mControlChan")
    BY <1>4 DEF HandleNak
  <2>. QED  BY <1>2, <1>3, <2>1 DEF SeqReasons
<1>5. CASE OutOfSequence(s)
  BY <1>5, RoutedInSequence DEF OutOfSequence
<1>6. CASE BadReply(s)
  <2>1. PICK why : why = ReplyVerdict(s, Head(wire[s]))
    OBVIOUS
  <2>2. why # "mWaitingPackets" /\ Halt(s, why)
    BY <1>6, <2>1, ReplyAwaited DEF BadReply
  <2>3. why # "mSeq"
    BY <2>1 DEF ReplyVerdict
  <2>. QED  BY <1>2, <2>2, <2>3 DEF SeqReasons
<1>7. CASE Use(s)
  BY <1>3, <1>7 DEF Use, Open, Write, AskClose
<1>8. CASE HandleClose(s) \/ HandleStray(s) \/ HandleData(s)
  BY <1>3, <1>8 DEF HandleClose, HandleStray, HandleData
<1>9. CASE RefuseOpen(s) \/ AcceptOpen(s) \/ HandleReply(s)
  BY <1>3, <1>9 DEF RefuseOpen, AcceptOpen, HandleReply
<1>. QED  BY <1>4, <1>5, <1>6, <1>7, <1>8, <1>9 DEF Receive

LEMMA WrapKept ==
    ASSUME NEW s \in Side, Use(s) \/ Receive(s), ~ wrapped'
    PROVE  ~ wrapped
<1>1. CASE Use(s)
  BY <1>1 DEF Use, Open, Write, AskClose
<1>2. CASE HandleClose(s) \/ HandleStray(s) \/ HandleData(s) \/ HandleNak(s) \/ HandleReply(s)
  BY <1>2 DEF HandleClose, HandleStray, HandleData, HandleNak, HandleReply, Halt
<1>3. CASE OutOfSequence(s) \/ BadReply(s)
  BY <1>3 DEF OutOfSequence, BadReply, Halt
<1>4. CASE RefuseOpen(s) \/ AcceptOpen(s)
  BY <1>4 DEF RefuseOpen, AcceptOpen
<1>. QED  BY <1>1, <1>2, <1>3, <1>4 DEF Receive

LEMMA UseStreams ==
    ASSUME IdInv, IdInv', Unwrapped(DataIds), ~ wrapped', NEW s \in Side, Use(s)
    PROVE  Unwrapped(DataIds)'
BY OpenStreams, WriteStreams, AskCloseStreams DEF Use

LEMMA ReceiveStreams ==
    ASSUME IdInv, IdInv', Unwrapped(DataIds), ~ wrapped', NEW s \in Side, Receive(s)
    PROVE  Unwrapped(DataIds)'
<1>1. CASE HandleClose(s)
  BY <1>1, ErasedStreams DEF HandleClose, Incoming
<1>2. CASE HandleNak(s)
  BY <1>2, ErasedStreams, HaltStreams DEF HandleNak, Incoming
<1>3. CASE HandleStray(s) \/ HandleData(s)
  BY <1>3, HandleStrayStreams, HandleDataStreams
<1>4. CASE OutOfSequence(s)
  BY <1>4, HaltStreams DEF OutOfSequence
<1>5. CASE BadReply(s)
  <2>1. PICK why : why = ReplyVerdict(s, Head(wire[s]))
    OBVIOUS
  <2>2. Halt(s, why)
    BY <1>5, <2>1 DEF BadReply
  <2>. QED  BY <2>2, HaltStreams
<1>6. CASE RefuseOpen(s) \/ AcceptOpen(s) \/ HandleReply(s)
  BY <1>6, RefuseOpenStreams, AcceptOpenStreams, HandleReplyStreams
<1>. QED  BY <1>1, <1>2, <1>3, <1>4, <1>5, <1>6 DEF Receive

LEMMA InitStreams == Init => Inv
<1> SUFFICES ASSUME Init PROVE Inv
  OBVIOUS
<1>1. IdInv
  BY InitIds
<1>2. SequenceHolds
  BY DEF Init, SequenceHolds
<1>3. \A s \in Side : /\ wire[s] = <<>> /\ DOMAIN mChannels[s] = {} /\ mWaitingPackets[s] = {}
                      /\ mControlChan[s].mSeq = 1 /\ mControlChan[s].mSeqPeer = 1
  BY DEF Init, NewChannel, first_seq
<1>4. Peer(0) = 1 /\ Peer(1) = 0 /\ \A s \in Side : Peer(s) \in Side
  BY DEF Peer, Side
<1>5. WaitingOK /\ CountersOK
  BY <1>3, <1>4 DEF WaitingOK, CountersOK
<1>6. \A s \in Side : Len(wire[s]) = 0
  BY <1>3
<1>7. \A s \in Side : ControlStream(s)
  BY <1>3, <1>4, <1>6 DEF ControlStream, Ordered, Below, Covered, Filled
<1>8. \A s \in Side : \A c \in DataIds : DataStream(s, c) /\ ReplyFirst(s, c)
  BY <1>3, <1>4, <1>6 DEF DataStream, ReplyFirst, Ordered, Below, Covered, Listens, Promised, Speaks
<1>. QED  BY <1>1, <1>2, <1>5, <1>7, <1>8 DEF Inv, Unwrapped, DataStreams

LEMMA NextStreams == Inv /\ [Next]_vars => Inv'
<1> SUFFICES ASSUME Inv, [Next]_vars PROVE Inv'
  OBVIOUS
<1>1. IdInv /\ IdInv' /\ SequenceHolds /\ (~ wrapped => Unwrapped(DataIds))
  BY NextIds DEF Inv
<1>2. CASE UNCHANGED vars
  <2>1. Unwrapped(DataIds) => Unwrapped(DataIds)'
    BY <1>2 DEF vars, Unwrapped, WaitingOK, CountersOK, ControlStream, DataStreams, DataStream, ReplyFirst,
       Listens, Promised, Expected, Speaks
  <2>. QED  BY <1>1, <1>2, <2>1 DEF vars, Inv, SequenceHolds
<1>3. ASSUME NEW s \in Side, Use(s) \/ Receive(s) PROVE Inv'
  <2>1. SUFFICES ASSUME ~ wrapped' PROVE SequenceHolds' /\ Unwrapped(DataIds)'
    BY <1>1 DEF Inv, SequenceHolds
  <2>2. ~ wrapped /\ Unwrapped(DataIds)
    BY <1>1, <1>3, <2>1, WrapKept
  <2>3. Unwrapped(DataIds)'
    BY <1>1, <1>3, <2>1, <2>2, UseStreams, ReceiveStreams
  <2>4. SequenceHolds'
    BY <1>1, <1>3, <2>1, <2>2, SequenceKept DEF SequenceHolds, SeqReasons
  <2>. QED  BY <2>3, <2>4
<1>. QED  BY <1>2, <1>3 DEF Next

-----------------------------------------------------------------------------
(* The theorems.                                                           *)

\* For every modulus, every number of channels and every pattern of closes and
\* failed writes: until a sequence number wraps, the assertion of
\* Channel::HandleIncomingPacket on the number of a packet and the assertion of
\* OnReceive on the request a reply answers never stop a side.
THEOREM SequenceCorrect == Spec => []SequenceHolds
<1>1. Inv => SequenceHolds
  BY DEF Inv
<1>. QED  BY <1>1, InitStreams, NextStreams, PTL DEF Spec

\* The packets of every channel in flight carry the numbers between what the
\* receiver expects and what the sender stamps next, without a gap; a reply
\* travels in front of the packets of the channel it creates and answers one
\* waiting Open.
THEOREM StreamsCorrect == Spec => []Inv
BY InitStreams, NextStreams, PTL DEF Spec

-----------------------------------------------------------------------------
(***************************************************************************)
(* Until a write fails the two sides of a Mux agree about their channels:  *)
(* the proof that UndisturbedInv of MuxInvariant is inductive.             *)
(***************************************************************************)

-----------------------------------------------------------------------------
(* Packets in flight.                                                      *)

\* The packets of w2 are those of w, d places further, and possibly q behind them.
Slid(w2, w, q, d) ==
    /\ \A i \in 1 .. Len(w2) :
        \/ i \in Int /\ i + d \in 1 .. Len(w) /\ w2[i] = w[i + d]
        \/ i \in Int /\ i + d = Len(w) + 1 /\ w2[i] = q
    /\ \A i \in 1 .. Len(w) : i \in Int /\ (i > d => i - d \in 1 .. Len(w2) /\ w2[i - d] = w[i])

LEMMA TailSlid ==
    ASSUME NEW w \in Seq(MuxPacket), w # <<>>, NEW q PROVE Slid(Tail(w), w, q, 1)
<1>1. \A i \in 1 .. Len(Tail(w)) : i \in Int /\ i + 1 \in 1 .. Len(w) /\ Tail(w)[i] = w[i + 1]
  BY TailFacts
<1>2. \A i \in 1 .. Len(w) : i \in Int /\ (i > 1 => i - 1 \in 1 .. Len(Tail(w)) /\ Tail(w)[i - 1] = w[i])
  BY TailFacts
<1>. QED  BY <1>1, <1>2 DEF Slid

LEMMA SameSlid ==
    ASSUME NEW w \in Seq(MuxPacket), NEW q PROVE Slid(w, w, q, 0)
<1>1. \A i \in 1 .. Len(w) : i \in Int /\ i + 0 = i /\ i - 0 = i
  BY InFlight
<1>. QED  BY <1>1 DEF Slid

LEMMA AppendSlid ==
    ASSUME NEW w \in Seq(MuxPacket), NEW q \in MuxPacket PROVE Slid(Append(w, q), w, q, 0)
<1>1. \A i \in 1 .. Len(Append(w, q)) :
        /\ i \in Int /\ i + 0 = i
        /\ (i \in 1 .. Len(w) /\ Append(w, q)[i] = w[i]) \/ (i = Len(w) + 1 /\ Append(w, q)[i] = q)
  BY AppendFacts
<1>2. \A i \in 1 .. Len(w) : i \in Int /\ i - 0 = i /\ i \in 1 .. Len(Append(w, q)) /\ Append(w, q)[i] = w[i]
  BY AppendFacts
<1>. QED  BY <1>1, <1>2 DEF Slid

\* A packet stays in flight unless it is the first and taken.
LEMMA StaysInFlight ==
    ASSUME NEW w, NEW w2, NEW q, NEW d \in {0, 1}, Slid(w2, w, q, d), NEW i \in 1 .. Len(w), d = 1 => i # 1
    PROVE  i - d \in 1 .. Len(w2) /\ w2[i - d] = w[i]
<1>1. i \in Int /\ i > d
  BY DEF Slid
<1>. QED  BY <1>1 DEF Slid

\* The wires after a step of s that sends q or nothing.
Shifts(s, q, d) ==
    /\ d \in {0, 1} /\ Slid(wire'[s], wire[s], q, d)
    /\ d = 0 => wire'[s] = wire[s]
    /\ d = 1 => wire[s] # <<>> /\ wire'[s] = Tail(wire[s])
    /\ Slid(wire'[Peer(s)], wire[Peer(s)], q, 0)
    /\ \A i \in 1 .. Len(wire'[s]) : i + d \in 1 .. Len(wire[s]) /\ wire'[s][i] = wire[s][i + d]

LEMMA MovedShifts ==
    ASSUME TypeOK, NEW s \in Side, NEW q \in MuxPacket, Moved(s, q)
    PROVE  \E d \in {0, 1} : Shifts(s, q, d)
<1>1. wire[s] \in Seq(MuxPacket) /\ wire[Peer(s)] \in Seq(MuxPacket)
  BY PeerSide DEF TypeOK
<1>2. Slid(wire'[Peer(s)], wire[Peer(s)], q, 0)
  BY <1>1, SameSlid, AppendSlid DEF Moved
<1>3. CASE wire'[s] = wire[s]
  <2>1. \A i \in 1 .. Len(wire[s]) : i + 0 = i
    BY <1>1, InFlight
  <2>2. Slid(wire'[s], wire[s], q, 0)
    BY <1>1, <1>3, SameSlid
  <2>3. Shifts(s, q, 0)
    BY <1>2, <1>3, <2>1, <2>2 DEF Shifts
  <2>. QED  BY <2>3
<1>4. CASE wire[s] # <<>> /\ wire'[s] = Tail(wire[s])
  <2>1. \A i \in 1 .. Len(wire'[s]) : i + 1 \in 1 .. Len(wire[s]) /\ wire'[s][i] = wire[s][i + 1]
    BY <1>1, <1>4, TailFacts
  <2>2. Slid(wire'[s], wire[s], q, 1)
    BY <1>1, <1>4, TailSlid
  <2>3. Shifts(s, q, 1)
    BY <1>2, <1>4, <2>1, <2>2 DEF Shifts
  <2>. QED  BY <2>3
<1>. QED  BY <1>3, <1>4 DEF Moved

-----------------------------------------------------------------------------
(* What a step does to the knowledge of the two sides.                     *)

LEMMA PacketNat ==
    ASSUME TypeOK, PacketsOK, NEW t \in Side, NEW i \in 1 .. Len(wire[t])
    PROVE  /\ wire[t][i] \in MuxPacket /\ wire[t][i].mChan \in Nat
           /\ PacketOK(mNextChanId, nFails, t, wire[t][i])
<1>1. wire[t] \in Seq(MuxPacket)
  BY DEF TypeOK
<1>2. wire[t][i] \in MuxPacket
  BY <1>1, InFlight
<1>3. wire[t][i].mChan \in Nat
  BY <1>2 DEF MuxPacket
<1>. QED  BY <1>2, <1>3 DEF PacketsOK

\* A CloseChan in flight to t is still there, or t has taken it.
LEMMA CloseStays ==
    ASSUME TypeOK, NEW s \in Side, NEW t \in Side, NEW q, NEW d \in {0, 1}, Shifts(s, q, d),
           NEW j \in 1 .. Len(wire[t]), NEW c, Closes(wire[t][j], c)
    PROVE  \/ t = s /\ d = 1 /\ Closes(Head(wire[s]), c)
           \/ LET e == IF t = s THEN d ELSE 0 IN
              /\ j - e \in 1 .. Len(wire'[t]) /\ Closes(wire'[t][j - e], c)
<1>1. wire[t] \in Seq(MuxPacket) /\ (t # s => t = Peer(s))
  BY SideCases DEF TypeOK
<1>2. CASE t = s /\ d = 1 /\ j = 1
  <2>1. Head(wire[s]) = wire[s][1]
    BY <1>1, <1>2, TailFacts DEF Shifts
  <2>. QED  BY <1>2, <2>1
<1>3. CASE t = s /\ (d = 1 => j # 1)
  BY <1>3, StaysInFlight DEF Shifts
<1>4. CASE t # s
  <2>1. Slid(wire'[t], wire[t], q, 0)
    BY <1>1, <1>4 DEF Shifts
  <2>. QED  BY <1>4, <2>1, StaysInFlight
<1>. QED  BY <1>2, <1>3, <1>4

LEMMA KnowledgeStep ==
    ASSUME TypeOK, PacketsOK, NEW s \in Side, NEW q, NEW d \in {0, 1}, Shifts(s, q, d),
           ReplyLeads, CloseSent, Forgotten(DataIds), NakLate,
           \A c \in Nat : HandedOut(mNextChanId, c) => HandedOut(mNextChanId', c),
           \A t \in Side : \A c \in Nat : HandedOut(mNextChanId, c) /\ Gone(t, c) => Gone(t, c)',
           \A t \in Side : \A c \in DataIds : HandedOut(mNextChanId', c) /\ Gone(t, c)' =>
              \/ HandedOut(mNextChanId, c) /\ Gone(t, c)
              \/ Gone(Peer(t), c)'
              \/ \E j \in 1 .. Len(wire'[Peer(t)]) : Closes(wire'[Peer(t)][j], c),
           \A c : d = 1 /\ Closes(Head(wire[s]), c) => Gone(s, c)',
           \A c : Closes(q, c) => Gone(s, c)',
           \A c : q.mCmd = "Nak" /\ q.mChan = c =>
              /\ c \in Nat /\ HandedOut(mNextChanId, c)
              /\ Gone(Peer(s), c) \/ \E j \in 1 .. Len(wire[Peer(s)]) : Closes(wire[Peer(s)][j], c),
           \A c : Creates(q, c) =>
              c # q.mChan /\ \A j \in 1 .. Len(wire[Peer(s)]) : wire[Peer(s)][j].mChan # c
    PROVE  ReplyLeads' /\ CloseSent' /\ Forgotten(DataIds)' /\ NakLate'
<1> DEFINE o == Peer(s)
<1>1. o \in Side /\ o # s /\ Peer(o) = s /\ \A t \in Side : t = s \/ t = o
  BY PeerSide, SideCases
<1>2. /\ \A i \in 1 .. Len(wire'[s]) : i \in Int /\ i + d \in 1 .. Len(wire[s]) /\ wire'[s][i] = wire[s][i + d]
      /\ \A i \in 1 .. Len(wire'[o]) : \/ i \in Int /\ i \in 1 .. Len(wire[o]) /\ wire'[o][i] = wire[o][i]
                                       \/ i \in Int /\ i = Len(wire[o]) + 1 /\ wire'[o][i] = q
  <2>1. /\ \A i \in 1 .. Len(wire'[s]) : i \in Int /\ i + d \in 1 .. Len(wire[s]) /\ wire'[s][i] = wire[s][i + d]
    BY DEF Shifts, Slid
  <2>2. ASSUME NEW i \in 1 .. Len(wire'[o])
        PROVE  \/ i \in Int /\ i \in 1 .. Len(wire[o]) /\ wire'[o][i] = wire[o][i]
               \/ i \in Int /\ i = Len(wire[o]) + 1 /\ wire'[o][i] = q
    <3>1. i \in Int /\ i + 0 = i
      BY <2>2 DEF Shifts, Slid
    <3>. QED  BY <2>2, <3>1 DEF Shifts, Slid
  <2>. QED  BY <2>1, <2>2
<1>3. Len(wire[s]) \in Nat /\ Len(wire[o]) \in Nat
  BY <1>1, InFlight DEF TypeOK
<1>4. \A t \in Side : \A c : \A j \in 1 .. Len(wire[t]) : Closes(wire[t][j], c) =>
         \/ Gone(t, c)'
         \/ LET e == IF t = s THEN d ELSE 0 IN
            /\ j - e \in 1 .. Len(wire'[t]) /\ Closes(wire'[t][j - e], c)
  BY CloseStays
<1> HIDE DEF o
<1>5. ReplyLeads'
  <2>1. ASSUME NEW i \in 1 .. Len(wire'[s]), NEW j \in 1 .. Len(wire'[s]),
               Creates(wire'[s][i], wire'[s][j].mChan)
        PROVE  i < j
    <3>1. /\ i \in Int /\ j \in Int /\ i + d \in 1 .. Len(wire[s]) /\ j + d \in 1 .. Len(wire[s])
          /\ Creates(wire[s][i + d], wire[s][j + d].mChan)
      BY <1>2, <2>1
    <3>2. i + d < j + d
      BY <3>1 DEF ReplyLeads
    <3>. QED  BY <3>1, <3>2
  <2>2. ASSUME NEW i \in 1 .. Len(wire'[o]), NEW j \in 1 .. Len(wire'[o]),
               Creates(wire'[o][i], wire'[o][j].mChan)
        PROVE  i < j
    <3>1. CASE i \in 1 .. Len(wire[o]) /\ wire'[o][i] = wire[o][i] /\ j \in 1 .. Len(wire[o]) /\ wire'[o][j] = wire[o][j]
      BY <1>1, <2>2, <3>1 DEF ReplyLeads
    <3>2. CASE i \in 1 .. Len(wire[o]) /\ j = Len(wire[o]) + 1
      BY <1>3, <3>2
    <3>3. CASE i = Len(wire[o]) + 1 /\ wire'[o][i] = q
      <4>1. Creates(q, wire'[o][j].mChan)
        BY <2>2, <3>3
      <4>2. wire'[o][j].mChan # q.mChan /\ \A k \in 1 .. Len(wire[o]) : wire[o][k].mChan # wire'[o][j].mChan
        BY <4>1 DEF o
      <4>. QED  BY <1>2, <2>2, <4>2
    <3>. QED  BY <1>2, <2>2, <3>1, <3>2, <3>3
  <2>. QED  BY <1>1, <2>1, <2>2 DEF ReplyLeads
<1>6. CloseSent'
  <2>1. ASSUME NEW t \in Side, NEW u \in Side, u = Peer(t), NEW i \in 1 .. Len(wire[t]), NEW c,
               Closes(wire[t][i], c)
        PROVE  Gone(u, c)'
    <3>1. c \in Nat /\ HandedOut(mNextChanId, c)
      BY <2>1, PacketNat DEF PacketOK, Closes
    <3>2. Gone(u, c)
      BY <2>1 DEF CloseSent, Closes
    <3>. QED  BY <3>1, <3>2
  <2>2. ASSUME NEW t \in Side, NEW u \in Side, u = Peer(t), NEW i \in 1 .. Len(wire'[t]), NEW c,
               Closes(wire'[t][i], c)
        PROVE  Gone(u, c)'
    <3>1. CASE t = s
      BY <1>2, <2>1, <2>2, <3>1
    <3>2. CASE t = o
      <4>1. u = s
        BY <1>1, <2>2, <3>2
      <4>2. CASE wire'[o][i] = q
        BY <2>2, <3>2, <4>1, <4>2
      <4>. QED  BY <1>2, <2>1, <2>2, <3>2, <4>2
    <3>. QED  BY <1>1, <3>1, <3>2
  <2>3. ASSUME NEW t \in Side, NEW i \in 1 .. Len(wire'[t]), wire'[t][i].mCmd = "CloseChan"
        PROVE  Gone(Peer(t), wire[t][i].mChan)'
    <3>1. PICK u : u = Peer(t)
      OBVIOUS
    <3>2. PICK c : c = wire'[t][i].mChan
      OBVIOUS
    <3>3. u \in Side /\ Closes(wire'[t][i], c)
      BY <2>3, <3>1, <3>2, PeerSide DEF Closes
    <3>4. Gone(u, c)'
      BY <2>2, <3>1, <3>3
    <3>. QED  BY <3>1, <3>2, <3>4 DEF Gone, Promised
  <2>. QED  BY <2>3 DEF CloseSent
<1>7. Forgotten(DataIds)'
  <2>1. ASSUME NEW t \in Side, NEW u \in Side, u = Peer(t), NEW c \in DataIds,
               HandedOut(mNextChanId', c), Gone(u, c)'
        PROVE  Gone(t, c)' \/ \E j \in 1 .. Len(wire'[t]) : Closes(wire'[t][j], c)
    <3>1. Peer(u) = t /\ c \in Nat
      BY <2>1, PeerSide DEF DataIds
    <3>2. \/ HandedOut(mNextChanId, c) /\ Gone(u, c)
          \/ \A v : v = Peer(u) => Gone(v, c)'
          \/ \E j \in 1 .. Len(wire'[Peer(u)]) : Closes(wire'[Peer(u)][j], c)
      <4>1. \/ HandedOut(mNextChanId, c) /\ Gone(u, c)
            \/ Gone(Peer(u), c)'
            \/ \E j \in 1 .. Len(wire'[Peer(u)]) : Closes(wire'[Peer(u)][j], c)
        BY <2>1
      <4>2. Gone(Peer(u), c)' => \A v : v = Peer(u) => Gone(v, c)'
        BY DEF Gone, Promised
      <4>. QED  BY <4>1, <4>2
    <3>3. CASE HandedOut(mNextChanId, c) /\ Gone(u, c)
      <4>1. Gone(t, c) \/ \E j \in 1 .. Len(wire[t]) : Closes(wire[t][j], c)
        BY <2>1, <3>3 DEF Forgotten
      <4>2. CASE Gone(t, c)
        BY <3>1, <3>3, <4>2
      <4>3. ASSUME NEW j \in 1 .. Len(wire[t]), Closes(wire[t][j], c)
            PROVE  Gone(t, c)' \/ \E k \in 1 .. Len(wire'[t]) : Closes(wire'[t][k], c)
        BY <1>4, <4>3
      <4>. QED  BY <4>1, <4>2, <4>3
    <3>. QED  BY <3>1, <3>2, <3>3
  <2>2. ASSUME NEW t \in Side, NEW c \in DataIds, HandedOut(mNextChanId', c), Gone(Peer(t), c)'
        PROVE  Gone(t, c)' \/ \E j \in 1 .. Len(wire'[t]) : Closes(wire'[t][j], c)
    <3>1. PICK u : u = Peer(t)
      OBVIOUS
    <3>2. u \in Side /\ Gone(u, c)'
      <4>1. u \in Side
        BY <3>1, PeerSide
      <4>2. Gone(u, c)'
        BY <2>2, <3>1 DEF Gone, Promised
      <4>. QED  BY <4>1, <4>2
    <3>. QED  BY <2>1, <2>2, <3>1, <3>2
  <2>. QED  BY <2>2 DEF Forgotten, DataIds
<1>8. NakLate'
  <2>1. ASSUME NEW t \in Side, NEW i \in 1 .. Len(wire'[t]), NEW c,
               wire'[t][i].mCmd = "Nak", wire'[t][i].mChan = c
        PROVE  /\ HandedOut(mNextChanId', c)
               /\ Gone(t, c)' \/ \E j \in 1 .. Len(wire'[t]) : j < i /\ Closes(wire'[t][j], c)
    <3> DEFINE e == IF t = s THEN d ELSE 0
    <3>1. CASE /\ i \in Int /\ i + e \in 1 .. Len(wire[t]) /\ wire'[t][i] = wire[t][i + e]
      <4>1. PICK k : k = i + e
        OBVIOUS
      <4>2. k \in 1 .. Len(wire[t]) /\ wire[t][k].mCmd = "Nak" /\ wire[t][k].mChan = c
        BY <2>1, <3>1, <4>1
      <4>3. /\ HandedOut(mNextChanId, c)
            /\ Gone(t, c) \/ \E j \in 1 .. Len(wire[t]) : j < k /\ Closes(wire[t][j], c)
        BY <4>2 DEF NakLate
      <4>4. c \in Nat
        BY <4>2, PacketNat
      <4>5. ASSUME NEW j \in 1 .. Len(wire[t]), j < k, Closes(wire[t][j], c)
            PROVE  Gone(t, c)' \/ \E m \in 1 .. Len(wire'[t]) : m < i /\ Closes(wire'[t][m], c)
        <5>1. j \in Int
          BY InFlight DEF TypeOK
        <5>2. j - e < i /\ e \in Int
          BY <3>1, <4>1, <4>5, <5>1
        <5>3. Gone(t, c)' \/ (j - e \in 1 .. Len(wire'[t]) /\ Closes(wire'[t][j - e], c))
          BY <1>4, <4>5
        <5>. QED  BY <5>2, <5>3
      <4>. QED  BY <4>3, <4>4, <4>5
    <3>2. CASE t = o /\ i = Len(wire[o]) + 1 /\ wire'[o][i] = q
      <4>1. /\ c \in Nat /\ HandedOut(mNextChanId, c)
            /\ Gone(o, c) \/ \E j \in 1 .. Len(wire[o]) : Closes(wire[o][j], c)
        <5>1. q.mCmd = "Nak" /\ q.mChan = c
          BY <2>1, <3>2
        <5>. QED  BY <5>1 DEF o
      <4>2. ASSUME NEW j \in 1 .. Len(wire[o]), Closes(wire[o][j], c)
            PROVE  Gone(o, c)' \/ \E m \in 1 .. Len(wire'[o]) : m < i /\ Closes(wire'[o][m], c)
        <5>1. j \in Int /\ j - 0 = j /\ j < i
          BY <1>3, <3>2
        <5>2. Gone(o, c)' \/ (j - 0 \in 1 .. Len(wire'[o]) /\ Closes(wire'[o][j - 0], c))
          BY <1>1, <1>4, <4>2
        <5>. QED  BY <5>1, <5>2
      <4>3. Gone(o, c) => Gone(o, c)'
        BY <1>1, <4>1
      <4>. QED  BY <1>1, <3>2, <4>1, <4>2, <4>3
    <3>3. \/ i \in Int /\ i + e \in 1 .. Len(wire[t]) /\ wire'[t][i] = wire[t][i + e]
          \/ t = o /\ i = Len(wire[o]) + 1 /\ wire'[o][i] = q
      <4>1. CASE t = s
        BY <1>2, <4>1
      <4>2. CASE t = o
        <5>1. e = 0
          BY <1>1, <4>2
        <5>2. i \in Int
          BY <1>2, <4>2
        <5>. QED  BY <1>2, <4>2, <5>1, <5>2
      <4>. QED  BY <1>1, <4>1, <4>2
    <3>. QED  BY <3>1, <3>2, <3>3
  <2>2. ASSUME NEW t \in Side, NEW i \in 1 .. Len(wire'[t]), wire'[t][i].mCmd = "Nak"
        PROVE  /\ HandedOut(mNextChanId', wire'[t][i].mChan)
               /\ \/ Gone(t, wire[t][i].mChan)'
                  \/ \E j \in 1 .. Len(wire'[t]) : j < i /\ Closes(wire'[t][j], wire'[t][i].mChan)
    <3>1. PICK c : c = wire'[t][i].mChan
      OBVIOUS
    <3>2. /\ HandedOut(mNextChanId', c)
          /\ Gone(t, c)' \/ \E j \in 1 .. Len(wire'[t]) : j < i /\ Closes(wire'[t][j], c)
      BY <2>1, <2>2, <3>1
    <3>3. Gone(t, c)' => Gone(t, wire[t][i].mChan)'
      BY <3>1 DEF Gone, Promised
    <3>. QED  BY <3>1, <3>2, <3>3
  <2>. QED  BY <2>2 DEF NakLate
<1>. QED  BY <1>5, <1>6, <1>7, <1>8

-----------------------------------------------------------------------------
(* What a step leaves of the promises, sizes and answers.                  *)

\* A packet stays in flight unless s takes it.
LEMMA Remains ==
    ASSUME TypeOK, NEW s \in Side, NEW t \in Side, NEW q, NEW d \in {0, 1}, Shifts(s, q, d),
           NEW i \in 1 .. Len(wire[t]), ~ (t = s /\ d = 1 /\ wire[t][i] = Head(wire[s]))
    PROVE  \E k \in 1 .. Len(wire'[t]) : wire'[t][k] = wire[t][i]
<1>1. wire[t] \in Seq(MuxPacket) /\ (t # s => t = Peer(s))
  BY SideCases DEF TypeOK
<1>2. CASE t = s
  <2>1. d = 1 => i # 1
    BY <1>1, <1>2, TailFacts DEF Shifts
  <2>2. i - d \in 1 .. Len(wire'[t]) /\ wire'[t][i - d] = wire[t][i]
    BY <1>2, <2>1, StaysInFlight DEF Shifts
  <2>. QED  BY <2>2
<1>3. CASE t # s
  <2>1. Slid(wire'[t], wire[t], q, 0)
    BY <1>1, <1>3 DEF Shifts
  <2>2. i - 0 \in 1 .. Len(wire'[t]) /\ wire'[t][i - 0] = wire[t][i]
    BY <2>1, StaysInFlight
  <2>. QED  BY <2>2
<1>. QED  BY <1>2, <1>3

\* What is in flight was before, or has been sent.
LEMMA WasThere ==
    ASSUME NEW s \in Side, NEW t \in Side, NEW q, NEW d \in {0, 1}, Shifts(s, q, d),
           NEW i \in 1 .. Len(wire'[t])
    PROVE  \/ t # s /\ wire'[t][i] = q
           \/ \E k \in 1 .. Len(wire[t]) : wire'[t][i] = wire[t][k]
<1>1. t # s => t = Peer(s)
  BY SideCases
<1>2. CASE t = s
  BY <1>2 DEF Shifts
<1>3. CASE t # s
  <2>1. Slid(wire'[t], wire[t], q, 0)
    BY <1>1, <1>3 DEF Shifts
  <2>. QED  BY <1>3, <2>1 DEF Slid
<1>. QED  BY <1>2, <1>3

LEMMA PromiseStep ==
    ASSUME TypeOK, NEW s \in Side, NEW t \in Side, NEW q, NEW d \in {0, 1}, Shifts(s, q, d), NEW c
    PROVE  /\ Promised(t, c)' => Promised(t, c) \/ (t # s /\ Creates(q, c))
           /\ Promised(t, c) => Promised(t, c)' \/ (t = s /\ d = 1 /\ Creates(Head(wire[s]), c))
<1>1. ASSUME Promised(t, c)' PROVE Promised(t, c) \/ (t # s /\ Creates(q, c))
  <2>1. PICK i \in 1 .. Len(wire'[t]) : Creates(wire'[t][i], c)
    BY <1>1 DEF Promised
  <2>. QED  BY <2>1, WasThere DEF Promised
<1>2. ASSUME Promised(t, c), ~ (t = s /\ d = 1 /\ Creates(Head(wire[s]), c)) PROVE Promised(t, c)'
  <2>1. PICK i \in 1 .. Len(wire[t]) : Creates(wire[t][i], c)
    BY <1>2 DEF Promised
  <2>2. \E k \in 1 .. Len(wire'[t]) : wire'[t][k] = wire[t][i]
    BY <1>2, <2>1, Remains
  <2>. QED  BY <2>1, <2>2 DEF Promised
<1>. QED  BY <1>1, <1>2

LEMMA AnsweredStep ==
    ASSUME TypeOK, NEW s \in Side, NEW t \in Side, NEW q, NEW d \in {0, 1}, Shifts(s, q, d), Answered(t),
           \A n \in mWaitingPackets'[t] :
              \/ n \in mWaitingPackets[t]
              \/ \E i \in 1 .. Len(wire'[Peer(t)]) :
                   wire'[Peer(t)][i].mCmd = "OpenChan" /\ wire'[Peer(t)][i].mSeq = n,
           d = 1 /\ t # s /\ Head(wire[s]).mCmd = "OpenChan" =>
              \E i \in 1 .. Len(wire'[t]) :
                wire'[t][i].mCmd = "OpenChanReply" /\ wire'[t][i].mReqSeq = Head(wire[s]).mSeq,
           d = 1 /\ t = s /\ Head(wire[s]).mCmd = "OpenChanReply" =>
              Head(wire[s]).mReqSeq \notin mWaitingPackets'[t]
    PROVE  Answered(t)'
<1>1. PICK u : u = Peer(t)
  OBVIOUS
<1>2. u \in Side /\ u # t /\ (t # s => u = s)
  BY <1>1, PeerSide, SideCases
<1>3. ASSUME NEW n \in mWaitingPackets'[t]
      PROVE  \/ \E i \in 1 .. Len(wire'[u]) : wire'[u][i].mCmd = "OpenChan" /\ wire'[u][i].mSeq = n
             \/ \E i \in 1 .. Len(wire'[t]) : wire'[t][i].mCmd = "OpenChanReply" /\ wire'[t][i].mReqSeq = n
  <2>1. CASE n \in mWaitingPackets[t]
    <3>1. \/ \E i \in 1 .. Len(wire[u]) : wire[u][i].mCmd = "OpenChan" /\ wire[u][i].mSeq = n
          \/ \E i \in 1 .. Len(wire[t]) : wire[t][i].mCmd = "OpenChanReply" /\ wire[t][i].mReqSeq = n
      BY <1>1, <2>1 DEF Answered
    <3>2. ASSUME NEW i \in 1 .. Len(wire[u]), wire[u][i].mCmd = "OpenChan", wire[u][i].mSeq = n
          PROVE  \/ \E k \in 1 .. Len(wire'[u]) : wire'[u][k].mCmd = "OpenChan" /\ wire'[u][k].mSeq = n
                 \/ \E k \in 1 .. Len(wire'[t]) : wire'[t][k].mCmd = "OpenChanReply" /\ wire'[t][k].mReqSeq = n
      <4>1. CASE u = s /\ d = 1 /\ wire[u][i] = Head(wire[s])
        <5>1. t # s /\ Head(wire[s]).mCmd = "OpenChan" /\ Head(wire[s]).mSeq = n
          BY <1>2, <3>2, <4>1
        <5>. QED  BY <4>1, <5>1
      <4>2. CASE ~ (u = s /\ d = 1 /\ wire[u][i] = Head(wire[s]))
        <5>1. \E k \in 1 .. Len(wire'[u]) : wire'[u][k] = wire[u][i]
          BY <1>2, <4>2, Remains
        <5>. QED  BY <3>2, <5>1
      <4>. QED  BY <4>1, <4>2
    <3>3. ASSUME NEW i \in 1 .. Len(wire[t]), wire[t][i].mCmd = "OpenChanReply", wire[t][i].mReqSeq = n
          PROVE  \E k \in 1 .. Len(wire'[t]) : wire'[t][k].mCmd = "OpenChanReply" /\ wire'[t][k].mReqSeq = n
      <4>1. ~ (t = s /\ d = 1 /\ wire[t][i] = Head(wire[s]))
        BY <1>3, <3>3
      <4>2. \E k \in 1 .. Len(wire'[t]) : wire'[t][k] = wire[t][i]
        BY <4>1, Remains
      <4>. QED  BY <3>3, <4>2
    <3>. QED  BY <3>1, <3>2, <3>3
  <2>. QED  BY <1>1, <1>3, <2>1
<1>. QED  BY <1>1, <1>3 DEF Answered

\* Ends that stay keep their size; the reply that creates the other end names it.
LEMMA SizesStep ==
    ASSUME TypeOK, NEW s \in Side, NEW q, NEW d \in {0, 1}, Shifts(s, q, d), SizesAgree,
           \A t \in Side : mControlChan'[t].mSize = 0,
           \A t \in Side : \A c \in DOMAIN mChannels'[t] :
              /\ c \in DOMAIN mChannels[t]
              /\ mChannels'[t][c].mSize = mChannels[t][c].mSize,
           \A c : ~ Creates(q, c)
    PROVE  SizesAgree'
<1>1. ASSUME NEW t \in Side, NEW u \in Side, u = Peer(t)
      PROVE  /\ \A c \in DOMAIN mChannels'[t] \cap DOMAIN mChannels'[u] :
                  mChannels'[t][c].mSize = mChannels'[u][c].mSize
             /\ \A i \in 1 .. Len(wire'[t]) : \A c \in DOMAIN mChannels'[u] :
                  Creates(wire'[t][i], c) => wire'[t][i].mDataSize = mChannels'[u][c].mSize
  <2>1. \A c \in DOMAIN mChannels'[t] \cap DOMAIN mChannels'[u] :
          mChannels'[t][c].mSize = mChannels'[u][c].mSize
    BY <1>1 DEF SizesAgree
  <2>2. ASSUME NEW i \in 1 .. Len(wire'[t]), NEW c \in DOMAIN mChannels'[u], Creates(wire'[t][i], c)
        PROVE  wire'[t][i].mDataSize = mChannels'[u][c].mSize
    <3>1. PICK k \in 1 .. Len(wire[t]) : wire'[t][i] = wire[t][k]
      BY <2>2, WasThere
    <3>. QED  BY <1>1, <2>2, <3>1 DEF SizesAgree
  <2>. QED  BY <2>1, <2>2
<1>2. \A t \in Side : Peer(t) \in Side
  BY PeerSide
<1>. QED  BY <1>1, <1>2 DEF SizesAgree

-----------------------------------------------------------------------------
(* The steps.  All but Answered.                                           *)

Knowledge == EndsValid /\ ReplyLeads /\ CloseSent /\ Forgotten(DataIds) /\ NakLate /\ SizesAgree

\* No channel appears or disappears, and no packet that is about to cause it is
\* taken or sent.
LEMMA QuietKnowledge ==
    ASSUME TypeOK, PacketsOK, Knowledge, NEW s \in Side, NEW q, NEW d \in {0, 1}, Shifts(s, q, d),
           mNextChanId' = mNextChanId,
           \A t \in Side : mControlChan'[t].mValid /\ mControlChan'[t].mSize = 0,
           \A t \in Side : DOMAIN mChannels'[t] = DOMAIN mChannels[t],
           \A t \in Side : \A c \in DOMAIN mChannels'[t] :
              mChannels'[t][c].mValid /\ mChannels'[t][c].mSize = mChannels[t][c].mSize,
           q.mCmd \notin {"CloseChan", "Nak"}, \A c : ~ Creates(q, c),
           d = 1 => Head(wire[s]).mCmd # "CloseChan" /\ \A c : ~ Creates(Head(wire[s]), c)
    PROVE  Knowledge'
<1>1. EndsValid /\ ReplyLeads /\ CloseSent /\ Forgotten(DataIds) /\ NakLate /\ SizesAgree
  BY DEF Knowledge
<1>2. EndsValid'
  BY DEF EndsValid
<1>3. SizesAgree'
  BY <1>1, SizesStep
<1>4. ASSUME NEW t \in Side, NEW c PROVE Gone(t, c)' <=> Gone(t, c)
  <2>1. Promised(t, c)' <=> Promised(t, c)
    BY PromiseStep
  <2>. QED  BY <2>1 DEF Gone
<1>5. \A c : (d = 1 => ~ Closes(Head(wire[s]), c)) /\ ~ Closes(q, c)
  BY DEF Closes
<1>6. ReplyLeads' /\ CloseSent' /\ Forgotten(DataIds)' /\ NakLate'
  BY <1>1, <1>4, <1>5, KnowledgeStep
<1>. QED  BY <1>2, <1>3, <1>6 DEF Knowledge

LEMMA UndisturbedParts ==
    /\ Undisturbed(DataIds) <=> Knowledge /\ \A s \in Side : Answered(s)
    /\ Undisturbed(DataIds)' <=> Knowledge' /\ \A s \in Side : Answered(s)'
<1>1. Undisturbed(DataIds) <=> Knowledge /\ \A s \in Side : Answered(s)
  BY DEF Undisturbed, Knowledge
<1>2. Undisturbed(DataIds)' <=> Knowledge' /\ \A s \in Side : Answered(s)'
  BY DEF Undisturbed, Knowledge
<1>. QED  BY <1>1, <1>2

\* Only the writes that succeed are left.
LEMMA NoFailure ==
    ASSUME TypeOK, nFails' = 0, NEW ok \in BOOLEAN, CountFail(ok)
    PROVE  ok = TRUE /\ nFails = 0
BY DEF CountFail, TypeOK

LEMMA SizeKept ==
    ASSUME NEW ch \in Channel, NEW ok \in BOOLEAN
    PROVE  /\ Sent(ch, ok).mSize = ch.mSize /\ Sent(ch, ok).mValid = ok
           /\ Received(ch).mSize = ch.mSize /\ Received(ch).mValid = ch.mValid
BY DEF Sent, Received, Channel

LEMMA AppendLast ==
    ASSUME NEW w \in Seq(MuxPacket), NEW p \in MuxPacket
    PROVE  \E i \in 1 .. Len(Append(w, p)) : Append(w, p)[i] = p
<1>1. Len(w) + 1 \in 1 .. Len(Append(w, p))
  BY AppendFacts
<1>. QED  BY <1>1, AppendFacts

LEMMA OpenAgree ==
    ASSUME IdInv, IdInv', nFails' = 0, nFails = 0 => Undisturbed(DataIds), NEW s \in Side, Open(s)
    PROVE  Undisturbed(DataIds)'
<1> DEFINE o == Peer(s)
           ch == mControlChan[s]
           q == Pkt("OpenChan", 0, StampedSeq(ch))
<1>1. TypeOK /\ PacketsOK /\ o \in Side /\ o # s /\ Peer(o) = s /\ ch \in Channel
  BY PeerSide DEF IdInv, Ids, TypeOK
<1>2. PICK ok \in BOOLEAN :
        /\ mControlChan' = [mControlChan EXCEPT ![s] = Sent(ch, ok)]
        /\ wire' = DoSend(wire, s, q, ok)
        /\ mWaitingPackets' = IF ok THEN [mWaitingPackets EXCEPT ![s] = @ \cup {StampedSeq(ch)}]
                                    ELSE mWaitingPackets
        /\ CountFail(ok)
  BY <1>1, WriteOutcomesType DEF Open
<1>3. ok = TRUE /\ nFails = 0
  BY <1>1, <1>2, NoFailure
<1>4. Knowledge /\ \A t \in Side : Answered(t)
  BY <1>3, UndisturbedParts
<1>5. UNCHANGED <<mChannels, mNextChanId>>
  BY DEF Open
<1>6. mControlChan'[s] = Sent(ch, TRUE) /\ mControlChan'[o] = mControlChan[o]
  BY <1>1, <1>2, <1>3 DEF TypeOK
<1>7. q \in MuxPacket /\ q.mCmd = "OpenChan" /\ q.mSeq = StampedSeq(ch) /\ \A c : ~ Creates(q, c)
  BY <1>1, SentType, PktType DEF Pkt, MuxCmd, Creates
<1>8. wire'[s] = wire[s] /\ wire'[o] = Append(wire[o], q)
  BY <1>1, <1>2, <1>3 DEF DoSend, TypeOK
<1>9. /\ mWaitingPackets'[o] = mWaitingPackets[o]
      /\ mWaitingPackets'[s] = mWaitingPackets[s] \cup {q.mSeq}
  BY <1>1, <1>2, <1>3, <1>7 DEF TypeOK
<1> HIDE DEF o, q
<1>10. PICK d \in {0, 1} : Shifts(s, q, d)
  BY <1>1, <1>7, <1>8, MovedShifts DEF Moved, o
<1>11. Knowledge'
  <2>1. EndsValid /\ SizesAgree
    BY <1>4 DEF Knowledge
  <2>2. \A t \in Side : mControlChan'[t].mValid /\ mControlChan'[t].mSize = 0
    <3>1. mControlChan'[s].mValid /\ mControlChan'[s].mSize = 0
      <4>1. ch.mSize = 0 /\ Sent(ch, TRUE).mSize = ch.mSize /\ Sent(ch, TRUE).mValid
        BY <1>1, <2>1, SizeKept DEF SizesAgree
      <4>. QED  BY <1>6, <4>1
    <3>2. mControlChan'[o].mValid /\ mControlChan'[o].mSize = 0
      BY <1>1, <1>6, <2>1 DEF EndsValid, SizesAgree
    <3>. QED  BY <3>1, <3>2, SideCases DEF o
  <2>3. \A t \in Side : \A c \in DOMAIN mChannels'[t] :
          mChannels'[t][c].mValid /\ mChannels'[t][c].mSize = mChannels[t][c].mSize
    BY <1>5, <2>1 DEF EndsValid
  <2>4. d = 0
    BY <1>1, <1>8, <1>10, TailFacts DEF Shifts, TypeOK
  <2>. QED  BY <1>1, <1>4, <1>5, <1>7, <1>10, <2>2, <2>3, <2>4, QuietKnowledge
<1>12. Answered(s)' /\ Answered(o)'
  <2>1. d = 0
    BY <1>1, <1>8, <1>10, TailFacts DEF Shifts, TypeOK
  <2>2. \E i \in 1 .. Len(wire'[o]) : wire'[o][i].mCmd = "OpenChan" /\ wire'[o][i].mSeq = q.mSeq
    <3>1. \E i \in 1 .. Len(wire'[o]) : wire'[o][i] = q
      <4>1. wire[o] \in Seq(MuxPacket)
        BY <1>1 DEF TypeOK
      <4>2. \E i \in 1 .. Len(Append(wire[o], q)) : Append(wire[o], q)[i] = q
        BY <1>7, <4>1, AppendLast
      <4>. QED  BY <1>8, <4>2
    <3>. QED  BY <1>7, <3>1
  <2>3. \A n \in mWaitingPackets'[s] : n \in mWaitingPackets[s] \/ n = q.mSeq
    BY <1>9
  <2>4. Answered(s)'
    BY <1>1, <1>4, <1>10, <2>1, <2>2, <2>3, AnsweredStep DEF o
  <2>5. Answered(o)'
    BY <1>1, <1>4, <1>9, <1>10, <2>1, AnsweredStep
  <2>. QED  BY <2>4, <2>5
<1>13. \A t \in Side : Answered(t)'
  BY <1>12, SideCases DEF o
<1>. QED  BY <1>11, <1>13, UndisturbedParts

\* What a step that sends nothing is said to send.
Nothing == Pkt("Data", 0, 0)

LEMMA NothingSent ==
    /\ Nothing \in MuxPacket /\ Nothing.mCmd = "Data"
    /\ \A c : ~ Creates(Nothing, c) /\ ~ Closes(Nothing, c)
BY PktType, SeqNoType DEF Nothing, Pkt, MuxCmd, Creates, Closes

\* No request and no reply is taken, and the same Opens wait.
LEMMA AnsweredIdle ==
    ASSUME TypeOK, NEW s \in Side, NEW q, NEW d \in {0, 1}, Shifts(s, q, d), \A t \in Side : Answered(t),
           mWaitingPackets' = mWaitingPackets,
           d = 1 => Head(wire[s]).mCmd \notin {"OpenChan", "OpenChanReply"}
    PROVE  \A t \in Side : Answered(t)'
BY AnsweredStep

\* What Knowledge says of the ends themselves.
LEMMA EndsKnown ==
    ASSUME Knowledge, NEW t \in Side
    PROVE  /\ mControlChan[t].mValid /\ mControlChan[t].mSize = 0
           /\ \A c \in DOMAIN mChannels[t] : mChannels[t][c].mValid
BY DEF Knowledge, EndsValid, SizesAgree

LEMMA WriteAgree ==
    ASSUME IdInv, IdInv', nFails' = 0, nFails = 0 => Undisturbed(DataIds), NEW s \in Side,
           NEW c \in DOMAIN mChannels[s], Write(s, c)
    PROVE  Undisturbed(DataIds)'
<1> DEFINE o == Peer(s)
           ch == mChannels[s][c]
           q == Pkt("Data", c, StampedSeq(ch))
<1>1. TypeOK /\ PacketsOK /\ o \in Side /\ o # s /\ Peer(o) = s /\ ch \in Channel /\ c \in Nat
  BY PeerSide DEF IdInv, Ids, TypeOK
<1>2. PICK ok \in BOOLEAN :
        /\ mChannels' = [mChannels EXCEPT ![s][c] = Sent(ch, ok)]
        /\ wire' = DoSend(wire, s, q, ok)
        /\ CountFail(ok)
  BY <1>1, WriteOutcomesType DEF Write
<1>3. ok = TRUE /\ nFails = 0
  BY <1>1, <1>2, NoFailure
<1>4. Knowledge /\ \A t \in Side : Answered(t)
  BY <1>3, UndisturbedParts
<1>5. UNCHANGED <<mControlChan, mNextChanId, mWaitingPackets>>
  BY DEF Write
<1>6. Sent(ch, TRUE) \in Channel /\ Sent(ch, TRUE).mSize = ch.mSize /\ Sent(ch, TRUE).mValid
  BY <1>1, SentType, SizeKept
<1>7. /\ mChannels'[s][c] = Sent(ch, TRUE) /\ mChannels'[o] = mChannels[o]
      /\ DOMAIN mChannels'[s] = DOMAIN mChannels[s]
      /\ \A d \in DOMAIN mChannels[s] : d # c => mChannels'[s][d] = mChannels[s][d]
  <2> HIDE DEF ch
  <2>. QED  BY <1>1, <1>2, <1>3, <1>6, UpdateType
<1>8. q \in MuxPacket /\ q.mCmd = "Data"
  BY <1>1, SentType, PktType DEF Pkt, MuxCmd
<1>9. wire'[s] = wire[s] /\ wire'[o] = Append(wire[o], q)
  BY <1>1, <1>2, <1>3 DEF DoSend, TypeOK
<1> HIDE DEF o, q
<1>10. PICK d \in {0, 1} : Shifts(s, q, d)
  BY <1>1, <1>8, <1>9, MovedShifts DEF Moved, o
<1>11. d = 0
  BY <1>1, <1>9, <1>10, TailFacts DEF Shifts, TypeOK
<1>12. \A t \in Side : DOMAIN mChannels'[t] = DOMAIN mChannels[t]
  BY <1>7, SideCases DEF o
<1>13. \A t \in Side : \A x \in DOMAIN mChannels'[t] :
         mChannels'[t][x].mValid /\ mChannels'[t][x].mSize = mChannels[t][x].mSize
  <2>1. \A x \in DOMAIN mChannels'[s] : mChannels'[s][x].mValid /\ mChannels'[s][x].mSize = mChannels[s][x].mSize
    BY <1>4, <1>6, <1>7, EndsKnown
  <2>2. \A x \in DOMAIN mChannels'[o] : mChannels'[o][x].mValid /\ mChannels'[o][x].mSize = mChannels[o][x].mSize
    BY <1>1, <1>4, <1>7, EndsKnown
  <2>. QED  BY <2>1, <2>2, SideCases DEF o
<1>14. \A t \in Side : mControlChan'[t].mValid /\ mControlChan'[t].mSize = 0
  BY <1>4, <1>5, EndsKnown
<1>15. \A x : ~ Creates(q, x)
  BY <1>8 DEF Creates
<1>16. Knowledge'
  BY <1>1, <1>4, <1>5, <1>8, <1>10, <1>11, <1>12, <1>13, <1>14, <1>15, QuietKnowledge
<1>17. \A t \in Side : Answered(t)'
  BY <1>1, <1>4, <1>5, <1>10, <1>11, AnsweredIdle
<1>. QED  BY <1>16, <1>17, UndisturbedParts

LEMMA HandleDataAgree ==
    ASSUME IdInv, IdInv', nFails' = 0, nFails = 0 => Undisturbed(DataIds), NEW s \in Side, HandleData(s)
    PROVE  Undisturbed(DataIds)'
<1> DEFINE o == Peer(s)
<1>0. PICK c : c = Head(wire[s]).mChan
  OBVIOUS
<1> DEFINE ch == mChannels[s][c]
<1>1. TypeOK /\ PacketsOK /\ o \in Side /\ o # s /\ Peer(o) = s
  BY PeerSide DEF IdInv, Ids
<1>2. /\ wire[s] # <<>> /\ Head(wire[s]).mCmd = "Data" /\ c \in DOMAIN mChannels[s] /\ wire' = Taken(s)
      /\ mChannels' = [mChannels EXCEPT ![s][c] = Received(ch)]
      /\ UNCHANGED <<mControlChan, mNextChanId, mWaitingPackets, nFails>>
  BY <1>0 DEF HandleData, Routed, Incoming
<1>3. Knowledge /\ \A t \in Side : Answered(t)
  BY <1>2, UndisturbedParts
<1>4. ch \in Channel
  BY <1>1, <1>2 DEF TypeOK
<1>5. Received(ch) \in Channel /\ Received(ch).mSize = ch.mSize /\ Received(ch).mValid = ch.mValid
  BY <1>4, SentType, SizeKept
<1>6. /\ mChannels'[s][c] = Received(ch) /\ mChannels'[o] = mChannels[o]
      /\ DOMAIN mChannels'[s] = DOMAIN mChannels[s]
      /\ \A d \in DOMAIN mChannels[s] : d # c => mChannels'[s][d] = mChannels[s][d]
  <2> HIDE DEF ch
  <2>. QED  BY <1>1, <1>2, <1>5, UpdateType
<1>7. Moved(s, Nothing)
  BY <1>1, <1>2, NothingSent, MovedByStep
<1> HIDE DEF o
<1>8. PICK d \in {0, 1} : Shifts(s, Nothing, d)
  BY <1>1, <1>7, NothingSent, MovedShifts
<1>9. \A t \in Side : DOMAIN mChannels'[t] = DOMAIN mChannels[t]
  BY <1>6, SideCases DEF o
<1>10. \A t \in Side : \A x \in DOMAIN mChannels'[t] :
         mChannels'[t][x].mValid /\ mChannels'[t][x].mSize = mChannels[t][x].mSize
  <2>1. \A x \in DOMAIN mChannels'[s] : mChannels'[s][x].mValid /\ mChannels'[s][x].mSize = mChannels[s][x].mSize
    BY <1>3, <1>5, <1>6, EndsKnown
  <2>2. \A x \in DOMAIN mChannels'[o] : mChannels'[o][x].mValid /\ mChannels'[o][x].mSize = mChannels[o][x].mSize
    BY <1>1, <1>3, <1>6, EndsKnown
  <2>. QED  BY <2>1, <2>2, SideCases DEF o
<1>11. \A t \in Side : mControlChan'[t].mValid /\ mControlChan'[t].mSize = 0
  BY <1>2, <1>3, EndsKnown
<1>12. \A x : ~ Creates(Head(wire[s]), x)
  BY <1>2 DEF Creates
<1>13. Knowledge'
  BY <1>1, <1>2, <1>3, <1>8, <1>9, <1>10, <1>11, <1>12, NothingSent, QuietKnowledge
<1>14. \A t \in Side : Answered(t)'
  BY <1>1, <1>2, <1>3, <1>8, AnsweredIdle
<1>. QED  BY <1>13, <1>14, UndisturbedParts

LEMMA HaltAgree ==
    ASSUME nFails' = 0, nFails = 0 => Undisturbed(DataIds), NEW s \in Side, NEW why, Halt(s, why)
    PROVE  Undisturbed(DataIds)'
<1>1. UNCHANGED <<mControlChan, mChannels, mNextChanId, mWaitingPackets, wire, nFails>>
  BY DEF Halt
<1>2. Undisturbed(DataIds)
  BY <1>1
<1>3. \A t \in Side : \A c : Gone(t, c)' <=> Gone(t, c)
  BY <1>1 DEF Gone, Promised
<1>4. EndsValid' /\ ReplyLeads' /\ SizesAgree'
  BY <1>1, <1>2 DEF Undisturbed, EndsValid, ReplyLeads, SizesAgree
<1>5. CloseSent'
  BY <1>1, <1>2 DEF Undisturbed, CloseSent, Gone, Promised
<1>6. Forgotten(DataIds)'
  BY <1>1, <1>2 DEF Undisturbed, Forgotten, Gone, Promised, DataIds
<1>7. NakLate'
  BY <1>1, <1>2 DEF Undisturbed, NakLate, Gone, Promised
<1>8. \A t \in Side : Answered(t)'
  BY <1>1, <1>2 DEF Undisturbed, Answered
<1>. QED  BY <1>4, <1>5, <1>6, <1>7, <1>8 DEF Undisturbed

\* A request is replaced by its reply.
LEMMA AnswerSent ==
    ASSUME TypeOK, NEW s \in Side, NEW r \in MuxPacket, r.mCmd = "OpenChanReply",
           wire[s] # <<>>, Head(wire[s]).mCmd = "OpenChan", r.mReqSeq = Head(wire[s]).mSeq,
           wire' = DoSend(Taken(s), s, r, TRUE),
           mControlChan' = [mControlChan EXCEPT ![s] = Sent(Received(mControlChan[s]), TRUE)],
           mWaitingPackets' = mWaitingPackets, Knowledge, \A t \in Side : Answered(t)
    PROVE  /\ \E d \in {0, 1} : Shifts(s, r, d)
           /\ \A t \in Side : Answered(t)'
           /\ \A t \in Side : mControlChan'[t].mValid /\ mControlChan'[t].mSize = 0
<1> DEFINE o == Peer(s)
<1>1. o \in Side /\ o # s /\ Peer(o) = s /\ wire[s] \in Seq(MuxPacket) /\ wire[o] \in Seq(MuxPacket)
  BY PeerSide DEF TypeOK
<1>2. wire'[o] = Append(wire[o], r)
  BY <1>1 DEF DoSend, Taken, TypeOK
<1>3. PICK d \in {0, 1} : Shifts(s, r, d)
  <2>1. Moved(s, r)
    BY MovedByStep
  <2>. QED  BY <2>1, MovedShifts
<1>4. \E i \in 1 .. Len(wire'[o]) : wire'[o][i] = r
  <2>1. \E i \in 1 .. Len(Append(wire[o], r)) : Append(wire[o], r)[i] = r
    BY <1>1, AppendLast
  <2>. QED  BY <1>2, <2>1
<1> HIDE DEF o
<1>5. Answered(o)'
  <2>1. \E i \in 1 .. Len(wire'[o]) :
          wire'[o][i].mCmd = "OpenChanReply" /\ wire'[o][i].mReqSeq = Head(wire[s]).mSeq
    BY <1>4
  <2>. QED  BY <1>1, <1>3, <2>1, AnsweredStep
<1>6. Answered(s)'
  BY <1>3, AnsweredStep
<1>7. mControlChan'[s].mValid /\ mControlChan'[s].mSize = 0
  <2>1. mControlChan[s] \in Channel /\ mControlChan[s].mSize = 0
    BY EndsKnown DEF TypeOK
  <2>2. Received(mControlChan[s]) \in Channel /\ Received(mControlChan[s]).mSize = 0
    BY <2>1, SentType, SizeKept
  <2>3. Sent(Received(mControlChan[s]), TRUE).mSize = 0 /\ Sent(Received(mControlChan[s]), TRUE).mValid
    BY <2>2, SizeKept
  <2>4. mControlChan'[s] = Sent(Received(mControlChan[s]), TRUE)
    BY DEF TypeOK
  <2>. QED  BY <2>3, <2>4
<1>8. mControlChan'[o].mValid /\ mControlChan'[o].mSize = 0
  <2>1. mControlChan'[o] = mControlChan[o]
    BY <1>1 DEF TypeOK
  <2>. QED  BY <1>1, <2>1, EndsKnown
<1>. QED  BY <1>3, <1>5, <1>6, <1>7, <1>8, SideCases DEF o

LEMMA RefuseOpenAgree ==
    ASSUME IdInv, IdInv', nFails' = 0, nFails = 0 => Undisturbed(DataIds), NEW s \in Side, RefuseOpen(s)
    PROVE  Undisturbed(DataIds)'
<1>1. TypeOK /\ PacketsOK /\ wire[s] # <<>> /\ Head(wire[s]).mCmd = "OpenChan"
  BY DEF IdInv, Ids, RefuseOpen, Routed, Incoming
<1>2. PICK r : r = ReplyPkt(StampedSeq(Received(mControlChan[s])), Head(wire[s]).mSeq, 1, 0, 0)
  OBVIOUS
<1>3. PICK ok \in BOOLEAN :
        /\ mControlChan' = [mControlChan EXCEPT ![s] = Sent(Received(mControlChan[s]), ok)]
        /\ wire' = DoSend(Taken(s), s, r, ok)
        /\ CountFail(ok)
  BY <1>1, <1>2, WriteOutcomesType DEF RefuseOpen
<1>4. ok = TRUE /\ nFails = 0
  BY <1>1, <1>3, NoFailure
<1>5. Knowledge /\ \A t \in Side : Answered(t)
  BY <1>4, UndisturbedParts
<1>6. UNCHANGED <<mChannels, mNextChanId, mWaitingPackets>>
  BY DEF RefuseOpen
<1>7. r \in MuxPacket
  BY <1>1, <1>2, ReplySent
<1>8. r.mCmd = "OpenChanReply" /\ r.mErrno = 1 /\ r.mReqSeq = Head(wire[s]).mSeq
  BY <1>2 DEF ReplyPkt
<1>9. /\ \E d \in {0, 1} : Shifts(s, r, d)
      /\ \A t \in Side : Answered(t)'
      /\ \A t \in Side : mControlChan'[t].mValid /\ mControlChan'[t].mSize = 0
  BY <1>1, <1>3, <1>4, <1>5, <1>6, <1>7, <1>8, AnswerSent
<1>10. PICK d \in {0, 1} : Shifts(s, r, d)
  BY <1>9
<1>11. \A c : ~ Creates(r, c) /\ ~ Creates(Head(wire[s]), c)
  BY <1>1, <1>8 DEF Creates
<1>12. \A t \in Side : \A c \in DOMAIN mChannels'[t] :
         mChannels'[t][c].mValid /\ mChannels'[t][c].mSize = mChannels[t][c].mSize
  BY <1>5, <1>6, EndsKnown
<1>13. Knowledge'
  BY <1>1, <1>5, <1>6, <1>8, <1>9, <1>10, <1>11, <1>12, QuietKnowledge
<1>. QED  BY <1>9, <1>13, UndisturbedParts

\* Channels only disappear, and nothing about to create one is taken or sent.
LEMMA ErasedKnowledge ==
    ASSUME TypeOK, PacketsOK, Knowledge, NEW s \in Side, NEW q, NEW d \in {0, 1}, Shifts(s, q, d),
           mNextChanId' = mNextChanId, mControlChan' = mControlChan,
           \A t \in Side : \A c \in DOMAIN mChannels'[t] :
              c \in DOMAIN mChannels[t] /\ mChannels'[t][c] = mChannels[t][c],
           \A t \in Side : \A c \in DataIds : HandedOut(mNextChanId, c) /\ Gone(t, c)' /\ ~ Gone(t, c) =>
              \/ Gone(Peer(t), c)'
              \/ \E j \in 1 .. Len(wire'[Peer(t)]) : Closes(wire'[Peer(t)][j], c),
           \A c : d = 1 /\ Closes(Head(wire[s]), c) => Gone(s, c)',
           \A c : Closes(q, c) => Gone(s, c)',
           \A c : q.mCmd = "Nak" /\ q.mChan = c =>
              /\ c \in Nat /\ HandedOut(mNextChanId, c)
              /\ Gone(Peer(s), c) \/ \E j \in 1 .. Len(wire[Peer(s)]) : Closes(wire[Peer(s)][j], c),
           \A c : ~ Creates(q, c)
    PROVE  Knowledge'
<1>1. EndsValid /\ ReplyLeads /\ CloseSent /\ Forgotten(DataIds) /\ NakLate /\ SizesAgree
  BY DEF Knowledge
<1>2. EndsValid'
  BY <1>1 DEF EndsValid
<1>3. SizesAgree'
  <2>1. \A t \in Side : mControlChan'[t].mSize = 0
    BY <1>1 DEF SizesAgree
  <2>. QED  BY <1>1, <2>1, SizesStep
<1>4. ASSUME NEW t \in Side, NEW c, Gone(t, c) PROVE Gone(t, c)'
  <2>1. Promised(t, c)' => Promised(t, c)
    BY PromiseStep
  <2>. QED  BY <1>4, <2>1 DEF Gone
<1>5. ReplyLeads' /\ CloseSent' /\ Forgotten(DataIds)' /\ NakLate'
  BY <1>1, <1>4, KnowledgeStep
<1>. QED  BY <1>2, <1>3, <1>5 DEF Knowledge

LEMMA HeadNotPromised ==
    ASSUME TypeOK, ReplyLeads, NEW s \in Side, wire[s] # <<>>
    PROVE  ~ Promised(s, Head(wire[s]).mChan)
<1>1. wire[s] \in Seq(MuxPacket) /\ 1 \in 1 .. Len(wire[s]) /\ Head(wire[s]) = wire[s][1]
  BY TailFacts DEF TypeOK
<1>2. ASSUME NEW i \in 1 .. Len(wire[s]), Creates(wire[s][i], wire[s][1].mChan) PROVE FALSE
  <2>1. i < 1
    BY <1>1, <1>2 DEF ReplyLeads
  <2>2. i \in Int /\ i >= 1
    BY <1>1, InFlight
  <2>. QED  BY <2>1, <2>2
<1>. QED  BY <1>1, <1>2 DEF Promised

\* A promise stays one, unless its reply is taken.
LEMMA NewlyGone ==
    ASSUME TypeOK, NEW s \in Side, NEW t \in Side, NEW q, NEW d \in {0, 1}, Shifts(s, q, d), NEW c,
           t = s /\ d = 1 => ~ Creates(Head(wire[s]), c), Gone(t, c)', ~ Gone(t, c)
    PROVE  c \in DOMAIN mChannels[t] /\ c \notin DOMAIN mChannels'[t]
<1>1. Promised(t, c) => Promised(t, c)'
  BY PromiseStep
<1>. QED  BY <1>1 DEF Gone

LEMMA AskCloseAgree ==
    ASSUME IdInv, IdInv', nFails' = 0, nFails = 0 => Undisturbed(DataIds), NEW s \in Side,
           NEW c \in DOMAIN mChannels[s], AskClose(s, c)
    PROVE  Undisturbed(DataIds)'
<1> DEFINE o == Peer(s)
           ch == mChannels[s][c]
           q == Pkt("CloseChan", c, StampedSeq(ch))
<1>1. /\ TypeOK /\ PacketsOK /\ RepliesFresh /\ o \in Side /\ o # s /\ Peer(o) = s /\ ch \in Channel /\ c \in Nat
      /\ wire[s] \in Seq(MuxPacket) /\ wire[o] \in Seq(MuxPacket)
  BY PeerSide DEF IdInv, Ids, TypeOK
<1>2. PICK ok \in BOOLEAN : wire' = DoSend(wire, s, q, ok /\ ch.mValid) /\ CountFail(ok)
  BY <1>1, WriteOutcomesType DEF AskClose
<1>3. ok = TRUE /\ nFails = 0
  BY <1>1, <1>2, NoFailure
<1>4. Knowledge /\ \A t \in Side : Answered(t)
  BY <1>3, UndisturbedParts
<1>5. UNCHANGED <<mControlChan, mNextChanId, mWaitingPackets>>
  BY DEF AskClose
<1>6. q \in MuxPacket /\ q.mCmd = "CloseChan" /\ q.mChan = c /\ \A x : ~ Creates(q, x)
  BY <1>1, SentType, PktType DEF Pkt, MuxCmd, Creates
<1>7. wire'[s] = wire[s] /\ wire'[o] = Append(wire[o], q)
  <2>1. ch.mValid
    BY <1>4, EndsKnown
  <2>. QED  BY <1>1, <1>2, <1>3, <2>1 DEF DoSend, TypeOK
<1>8. /\ DOMAIN mChannels'[s] = DOMAIN mChannels[s] \ {c}
      /\ \A x \in DOMAIN mChannels'[s] : mChannels'[s][x] = mChannels[s][x]
      /\ mChannels'[o] = mChannels[o]
  <2>1. mChannels' = [mChannels EXCEPT ![s] = Without(@, c)]
    BY DEF AskClose
  <2>. QED  BY <1>1, <2>1, EraseType
<1> HIDE DEF o, q
<1>9. PICK d \in {0, 1} : Shifts(s, q, d)
  BY <1>1, <1>6, <1>7, MovedShifts DEF Moved, o
<1>10. d = 0
  <2>1. wire[s] # <<>> => Len(Tail(wire[s])) # Len(wire[s])
    BY <1>1, TailFacts
  <2>. QED  BY <1>7, <1>9, <2>1 DEF Shifts
<1>11. \E j \in 1 .. Len(wire'[o]) : Closes(wire'[o][j], c)
  <2>1. \E j \in 1 .. Len(Append(wire[o], q)) : Append(wire[o], q)[j] = q
    BY <1>1, <1>6, AppendLast
  <2>2. Closes(q, c)
    BY <1>6 DEF Closes
  <2>. QED  BY <1>7, <2>1, <2>2
<1>12. Gone(s, c)'
  <2>1. ~ Promised(s, c)
    BY <1>1, PromisedNew
  <2>2. Promised(s, c)' => Promised(s, c)
    BY <1>1, <1>9, PromiseStep
  <2>. QED  BY <1>8, <2>1, <2>2 DEF Gone
<1>13. \A t \in Side : \A x \in DOMAIN mChannels'[t] :
         x \in DOMAIN mChannels[t] /\ mChannels'[t][x] = mChannels[t][x]
  BY <1>8, SideCases DEF o
<1>14. \A t \in Side : \A x \in DataIds : HandedOut(mNextChanId, x) /\ Gone(t, x)' /\ ~ Gone(t, x) =>
          \E j \in 1 .. Len(wire'[Peer(t)]) : Closes(wire'[Peer(t)][j], x)
  <2> SUFFICES ASSUME NEW t \in Side, NEW x \in DataIds, Gone(t, x)', ~ Gone(t, x)
               PROVE  \E j \in 1 .. Len(wire'[Peer(t)]) : Closes(wire'[Peer(t)][j], x)
    OBVIOUS
  <2>1. x \in DOMAIN mChannels[t] /\ x \notin DOMAIN mChannels'[t]
    BY <1>1, <1>9, <1>10, NewlyGone
  <2>2. t = s /\ x = c
    BY <1>8, <2>1, SideCases DEF o
  <2>. QED  BY <1>11, <2>2 DEF o
<1>15. \A x : Closes(q, x) => Gone(s, x)'
  BY <1>6, <1>12 DEF Closes
<1>16. Knowledge'
  BY <1>1, <1>4, <1>5, <1>6, <1>9, <1>10, <1>13, <1>14, <1>15, ErasedKnowledge
<1>17. \A t \in Side : Answered(t)'
  BY <1>1, <1>4, <1>5, <1>9, <1>10, AnsweredIdle
<1>. QED  BY <1>16, <1>17, UndisturbedParts

LEMMA HandleCloseAgree ==
    ASSUME IdInv, IdInv', nFails' = 0, nFails = 0 => Undisturbed(DataIds), NEW s \in Side, HandleClose(s)
    PROVE  Undisturbed(DataIds)'
<1> DEFINE o == Peer(s)
<1>0. PICK c : c = Head(wire[s]).mChan
  OBVIOUS
<1>1. TypeOK /\ PacketsOK /\ o \in Side /\ o # s /\ Peer(o) = s /\ wire[s] # <<>> /\ wire[s] \in Seq(MuxPacket)
  BY PeerSide DEF IdInv, Ids, TypeOK, HandleClose, Incoming
<1>2. /\ Head(wire[s]).mCmd = "CloseChan" /\ wire' = Taken(s)
      /\ mChannels' = [mChannels EXCEPT ![s] = Without(@, c)]
      /\ UNCHANGED <<mControlChan, mNextChanId, mWaitingPackets, nFails>>
  BY <1>0 DEF HandleClose, Incoming
<1>3. Knowledge /\ \A t \in Side : Answered(t)
  BY <1>2, UndisturbedParts
<1>4. /\ DOMAIN mChannels'[s] = DOMAIN mChannels[s] \ {c}
      /\ \A x \in DOMAIN mChannels'[s] : mChannels'[s][x] = mChannels[s][x]
      /\ mChannels'[o] = mChannels[o]
  BY <1>1, <1>2, EraseType
<1> HIDE DEF o
<1>5. PICK d \in {0, 1} : Shifts(s, Nothing, d)
  <2>1. Moved(s, Nothing)
    BY <1>1, <1>2, NothingSent, MovedByStep
  <2>. QED  BY <1>1, <2>1, NothingSent, MovedShifts
<1>6. \A x : ~ Creates(Head(wire[s]), x)
  BY <1>2 DEF Creates
<1>7. Gone(s, c)'
  <2>1. ~ Promised(s, c)
    BY <1>0, <1>1, <1>3, HeadNotPromised DEF Knowledge
  <2>2. Promised(s, c)' => Promised(s, c)
    BY <1>1, <1>5, PromiseStep
  <2>. QED  BY <1>4, <2>1, <2>2 DEF Gone
<1>8. Gone(o, c)'
  <2>1. Gone(o, c)
    <3>1. 1 \in 1 .. Len(wire[s]) /\ Head(wire[s]) = wire[s][1]
      BY <1>1, TailFacts
    <3>. QED  BY <1>0, <1>2, <1>3, <3>1 DEF Knowledge, CloseSent, o
  <2>2. Promised(o, c)' => Promised(o, c)
    BY <1>1, <1>5, NothingSent, PromiseStep
  <2>. QED  BY <1>4, <2>1, <2>2 DEF Gone
<1>9. \A t \in Side : \A x \in DOMAIN mChannels'[t] :
         x \in DOMAIN mChannels[t] /\ mChannels'[t][x] = mChannels[t][x]
  BY <1>4, SideCases DEF o
<1>10. \A t \in Side : \A x \in DataIds : Gone(t, x)' /\ ~ Gone(t, x) => Gone(Peer(t), x)'
  <2> SUFFICES ASSUME NEW t \in Side, NEW x \in DataIds, Gone(t, x)', ~ Gone(t, x)
               PROVE  Gone(Peer(t), x)'
    OBVIOUS
  <2>1. x \in DOMAIN mChannels[t] /\ x \notin DOMAIN mChannels'[t]
    BY <1>1, <1>5, <1>6, NewlyGone
  <2>2. t = s /\ x = c
    BY <1>4, <2>1, SideCases DEF o
  <2>. QED  BY <1>8, <2>2 DEF o, Gone, Promised
<1>11. \A x : Closes(Head(wire[s]), x) => Gone(s, x)'
  BY <1>0, <1>7 DEF Closes
<1>12. Knowledge'
  BY <1>1, <1>2, <1>3, <1>5, <1>9, <1>10, <1>11, NothingSent, ErasedKnowledge
<1>13. \A t \in Side : Answered(t)'
  BY <1>1, <1>2, <1>3, <1>5, AnsweredIdle
<1>. QED  BY <1>12, <1>13, UndisturbedParts

LEMMA HandleNakAgree ==
    ASSUME IdInv, IdInv', nFails' = 0, nFails = 0 => Undisturbed(DataIds), NEW s \in Side, HandleNak(s)
    PROVE  Undisturbed(DataIds)'
<1>0. PICK c : c = Head(wire[s]).mChan
  OBVIOUS
<1>1. TypeOK /\ PacketsOK /\ wire[s] # <<>> /\ wire[s] \in Seq(MuxPacket) /\ Head(wire[s]).mCmd = "Nak"
  BY DEF IdInv, Ids, TypeOK, HandleNak, Incoming
<1>2. CASE Halt(s, "delete of mControlChan")
  BY <1>2, HaltAgree
<1>3. CASE /\ mChannels' = [mChannels EXCEPT ![s] = Without(@, c)]
           /\ wire' = Taken(s)
           /\ UNCHANGED <<mControlChan, mNextChanId, mWaitingPackets, nFails>>
  <2>1. Knowledge /\ \A t \in Side : Answered(t)
    BY <1>3, UndisturbedParts
  <2>2. Gone(s, c)
    <3>1. 1 \in 1 .. Len(wire[s]) /\ Head(wire[s]) = wire[s][1] /\ \A j \in 1 .. Len(wire[s]) : ~ (j < 1)
      BY <1>1, TailFacts
    <3>. QED  BY <1>0, <1>1, <2>1, <3>1 DEF Knowledge, NakLate
  <2>3. \A t \in Side : DOMAIN mChannels'[t] = DOMAIN mChannels[t]
                        /\ \A x \in DOMAIN mChannels'[t] : mChannels'[t][x] = mChannels[t][x]
    <3>1. /\ DOMAIN mChannels'[s] = DOMAIN mChannels[s] \ {c}
          /\ \A x \in DOMAIN mChannels'[s] : mChannels'[s][x] = mChannels[s][x]
          /\ mChannels'[Peer(s)] = mChannels[Peer(s)]
      BY <1>1, <1>3, EraseType
    <3>. QED  BY <2>2, <3>1, SideCases DEF Gone
  <2>4. PICK d \in {0, 1} : Shifts(s, Nothing, d)
    <3>1. Moved(s, Nothing)
      BY <1>1, <1>3, NothingSent, MovedByStep
    <3>. QED  BY <1>1, <3>1, NothingSent, MovedShifts
  <2>5. \A x : ~ Creates(Head(wire[s]), x)
    BY <1>1 DEF Creates
  <2>6. \A t \in Side : mControlChan'[t].mValid /\ mControlChan'[t].mSize = 0
    BY <1>3, <2>1, EndsKnown
  <2>7. \A t \in Side : \A x \in DOMAIN mChannels'[t] :
          mChannels'[t][x].mValid /\ mChannels'[t][x].mSize = mChannels[t][x].mSize
    BY <2>1, <2>3, EndsKnown
  <2>8. Knowledge'
    BY <1>1, <1>3, <2>1, <2>3, <2>4, <2>5, <2>6, <2>7, NothingSent, QuietKnowledge
  <2>9. \A t \in Side : Answered(t)'
    BY <1>1, <1>3, <2>1, <2>4, AnsweredIdle
  <2>. QED  BY <2>8, <2>9, UndisturbedParts
<1>. QED  BY <1>0, <1>2, <1>3 DEF HandleNak

LEMMA HandleStrayAgree ==
    ASSUME IdInv, IdInv', nFails' = 0, nFails = 0 => Undisturbed(DataIds), NEW s \in Side, HandleStray(s)
    PROVE  Undisturbed(DataIds)'
<1> DEFINE o == Peer(s)
           p == Head(wire[s])
<1>0. PICK c : c = p.mChan
  OBVIOUS
<1>1. TypeOK /\ Ids /\ PacketsOK /\ o \in Side /\ o # s /\ Peer(o) = s
  BY PeerSide DEF IdInv, Ids
<1>2. /\ wire[s] # <<>> /\ (HasChannel(s, c) => ~ GetChannel(s, c).mValid)
      /\ p.mCmd \in {"OpenChan", "OpenChanReply", "Data"}
      /\ UNCHANGED <<mControlChan, mChannels, mNextChanId, mWaitingPackets>>
  BY <1>0 DEF HandleStray, Incoming
<1>3. PICK q : q = Pkt("Nak", c, p.mSeq)
  OBVIOUS
<1>4. PICK ok \in BOOLEAN : wire' = DoSend(Taken(s), s, q, ok) /\ CountFail(ok)
  BY <1>0, <1>1, <1>3, WriteOutcomesType DEF HandleStray
<1>5. nFails = 0
  BY <1>1, <1>4, NoFailure
<1>6. Knowledge /\ \A t \in Side : Answered(t)
  BY <1>5, UndisturbedParts
<1>7. p \in MuxPacket /\ PacketOK(mNextChanId, nFails, s, p)
  BY <1>1, <1>2, HeadOK
<1>8. c \notin DOMAIN mChannels[s] /\ c # 0
  <2>1. ~ HasChannel(s, c)
    <3>1. CASE c = 0
      BY <1>2, <1>6, <3>1, EndsKnown DEF HasChannel, GetChannel
    <3>2. CASE c # 0 /\ c \in DOMAIN mChannels[s]
      BY <1>2, <1>6, <3>2, EndsKnown DEF HasChannel, GetChannel
    <3>. QED  BY <3>1, <3>2 DEF HasChannel
  <2>. QED  BY <2>1 DEF HasChannel
<1>9. p.mCmd = "Data" /\ c \in Nat /\ HandedOut(mNextChanId, c) /\ c \in DataIds
  <2>1. p.mCmd = "Data" /\ c \in Nat /\ HandedOut(mNextChanId, c)
    BY <1>0, <1>2, <1>7, <1>8 DEF PacketOK, MuxPacket
  <2>. QED  BY <2>1 DEF HandedOut, DataIds
<1>10. q \in MuxPacket /\ q.mCmd = "Nak" /\ q.mChan = c /\ \A x : ~ Creates(q, x) /\ ~ Closes(q, x)
  <2>1. p.mSeq \in SeqNo
    BY <1>7 DEF MuxPacket
  <2>2. q \in MuxPacket
    BY <1>3, <1>9, <2>1, PktType DEF MuxCmd
  <2>. QED  BY <1>3, <2>2 DEF Pkt, Creates, Closes
<1> HIDE DEF o, p
<1>11. PICK d \in {0, 1} : Shifts(s, q, d)
  <2>1. Moved(s, q)
    BY <1>1, <1>2, <1>4, <1>10, MovedByStep
  <2>. QED  BY <1>1, <1>10, <2>1, MovedShifts
<1>12. Gone(s, c)
  BY <1>0, <1>1, <1>2, <1>6, <1>8, HeadNotPromised DEF Knowledge, Gone, p
<1>13. Gone(o, c) \/ \E j \in 1 .. Len(wire[o]) : Closes(wire[o][j], c)
  BY <1>1, <1>6, <1>9, <1>12 DEF Knowledge, Forgotten
<1>14. \A x : ~ Creates(Head(wire[s]), x) /\ ~ Closes(Head(wire[s]), x)
  BY <1>9 DEF Creates, Closes, p
<1>15. \A t \in Side : \A x : ~ (Gone(t, x)' /\ ~ Gone(t, x))
  BY <1>1, <1>2, <1>11, <1>14, NewlyGone
<1>16. Knowledge'
  <2>1. \A x : q.mCmd = "Nak" /\ q.mChan = x =>
          /\ x \in Nat /\ HandedOut(mNextChanId, x)
          /\ Gone(Peer(s), x) \/ \E j \in 1 .. Len(wire[Peer(s)]) : Closes(wire[Peer(s)][j], x)
    BY <1>9, <1>10, <1>13 DEF o
  <2>. QED  BY <1>1, <1>2, <1>6, <1>10, <1>11, <1>14, <1>15, <2>1, ErasedKnowledge
<1>17. \A t \in Side : Answered(t)'
  BY <1>1, <1>2, <1>6, <1>9, <1>11, AnsweredIdle DEF p
<1>. QED  BY <1>16, <1>17, UndisturbedParts

LEMMA SizesSides ==
    ASSUME NEW s \in Side, NEW o \in Side, o = Peer(s), \A t \in Side : mControlChan'[t].mSize = 0,
           \A c \in DOMAIN mChannels'[s] \cap DOMAIN mChannels'[o] : mChannels'[s][c].mSize = mChannels'[o][c].mSize,
           \A i \in 1 .. Len(wire'[s]) : \A c \in DOMAIN mChannels'[o] :
             Creates(wire'[s][i], c) => wire'[s][i].mDataSize = mChannels'[o][c].mSize,
           \A i \in 1 .. Len(wire'[o]) : \A c \in DOMAIN mChannels'[s] :
             Creates(wire'[o][i], c) => wire'[o][i].mDataSize = mChannels'[s][c].mSize
    PROVE  SizesAgree'
<1>1. Peer(o) = s /\ \A t \in Side : t = s \/ t = o
  BY PeerSide, SideCases
<1>2. \A t \in Side :
        /\ \A c \in DOMAIN mChannels'[t] \cap DOMAIN mChannels'[Peer(t)] :
             mChannels'[t][c].mSize = mChannels'[Peer(t)][c].mSize
        /\ \A i \in 1 .. Len(wire'[t]) : \A c \in DOMAIN mChannels'[Peer(t)] :
             Creates(wire'[t][i], c) => wire'[t][i].mDataSize = mChannels'[Peer(t)][c].mSize
  BY <1>1
<1>. QED  BY <1>2 DEF SizesAgree

\* Handing out an id changes nothing for the others.
LEMMA HandedOutStep ==
    ASSUME TypeOK, TypeOK', ChanIdsOK, NEW s \in Side, mNextChanId'[s] = mNextChanId[s] + 2,
           mNextChanId'[Peer(s)] = mNextChanId[Peer(s)], NEW c \in Nat
    PROVE  /\ HandedOut(mNextChanId, c) => HandedOut(mNextChanId', c) /\ c # mNextChanId[s]
           /\ HandedOut(mNextChanId', c) /\ c # mNextChanId[s] => HandedOut(mNextChanId, c)
<1>1. PICK n \in Nat : n = mNextChanId[s]
  BY DEF TypeOK
<1>2. n % 2 = s /\ s \in {0, 1} /\ mNextChanId'[s] = n + 2
  BY <1>1 DEF ChanIdsOK, Side
<1>3. HandedOut(mNextChanId, c) <=>
        c >= 4 /\ (c % 2 = s => c < n) /\ (c % 2 = Peer(s) => c < mNextChanId[Peer(s)])
  BY <1>1, PeerSide, SideCases DEF HandedOut
<1>4. HandedOut(mNextChanId', c) <=>
        c >= 4 /\ (c % 2 = s => c < n + 2) /\ (c % 2 = Peer(s) => c < mNextChanId[Peer(s)])
  BY <1>2, PeerSide, SideCases DEF HandedOut
<1>5. c % 2 = s /\ c < n + 2 /\ c # n => c < n
  BY <1>2
<1>6. c % 2 = s /\ c < n => c < n + 2
  OBVIOUS
<1>. QED  BY <1>1, <1>2, <1>3, <1>4, <1>5, <1>6

LEMMA AcceptOpenAgree ==
    ASSUME IdInv, IdInv', nFails' = 0, nFails = 0 => Undisturbed(DataIds), NEW s \in Side, AcceptOpen(s)
    PROVE  Undisturbed(DataIds)'
<1> DEFINE o == Peer(s)
<1>0. PICK id : id = mNextChanId[s]
  OBVIOUS
<1>1. /\ TypeOK /\ TypeOK' /\ ChanIdsOK /\ PacketsOK /\ wire[s] # <<>> /\ Head(wire[s]).mCmd = "OpenChan"
      /\ o \in Side /\ Peer(o) = s /\ o # s
  BY PeerSide DEF IdInv, Ids, AcceptOpen, Routed, Incoming
<1>2. PICK sz \in Sizes, ok \in BOOLEAN :
        /\ sz >= 0
        /\ mChannels' = [mChannels EXCEPT ![s] = With(@, id, NewChannel(sz))]
        /\ mNextChanId' = [mNextChanId EXCEPT ![s] = NextFreeId(mChannels'[s], id)]
        /\ mControlChan' = [mControlChan EXCEPT ![s] = Sent(Received(mControlChan[s]), ok)]
        /\ wire' = DoSend(Taken(s), s,
                         ReplyPkt(StampedSeq(Received(mControlChan[s])), Head(wire[s]).mSeq, 0, sz, id), ok)
        /\ CountFail(ok)
  BY <1>0, <1>1, WriteOutcomesType DEF AcceptOpen
<1>3. ok = TRUE /\ nFails = 0
  BY <1>1, <1>2, NoFailure
<1>4. Knowledge /\ \A t \in Side : Answered(t)
  BY <1>3, UndisturbedParts
<1>5. PICK r : r = ReplyPkt(StampedSeq(Received(mControlChan[s])), Head(wire[s]).mSeq, 0, sz, id)
  OBVIOUS
<1>6. sz \in Nat /\ id \in Nat /\ id >= 4
  BY <1>0, <1>1, <1>2, SizesAssumption DEF TypeOK, ChanIdsOK
<1>7. r \in MuxPacket
  BY <1>1, <1>5, <1>6, ReplySent
<1>8. /\ r.mCmd = "OpenChanReply" /\ r.mChan = 0 /\ r.mReqSeq = Head(wire[s]).mSeq /\ r.mDataSize = sz
      /\ \A c : Creates(r, c) <=> c = id
  BY <1>5 DEF ReplyPkt, Creates
<1>9. /\ \E d \in {0, 1} : Shifts(s, r, d)
      /\ \A t \in Side : Answered(t)'
      /\ \A t \in Side : mControlChan'[t].mValid /\ mControlChan'[t].mSize = 0
  <2>1. mWaitingPackets' = mWaitingPackets
    BY DEF AcceptOpen
  <2>2. wire' = DoSend(Taken(s), s, r, TRUE)
    BY <1>2, <1>3, <1>5
  <2>. QED  BY <1>1, <1>2, <1>3, <1>4, <1>7, <1>8, <2>1, <2>2, AnswerSent
<1>10. PICK d \in {0, 1} : Shifts(s, r, d)
  BY <1>9
<1>11. /\ DOMAIN mChannels'[s] = DOMAIN mChannels[s] \cup {id} /\ mChannels'[s][id] = NewChannel(sz)
       /\ \A x \in DOMAIN mChannels[s] : x # id => mChannels'[s][x] = mChannels[s][x]
       /\ mChannels'[o] = mChannels[o]
  BY <1>1, <1>2, <1>6, Inserted
<1>12. \A t \in Side : /\ id \notin DOMAIN mChannels[t]
                       /\ \A i \in 1 .. Len(wire[t]) : ~ Creates(wire[t][i], id)
  BY <1>0, IdUnused
<1>13. mNextChanId'[s] = mNextChanId[s] + 2 /\ mNextChanId'[o] = mNextChanId[o]
  <2>1. id + 2 \notin DOMAIN mChannels'[s]
    <3>1. id % 2 = s /\ \A c \in DOMAIN mChannels[s] : c % 2 = s => c < id
      BY <1>0, <1>1 DEF ChanIdsOK, HandedOut
    <3>2. (id + 2) % 2 = s
      BY <1>6, <3>1 DEF Side
    <3>. QED  BY <1>6, <1>11, <3>1, <3>2
  <2>. QED  BY <1>0, <1>1, <1>2, <1>6, <2>1, FreeIdsNext DEF TypeOK
<1>14. \A c \in Nat : /\ HandedOut(mNextChanId, c) => HandedOut(mNextChanId', c) /\ c # id
                      /\ HandedOut(mNextChanId', c) /\ c # id => HandedOut(mNextChanId, c)
  BY <1>0, <1>1, <1>13, HandedOutStep
<1> HIDE DEF o
<1>15. ReplyLeads /\ CloseSent /\ Forgotten(DataIds) /\ NakLate /\ EndsValid /\ SizesAgree
  BY <1>4 DEF Knowledge
<1>16. ASSUME NEW t \in Side, NEW c, c # id, Gone(t, c) PROVE Gone(t, c)'
  <2>1. Promised(t, c)' => Promised(t, c)
    BY <1>1, <1>8, <1>10, <1>16, PromiseStep
  <2>2. c \notin DOMAIN mChannels'[t]
    BY <1>11, <1>16, SideCases DEF Gone, o
  <2>. QED  BY <1>16, <2>1, <2>2 DEF Gone
<1>17. ASSUME NEW t \in Side, NEW c \in DataIds, HandedOut(mNextChanId', c), Gone(t, c)'
       PROVE  HandedOut(mNextChanId, c) /\ Gone(t, c)
  <2>1. c # id
    <3>1. CASE t = s
      BY <1>11, <1>17, <3>1 DEF Gone
    <3>2. CASE t = o
      <4>1. \E i \in 1 .. Len(wire'[o]) : wire'[o][i] = r
        <5>1. wire[o] \in Seq(MuxPacket) /\ wire'[o] = Append(wire[o], r)
          BY <1>1, <1>2, <1>3, <1>5 DEF DoSend, Taken, TypeOK, o
        <5>2. \E i \in 1 .. Len(Append(wire[o], r)) : Append(wire[o], r)[i] = r
          BY <1>7, <5>1, AppendLast
        <5>. QED  BY <5>1, <5>2
      <4>2. Promised(o, id)'
        BY <1>8, <4>1 DEF Promised
      <4>. QED  BY <1>17, <3>2, <4>2 DEF Gone
    <3>. QED  BY <3>1, <3>2, SideCases DEF o
  <2>2. HandedOut(mNextChanId, c)
    BY <1>14, <1>17, <2>1 DEF DataIds
  <2>3. ~ Creates(Head(wire[s]), c)
    BY <1>1 DEF Creates
  <2>4. DOMAIN mChannels[t] \subseteq DOMAIN mChannels'[t]
    BY <1>11, SideCases DEF o
  <2>5. Gone(t, c)
    BY <1>1, <1>10, <1>17, <2>3, <2>4, NewlyGone
  <2>. QED  BY <2>2, <2>5
<1>18. \A j \in 1 .. Len(wire[o]) : wire[o][j].mChan # id
  <2> SUFFICES ASSUME NEW j \in 1 .. Len(wire[o]), wire[o][j].mChan = id PROVE FALSE
    OBVIOUS
  <2>1. ~ HandedOut(mNextChanId, id)
    BY <1>6, <1>14
  <2>2. wire[o][j] \in MuxPacket /\ PacketOK(mNextChanId, nFails, o, wire[o][j])
    BY <1>1, PacketNat
  <2>3. wire[o][j].mCmd = "Nak"
    BY <1>6, <2>1, <2>2 DEF PacketOK, MuxPacket, MuxCmd
  <2>. QED  BY <1>1, <1>15, <2>1, <2>3 DEF NakLate
<1>19. \A c : ~ Closes(Head(wire[s]), c) /\ ~ Closes(r, c)
  BY <1>1, <1>8 DEF Closes
<1>20. ReplyLeads' /\ CloseSent' /\ Forgotten(DataIds)' /\ NakLate'
  <2>1. \A c \in Nat : HandedOut(mNextChanId, c) => HandedOut(mNextChanId', c)
    BY <1>14
  <2>2. \A t \in Side : \A c \in Nat : HandedOut(mNextChanId, c) /\ Gone(t, c) => Gone(t, c)'
    BY <1>14, <1>16
  <2>3. \A c : Creates(r, c) => c # r.mChan /\ \A j \in 1 .. Len(wire[Peer(s)]) : wire[Peer(s)][j].mChan # c
    BY <1>6, <1>8, <1>18 DEF o
  <2>. QED  BY <1>1, <1>8, <1>10, <1>15, <1>17, <1>19, <2>1, <2>2, <2>3, KnowledgeStep
<1>21. NewChannel(sz).mSize = sz /\ NewChannel(sz).mValid
  BY DEF NewChannel
<1>22. EndsValid'
  <2>1. \A c \in DOMAIN mChannels'[s] : mChannels'[s][c].mValid
    BY <1>11, <1>15, <1>21 DEF EndsValid
  <2>2. \A c \in DOMAIN mChannels'[o] : mChannels'[o][c].mValid
    BY <1>1, <1>11, <1>15 DEF EndsValid
  <2>. QED  BY <1>9, <2>1, <2>2, SideCases DEF EndsValid, o
<1>23. SizesAgree'
  <2>1. \A c \in DOMAIN mChannels'[s] \cap DOMAIN mChannels'[o] :
          mChannels'[s][c].mSize = mChannels'[o][c].mSize
    BY <1>1, <1>11, <1>12, <1>15 DEF SizesAgree, o
  <2>2. ASSUME NEW i \in 1 .. Len(wire'[s]), NEW c \in DOMAIN mChannels'[o], Creates(wire'[s][i], c)
        PROVE  wire'[s][i].mDataSize = mChannels'[o][c].mSize
    <3>1. PICK k \in 1 .. Len(wire[s]) : wire'[s][i] = wire[s][k]
      BY <1>10, <2>2, WasThere
    <3>. QED  BY <1>11, <1>15, <2>2, <3>1 DEF SizesAgree, o
  <2>3. ASSUME NEW i \in 1 .. Len(wire'[o]), NEW c \in DOMAIN mChannels'[s], Creates(wire'[o][i], c)
        PROVE  wire'[o][i].mDataSize = mChannels'[s][c].mSize
    <3>1. CASE wire'[o][i] = r
      BY <1>8, <1>11, <1>21, <2>3, <3>1
    <3>2. ASSUME NEW k \in 1 .. Len(wire[o]), wire'[o][i] = wire[o][k]
          PROVE  wire'[o][i].mDataSize = mChannels'[s][c].mSize
      <4>1. c # id /\ c \in DOMAIN mChannels[s]
        BY <1>1, <1>11, <1>12, <2>3, <3>2
      <4>2. wire[o][k].mDataSize = mChannels[s][c].mSize
        BY <1>1, <1>15, <2>3, <3>2, <4>1 DEF SizesAgree
      <4>. QED  BY <1>11, <3>2, <4>1, <4>2
    <3>. QED  BY <1>1, <1>10, <2>3, <3>1, <3>2, WasThere
  <2>. QED  BY <1>1, <1>9, <2>1, <2>2, <2>3, SizesSides DEF o
<1>. QED  BY <1>9, <1>20, <1>22, <1>23, UndisturbedParts DEF Knowledge

LEMMA HandleReplyAgree ==
    ASSUME IdInv, IdInv', nFails' = 0, nFails = 0 => Undisturbed(DataIds), NEW s \in Side, HandleReply(s)
    PROVE  Undisturbed(DataIds)'
<1> DEFINE o == Peer(s)
           p == Head(wire[s])
<1>0. PICK id : id = p.mDataChan
  OBVIOUS
<1>1. /\ TypeOK /\ TypeOK' /\ Ids /\ ChanIdsOK /\ PacketsOK /\ wire[s] # <<>> /\ wire[s] \in Seq(MuxPacket)
      /\ p.mCmd = "OpenChanReply" /\ o \in Side /\ Peer(o) = s /\ o # s
  BY PeerSide DEF IdInv, Ids, TypeOK, HandleReply, Routed, Incoming
<1>2. /\ wire' = Taken(s) /\ ReplyVerdict(s, p) = "no"
      /\ mWaitingPackets' = [mWaitingPackets EXCEPT ![s] = @ \ {p.mReqSeq}]
      /\ mControlChan' = [mControlChan EXCEPT ![s] = Received(mControlChan[s])]
      /\ mChannels' = IF p.mErrno # 0 THEN mChannels
                      ELSE [mChannels EXCEPT ![s] = With(@, id, NewChannel(p.mDataSize))]
      /\ UNCHANGED <<mNextChanId, nFails>>
  BY <1>0 DEF HandleReply
<1>3. Knowledge /\ \A t \in Side : Answered(t)
  BY <1>2, UndisturbedParts
<1>4. p \in MuxPacket /\ PacketOK(mNextChanId, nFails, s, p) /\ id \in Nat /\ p.mDataSize \in Nat
  <2>1. p \in MuxPacket /\ PacketOK(mNextChanId, nFails, s, p)
    BY <1>1, HeadOK
  <2>. QED  BY <1>0, <2>1 DEF MuxPacket
<1>5. p.mErrno = 0 /\ id % 2 = o /\ id # 0
  <2>1. ~ HasChannel(s, id)
    BY <1>0, <1>2 DEF ReplyVerdict
  <2>2. id # 0
    BY <2>1 DEF HasChannel
  <2>. QED  BY <1>0, <1>1, <1>4, <2>2 DEF PacketOK
<1>6. \A c : Creates(p, c) <=> c = id
  BY <1>0, <1>1, <1>5 DEF Creates
<1>7. /\ DOMAIN mChannels'[s] = DOMAIN mChannels[s] \cup {id} /\ mChannels'[s][id] = NewChannel(p.mDataSize)
      /\ \A x \in DOMAIN mChannels[s] : x # id => mChannels'[s][x] = mChannels[s][x]
      /\ mChannels'[o] = mChannels[o]
  <2>1. PICK z \in Nat : z = p.mDataSize
    BY <1>4
  <2>2. mChannels' = [mChannels EXCEPT ![s] = With(@, id, NewChannel(z))]
    BY <1>2, <1>5, <2>1
  <2>. QED  BY <1>1, <1>4, <2>1, <2>2, Inserted
<1>8. 1 \in 1 .. Len(wire[s]) /\ p = wire[s][1]
  BY <1>1, TailFacts
<1> HIDE DEF o, p
<1>9. PICK d \in {0, 1} : Shifts(s, Nothing, d)
  <2>1. Moved(s, Nothing)
    BY <1>1, <1>2, NothingSent, MovedByStep
  <2>. QED  BY <1>1, <2>1, NothingSent, MovedShifts
<1>10. ReplyLeads /\ CloseSent /\ Forgotten(DataIds) /\ NakLate /\ EndsValid /\ SizesAgree
  BY <1>3 DEF Knowledge
<1>11. ASSUME NEW t \in Side, NEW c, Gone(t, c) PROVE Gone(t, c)'
  <2>1. Promised(t, c)' => Promised(t, c)
    BY <1>1, <1>9, NothingSent, PromiseStep
  <2>2. Promised(s, id)
    BY <1>6, <1>8 DEF Promised
  <2>3. c \notin DOMAIN mChannels'[t]
    BY <1>7, <1>11, <2>2, SideCases DEF Gone, o
  <2>. QED  BY <1>11, <2>1, <2>3 DEF Gone
<1>12. ASSUME NEW t \in Side, NEW c, Gone(t, c)' PROVE Gone(t, c)
  <2>1. ~ (t = s /\ c = id)
    BY <1>7, <1>12 DEF Gone
  <2>2. t = s => ~ Creates(Head(wire[s]), c)
    BY <1>6, <2>1 DEF p
  <2>3. DOMAIN mChannels[t] \subseteq DOMAIN mChannels'[t]
    BY <1>7, SideCases DEF o
  <2>. QED  BY <1>1, <1>9, <1>12, <2>2, <2>3, NewlyGone
<1>13. \A c : ~ Closes(Head(wire[s]), c)
  BY <1>1 DEF Closes, p
<1>14. ReplyLeads' /\ CloseSent' /\ Forgotten(DataIds)' /\ NakLate'
  BY <1>1, <1>2, <1>9, <1>10, <1>11, <1>12, <1>13, NothingSent, KnowledgeStep
<1>15. NewChannel(p.mDataSize).mSize = p.mDataSize /\ NewChannel(p.mDataSize).mValid
  BY DEF NewChannel
<1>16. \A t \in Side : mControlChan'[t].mValid /\ mControlChan'[t].mSize = 0
  <2>1. mControlChan'[s].mValid /\ mControlChan'[s].mSize = 0
    <3>1. mControlChan[s] \in Channel /\ mControlChan[s].mValid /\ mControlChan[s].mSize = 0
      BY <1>1, <1>3, EndsKnown DEF TypeOK
    <3>2. Received(mControlChan[s]).mSize = 0 /\ Received(mControlChan[s]).mValid
      BY <3>1, SizeKept
    <3>3. mControlChan'[s] = Received(mControlChan[s])
      BY <1>1, <1>2 DEF TypeOK
    <3>. QED  BY <3>2, <3>3
  <2>2. mControlChan'[o].mValid /\ mControlChan'[o].mSize = 0
    <3>1. mControlChan'[o] = mControlChan[o]
      BY <1>1, <1>2 DEF TypeOK
    <3>. QED  BY <1>1, <1>3, <3>1, EndsKnown
  <2>. QED  BY <2>1, <2>2, SideCases DEF o
<1>17. EndsValid'
  <2>1. \A c \in DOMAIN mChannels'[s] : mChannels'[s][c].mValid
    BY <1>7, <1>10, <1>15 DEF EndsValid
  <2>2. \A c \in DOMAIN mChannels'[o] : mChannels'[o][c].mValid
    BY <1>1, <1>7, <1>10 DEF EndsValid
  <2>. QED  BY <1>16, <2>1, <2>2, SideCases DEF EndsValid, o
<1>18. SizesAgree'
  <2>0. id \in DOMAIN mChannels[o] => p.mDataSize = mChannels[o][id].mSize
    BY <1>6, <1>8, <1>10 DEF SizesAgree, o
  <2>1. \A c \in DOMAIN mChannels'[s] \cap DOMAIN mChannels'[o] :
          mChannels'[s][c].mSize = mChannels'[o][c].mSize
    <3>1. ASSUME NEW c \in DOMAIN mChannels'[s] \cap DOMAIN mChannels'[o]
          PROVE  mChannels'[s][c].mSize = mChannels'[o][c].mSize
      <4>1. CASE c = id
        BY <1>7, <1>15, <2>0, <3>1, <4>1
      <4>2. CASE c # id
        <5>1. c \in DOMAIN mChannels[s] /\ c \in DOMAIN mChannels[o]
          BY <1>7, <3>1, <4>2
        <5>2. mChannels[s][c].mSize = mChannels[o][c].mSize
          BY <1>10, <5>1 DEF SizesAgree, o
        <5>. QED  BY <1>7, <4>2, <5>1, <5>2
      <4>. QED  BY <4>1, <4>2
    <3>. QED  BY <3>1
  <2>2. ASSUME NEW i \in 1 .. Len(wire'[s]), NEW c \in DOMAIN mChannels'[o], Creates(wire'[s][i], c)
        PROVE  wire'[s][i].mDataSize = mChannels'[o][c].mSize
    <3>1. PICK k \in 1 .. Len(wire[s]) : wire'[s][i] = wire[s][k]
      BY <1>9, <2>2, NothingSent, WasThere
    <3>. QED  BY <1>7, <1>10, <2>2, <3>1 DEF SizesAgree, o
  <2>3. ASSUME NEW i \in 1 .. Len(wire'[o]), NEW c \in DOMAIN mChannels'[s], Creates(wire'[o][i], c)
        PROVE  wire'[o][i].mDataSize = mChannels'[s][c].mSize
    <3>1. PICK k \in 1 .. Len(wire[o]) : wire'[o][i] = wire[o][k]
      BY <1>1, <1>9, <2>3, NothingSent, WasThere
    <3>2. c # id /\ c \in DOMAIN mChannels[s]
      <4>1. PacketOK(mNextChanId, nFails, o, wire[o][k])
        BY <1>1, <3>1, PacketNat
      <4>2. c % 2 = s
        BY <1>1, <2>3, <3>1, <4>1 DEF PacketOK, Creates
      <4>. QED  BY <1>1, <1>5, <1>7, <2>3, <4>2
    <3>3. wire[o][k].mDataSize = mChannels[s][c].mSize
      BY <1>1, <1>10, <2>3, <3>1, <3>2 DEF SizesAgree
    <3>. QED  BY <1>7, <3>1, <3>2, <3>3
  <2>. QED  BY <1>1, <1>16, <2>1, <2>2, <2>3, SizesSides DEF o
<1>19. Answered(s)' /\ Answered(o)'
  <2>1. mWaitingPackets'[s] = mWaitingPackets[s] \ {p.mReqSeq} /\ mWaitingPackets'[o] = mWaitingPackets[o]
    BY <1>1, <1>2 DEF TypeOK
  <2>2. Answered(s)'
    BY <1>1, <1>3, <1>9, <2>1, AnsweredStep DEF p
  <2>3. Answered(o)'
    BY <1>1, <1>3, <1>9, <2>1, AnsweredStep DEF p
  <2>. QED  BY <2>2, <2>3
<1>20. \A t \in Side : Answered(t)'
  BY <1>19, SideCases DEF o
<1>. QED  BY <1>14, <1>17, <1>18, <1>20, UndisturbedParts DEF Knowledge

-----------------------------------------------------------------------------
(* The induction.                                                          *)

LEMMA UseAgree ==
    ASSUME IdInv, IdInv', nFails' = 0, nFails = 0 => Undisturbed(DataIds), NEW s \in Side, Use(s)
    PROVE  Undisturbed(DataIds)'
BY OpenAgree, WriteAgree, AskCloseAgree DEF Use

LEMMA ReceiveAgree ==
    ASSUME IdInv, IdInv', nFails' = 0, nFails = 0 => Undisturbed(DataIds), NEW s \in Side, Receive(s)
    PROVE  Undisturbed(DataIds)'
<1>1. CASE HandleClose(s) \/ HandleNak(s) \/ HandleStray(s) \/ HandleData(s)
  BY <1>1, HandleCloseAgree, HandleNakAgree, HandleStrayAgree, HandleDataAgree
<1>2. CASE OutOfSequence(s)
  BY <1>2, HaltAgree DEF OutOfSequence
<1>3. CASE BadReply(s)
  <2>1. PICK why : why = ReplyVerdict(s, Head(wire[s]))
    OBVIOUS
  <2>2. Halt(s, why)
    BY <1>3, <2>1 DEF BadReply
  <2>. QED  BY <2>2, HaltAgree
<1>4. CASE RefuseOpen(s) \/ AcceptOpen(s) \/ HandleReply(s)
  BY <1>4, RefuseOpenAgree, AcceptOpenAgree, HandleReplyAgree
<1>. QED  BY <1>1, <1>2, <1>3, <1>4 DEF Receive

LEMMA InitAgree == Init => UndisturbedInv
<1> SUFFICES ASSUME Init PROVE UndisturbedInv
  OBVIOUS
<1>1. Inv
  BY InitStreams
<1>2. \A s \in Side : /\ wire[s] = <<>> /\ DOMAIN mChannels[s] = {} /\ mWaitingPackets[s] = {}
                      /\ mControlChan[s].mValid /\ mControlChan[s].mSize = 0
  BY DEF Init, NewChannel
<1>3. \A s \in Side : Len(wire[s]) = 0 /\ Peer(s) \in Side
  BY <1>2, PeerSide
<1>4. EndsValid /\ SizesAgree /\ \A s \in Side : Answered(s)
  BY <1>2, <1>3 DEF EndsValid, SizesAgree, Answered
<1>5. ReplyLeads /\ CloseSent /\ NakLate
  BY <1>3 DEF ReplyLeads, CloseSent, NakLate
<1>6. Forgotten(DataIds)
  BY <1>2, <1>3 DEF Forgotten, Gone, Promised
<1>. QED  BY <1>1, <1>4, <1>5, <1>6 DEF UndisturbedInv, Undisturbed

LEMMA NextAgree == UndisturbedInv /\ [Next]_vars => UndisturbedInv'
<1> SUFFICES ASSUME UndisturbedInv, [Next]_vars PROVE UndisturbedInv'
  OBVIOUS
<1>1. Inv /\ Inv' /\ IdInv /\ IdInv' /\ (nFails = 0 => Undisturbed(DataIds))
  BY NextStreams DEF UndisturbedInv, Inv
<1>2. CASE UNCHANGED vars
  <2>1. Halt(0, halted[0])
    BY <1>1, <1>2 DEF vars, Halt, IdInv, TypeOK, Side
  <2>2. PICK why : why = halted[0]
    OBVIOUS
  <2>3. Halt(0, why) /\ 0 \in Side
    BY <2>1, <2>2 DEF Side
  <2>. QED  BY <1>1, <2>3, HaltAgree DEF UndisturbedInv
<1>3. ASSUME NEW s \in Side, Use(s) \/ Receive(s) PROVE UndisturbedInv'
  BY <1>1, <1>3, UseAgree, ReceiveAgree DEF UndisturbedInv
<1>. QED  BY <1>2, <1>3 DEF Next

-----------------------------------------------------------------------------
(* The theorems.                                                           *)

\* Until a write fails a Nak always finds its channel gone: DoErrorChannel never
\* tears down a channel that both sides still use, whatever is opened, closed
\* and sent at the same time, and wrapped sequence numbers included.
THEOREM NakCorrect == Spec => []NakHitsNoLiveChannel
<1>1. ASSUME UndisturbedInv PROVE NakHitsNoLiveChannel
  <2> SUFFICES ASSUME NEW s \in Side, wire[s] # <<>>, nFails = 0, Head(wire[s]).mCmd = "Nak"
               PROVE  ~ HasChannel(s, Head(wire[s]).mChan)
    BY DEF NakHitsNoLiveChannel
  <2>1. NakLate /\ TypeOK
    BY <1>1 DEF UndisturbedInv, Undisturbed, Inv, IdInv
  <2>2. /\ 1 \in 1 .. Len(wire[s]) /\ Head(wire[s]) = wire[s][1]
        /\ \A j \in 1 .. Len(wire[s]) : ~ (j < 1)
    BY <2>1, TailFacts DEF TypeOK
  <2>3. HandedOut(mNextChanId, Head(wire[s]).mChan) /\ Gone(s, Head(wire[s]).mChan)
    BY <2>1, <2>2 DEF NakLate
  <2>4. Head(wire[s]).mChan # 0
    BY <2>3 DEF HandedOut
  <2>. QED  BY <2>3, <2>4 DEF HasChannel, Gone
<1>. QED  BY <1>1, InitAgree, NextAgree, PTL DEF Spec

\* An empty stream leaves the receiver with the number the sender is at.
LEMMA FilledEmpty ==
    ASSUME NEW w, Len(w) = 0, NEW c, NEW lo \in Nat, NEW hi \in Nat, Filled(w, c, lo, hi)
    PROVE  hi = lo
<1>1. \A n : ~ Carried(w, c, n)
  BY DEF Carried
<1>2. lo <= hi /\ \A n \in lo .. (hi - 1) : FALSE
  BY <1>1 DEF Filled
<1>3. lo < hi => lo \in lo .. (hi - 1)
  OBVIOUS
<1>. QED  BY <1>2, <1>3

\* With nothing in flight and no write failed, the two sides have the same
\* channels of the same size, each has received all the other has sent, and no
\* Open is without its answer: for any number of opens, closes and packets.
THEOREM EndsAgreeCorrect == Spec => []EndsAgree
<1>1. ASSUME UndisturbedInv, \A s \in Side : wire[s] = <<>>, nFails = 0, ~ wrapped
      PROVE  /\ mWaitingPackets = [s \in Side |-> {}]
             /\ DOMAIN mChannels[0] = DOMAIN mChannels[1]
             /\ \A c \in DOMAIN mChannels[0] \cup {0}, s \in Side :
                  /\ GetChannel(s, c).mSize = GetChannel(Peer(s), c).mSize
                  /\ GetChannel(s, c).mSeq = GetChannel(Peer(s), c).mSeqPeer
  <2>1. /\ TypeOK /\ ChanIdsOK /\ Undisturbed(DataIds) /\ Unwrapped(DataIds)
        /\ EndsValid /\ SizesAgree /\ Forgotten(DataIds) /\ \A s \in Side : Answered(s)
    BY <1>1 DEF UndisturbedInv, Undisturbed, Inv, IdInv, Ids
  <2>2. \A s \in Side : Len(wire[s]) = 0 /\ Peer(s) \in Side /\ Peer(Peer(s)) = s
    BY <1>1, PeerSide
  <2>3. mWaitingPackets = [s \in Side |-> {}]
    <3>1. \A s \in Side : mWaitingPackets[s] = {}
      BY <2>1, <2>2 DEF Answered
    <3>. QED  BY <2>1, <3>1 DEF TypeOK
  <2>4. ASSUME NEW s \in Side, NEW c \in DOMAIN mChannels[s] PROVE c \in DataIds /\ c \in DOMAIN mChannels[Peer(s)]
    <3>1. HandedOut(mNextChanId, c) /\ c \in Nat
      BY <2>1, <2>4 DEF ChanIdsOK, TypeOK
    <3>2. c \in DataIds
      BY <3>1 DEF HandedOut, DataIds
    <3>3. ~ Gone(s, c) /\ \A j \in 1 .. Len(wire[s]) : ~ Closes(wire[s][j], c)
      BY <2>2, <2>4 DEF Gone
    <3>4. ~ Gone(Peer(s), c)
      BY <2>1, <3>1, <3>2, <3>3 DEF Forgotten
    <3>. QED  BY <2>2, <3>2, <3>4 DEF Gone, Promised
  <2>5. DOMAIN mChannels[0] = DOMAIN mChannels[1]
    <3>1. 0 \in Side /\ 1 \in Side /\ Peer(0) = 1 /\ Peer(1) = 0
      BY DEF Side, Peer
    <3>. QED  BY <2>4, <3>1
  <2>6. ASSUME NEW s \in Side, NEW c \in DOMAIN mChannels[s]
        PROVE  /\ c # 0
               /\ mChannels[s][c].mSize = mChannels[Peer(s)][c].mSize
               /\ mChannels[s][c].mSeq = mChannels[Peer(s)][c].mSeqPeer
    <3>1. c \in DataIds /\ c \in DOMAIN mChannels[Peer(s)]
      BY <2>4, <2>6
    <3>2. c # 0 /\ mChannels[s][c].mSize = mChannels[Peer(s)][c].mSize
      BY <2>1, <2>6, <3>1 DEF SizesAgree, DataIds
    <3>3. DataStream(Peer(s), c)
      BY <2>1, <2>2, <3>1 DEF Unwrapped, DataStreams
    <3>4. Listens(Peer(s), c) /\ Speaks(s, c) /\ Expected(Peer(s), c) = mChannels[Peer(s)][c].mSeqPeer
      BY <2>1, <2>2, <2>6, <3>1 DEF Listens, Speaks, Expected, EndsValid
    <3>5. Filled(wire[Peer(s)], c, mChannels[Peer(s)][c].mSeqPeer, mChannels[s][c].mSeq)
      BY <2>2, <3>3, <3>4 DEF DataStream
    <3>6. mChannels[Peer(s)][c].mSeqPeer \in Nat /\ mChannels[s][c].mSeq \in Nat
      BY <2>1, <2>2, <2>6, <3>1, ChannelNat
    <3>. QED  BY <2>2, <3>2, <3>5, <3>6, FilledEmpty
  <2>7. ASSUME NEW s \in Side
        PROVE  /\ mControlChan[s].mSize = mControlChan[Peer(s)].mSize
               /\ mControlChan[s].mSeq = mControlChan[Peer(s)].mSeqPeer
    <3>1. ControlStream(Peer(s)) /\ mControlChan[s].mValid /\ mControlChan[Peer(s)].mValid
      BY <2>1, <2>2 DEF Unwrapped, EndsValid
    <3>2. Filled(wire[Peer(s)], 0, mControlChan[Peer(s)].mSeqPeer, mControlChan[s].mSeq)
      BY <2>2, <3>1 DEF ControlStream
    <3>3. mControlChan[Peer(s)].mSeqPeer \in Nat /\ mControlChan[s].mSeq \in Nat
      BY <2>1, ControlNat
    <3>4. mControlChan[s].mSize = 0 /\ mControlChan[Peer(s)].mSize = 0
      BY <2>1, <2>2 DEF SizesAgree
    <3>. QED  BY <2>2, <3>2, <3>3, <3>4, FilledEmpty
  <2>8. ASSUME NEW c \in DOMAIN mChannels[0] \cup {0}, NEW s \in Side
        PROVE  /\ GetChannel(s, c).mSize = GetChannel(Peer(s), c).mSize
               /\ GetChannel(s, c).mSeq = GetChannel(Peer(s), c).mSeqPeer
    <3>1. CASE c = 0
      BY <2>7, <3>1 DEF GetChannel
    <3>2. CASE c # 0
      <4>1. c \in DOMAIN mChannels[s]
        BY <2>5, <2>8, <3>2 DEF Side
      <4>. QED  BY <2>6, <3>2, <4>1 DEF GetChannel
    <3>. QED  BY <3>1, <3>2
  <2>. QED  BY <2>3, <2>5, <2>8
<1>2. UndisturbedInv => EndsAgree
  BY <1>1 DEF EndsAgree
<1>. QED  BY <1>2, InitAgree, NextAgree, PTL DEF Spec

\* The inductive invariant of this module, for every id.
THEOREM UndisturbedCorrect == Spec => []UndisturbedInv
BY InitAgree, NextAgree, PTL DEF Spec

\* The invariant the runs check for the ids within their bounds, for every
\* value of the constants: the numbers, requests and ids in flight fit the two
\* ends, and until a write fails no end keeps, unwarned, what its peer gave up.
THEOREM BoundedCorrect == Spec => []BoundedInv
<1>1. ASSUME UndisturbedInv PROVE BoundedInv
  <2>1. PICK C : C = 4 .. (5 + 2 * (MaxOpens[0] + MaxOpens[1]))
    OBVIOUS
  <2>2. C \subseteq DataIds
    BY <2>1, BoundsAssumption DEF DataIds
  <2>3. Ids /\ (~ wrapped => Unwrapped(C)) /\ (nFails = 0 => Undisturbed(C))
    BY <1>1, <2>2 DEF UndisturbedInv, Inv, IdInv, Unwrapped, DataStreams, Undisturbed, Forgotten
  <2>. QED  BY <2>1, <2>3 DEF BoundedInv
<1>. QED  BY <1>1, InitAgree, NextAgree, PTL DEF Spec

=============================================================================
