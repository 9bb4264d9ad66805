-------------------------------- MODULE Mux --------------------------------
(***************************************************************************)
(* Channels multiplexed over one connection (mux/mux.h, mux/mux.cpp).      *)
(*                                                                         *)
(* Two Mux objects, the server (side 0) and the client (side 1), talk over *)
(* a reliable byte stream.  Each owns a control channel with id 0 and a    *)
(* map of data channels.  A side asks for a channel with OpenChan on the   *)
(* control channel; the peer allocates the id and answers with             *)
(* OpenChanReply.  wire[s] holds the packets on their way to side s, whole *)
(* and in order: ReceiveRaw, which cuts the byte stream into packets, is   *)
(* the subject of MuxFraming.                                              *)
(*                                                                         *)
(* A failed assert() stops the side for good and is recorded in halted[s]. *)
(*                                                                         *)
(* A definition X_Y is a wrong variant of the definition X that follows    *)
(* it: with it in the place of X one of the properties below fails.        *)
(***************************************************************************)
EXTENDS Integers, Sequences

CONSTANTS
    SeqMod,     \* 2^32 in the code: the sequence numbers are unsigned int
    Sizes,      \* what ChannelListener::OnCheckDataSize may answer
    MaxOpens,   \* [side -> bound on its calls of Mux::Open]
    MaxSends,   \* [side -> bound on the data packets it sends]
    MaxFails    \* bound on the failed writes of the transports

ASSUME SeqModAssumption == SeqMod \in Nat /\ SeqMod > 2
ASSUME SizesAssumption == Sizes \subseteq Int /\ Sizes # {}
ASSUME BoundsAssumption ==
    MaxOpens \in [{0, 1} -> Nat] /\ MaxSends \in [{0, 1} -> Nat] /\ MaxFails \in Nat

VARIABLES
    mControlChan,       \* the control channel of each side
    mChannels,          \* the data channels of each side, by id
    mNextChanId,        \* the next id each side hands out
    mWaitingPackets,    \* the sequence numbers of the unanswered OpenChan
    wire,               \* the packets on their way to each side
    halted,             \* the assertion that stopped a side, or "no"
    nOpens, nSends,     \* Open calls and data packets so far, per side
    nFails,             \* failed writes so far
    wrapped             \* history: the mSeq of some channel has wrapped to 0

vars == <<mControlChan, mChannels, mNextChanId, mWaitingPackets, wire,
          halted, nOpens, nSends, nFails, wrapped>>

Side == {0, 1}          \* SideServer, SideClient
Peer(s) == 1 - s

first_seq == 1
SeqNo == 0 .. (SeqMod - 1)

-----------------------------------------------------------------------------
(* Packets.  The request, error, size and channel fields are those of      *)
(* OpenChanReplyPacket; they are 0 in every other packet.                  *)

MuxCmd == {"Nak", "OpenChan", "OpenChanReply", "CloseChan", "Data"}

MuxPacket == [mCmd : MuxCmd, mChan : Nat, mSeq : SeqNo,
              mReqSeq : SeqNo, mErrno : {0, 1}, mDataSize : Nat, mDataChan : Nat]

Pkt(cmd, chan, seq) ==
    [mCmd |-> cmd, mChan |-> chan, mSeq |-> seq,
     mReqSeq |-> 0, mErrno |-> 0, mDataSize |-> 0, mDataChan |-> 0]

ReplyPkt(seq, req, err, size, chan) ==
    [mCmd |-> "OpenChanReply", mChan |-> 0, mSeq |-> seq,
     mReqSeq |-> req, mErrno |-> err, mDataSize |-> size, mDataChan |-> chan]

-----------------------------------------------------------------------------
(* Channel objects.                                                        *)

Channel == [mSize : Nat, mSeq : SeqNo, mSeqPeer : SeqNo, mValid : BOOLEAN]

NewChannel(size) ==
    [mSize |-> size, mSeq |-> first_seq, mSeqPeer |-> first_seq, mValid |-> TRUE]

Incremented_Unbounded(n) == n + 1

\* An unsigned int incremented by one.
Incremented(n) == IF n + 1 = SeqMod THEN 0 ELSE n + 1

AtLeastFirst(n) == IF n < first_seq THEN first_seq ELSE n

\* The sequence number Channel::Send stamps on a packet.
StampedSeq(ch) == AtLeastFirst(ch.mSeq)

Sent_StaysValid(ch, ok) == [ch EXCEPT !.mSeq = Incremented(@)]

\* A valid channel after Channel::Send; ok is the transport's answer.
Sent(ch, ok) ==
    [ch EXCEPT !.mSeq = Incremented(@), !.mValid = ok]

\* A valid channel after Channel::HandleIncomingPacket.
Received(ch) ==
    [ch EXCEPT !.mSeqPeer = AtLeastFirst(Incremented(@))]

\* std::map: insert and erase.
With(f, k, v) == [x \in DOMAIN f \cup {k} |-> IF x = k THEN v ELSE f[x]]
Without(f, k) == [x \in DOMAIN f \ {k} |-> f[x]]

HasChannel(s, c) == c = 0 \/ c \in DOMAIN mChannels[s]
GetChannel(s, c) == IF c = 0 THEN mControlChan[s] ELSE mChannels[s][c]

-----------------------------------------------------------------------------
Running(s) == halted[s] = "no"

\* Transport::Write takes the whole packet, or fails.
WriteOutcomes == IF nFails < MaxFails THEN BOOLEAN ELSE {TRUE}

CountFail(ok) == nFails' = IF ok THEN nFails ELSE nFails + 1

\* DoSend from side s into the wires w.
DoSend(w, s, pkt, ok) == IF ok THEN [w EXCEPT ![Peer(s)] = Append(@, pkt)] ELSE w

\* The wires after side s has taken its first packet.
Taken(s) == [wire EXCEPT ![s] = Tail(@)]

\* The id after n that is not in use (the while loop of OnReceive).  A side
\* never has more channels than the two sides have asked for, so one of these
\* is free.
FreeIds(chans, n) ==
    {n + 2 + 2 * k : k \in 0 .. (MaxOpens[0] + MaxOpens[1])} \ DOMAIN chans
NextFreeId(chans, n) ==
    CHOOSE m \in FreeIds(chans, n) : \A i \in FreeIds(chans, n) : m <= i

Init_SameIds ==
    /\ mControlChan = [s \in Side |-> NewChannel(0)]
    /\ mChannels = [s \in Side |-> [c \in {} |-> NewChannel(0)]]
    /\ mNextChanId = [s \in Side |-> 4]
    /\ mWaitingPackets = [s \in Side |-> {}]
    /\ wire = [s \in Side |-> <<>>]
    /\ halted = [s \in Side |-> "no"]
    /\ nOpens = [s \in Side |-> 0]
    /\ nSends = [s \in Side |-> 0]
    /\ nFails = 0
    /\ wrapped = FALSE

Init ==
    /\ mControlChan = [s \in Side |-> NewChannel(0)]
    /\ mChannels = [s \in Side |-> [c \in {} |-> NewChannel(0)]]
    /\ mNextChanId = [s \in Side |-> 4 + s]
    /\ mWaitingPackets = [s \in Side |-> {}]
    /\ wire = [s \in Side |-> <<>>]
    /\ halted = [s \in Side |-> "no"]
    /\ nOpens = [s \in Side |-> 0]
    /\ nSends = [s \in Side |-> 0]
    /\ nFails = 0
    /\ wrapped = FALSE

-----------------------------------------------------------------------------
(* What the application asks for.                                          *)

\* Mux::Open on a valid control channel; on an invalid one it returns 0 and
\* changes nothing.
Open(s) ==
    /\ Running(s) /\ mControlChan[s].mValid
    /\ nOpens[s] < MaxOpens[s]
    /\ \E ok \in WriteOutcomes :
        LET seq == StampedSeq(mControlChan[s]) IN
        /\ mControlChan' = [mControlChan EXCEPT ![s] = Sent(@, ok)]
        /\ wire' = DoSend(wire, s, Pkt("OpenChan", 0, seq), ok)
        /\ mWaitingPackets' = IF ok THEN [mWaitingPackets EXCEPT ![s] = @ \cup {seq}]
                                    ELSE mWaitingPackets
        /\ CountFail(ok)
        /\ wrapped' = (wrapped \/ mControlChan'[s].mSeq = 0)
    /\ nOpens' = [nOpens EXCEPT ![s] = @ + 1]
    /\ UNCHANGED <<mChannels, mNextChanId, halted, nSends>>

\* Channel::Send of a data packet, the step StreamChannel::Write repeats for
\* every piece of at most MaxPayloadSize bytes until one of them fails.
Write(s, c) ==
    /\ Running(s) /\ c \in DOMAIN mChannels[s] /\ mChannels[s][c].mValid
    /\ nSends[s] < MaxSends[s]
    /\ \E ok \in WriteOutcomes :
        LET seq == StampedSeq(mChannels[s][c]) IN
        /\ mChannels' = [mChannels EXCEPT ![s][c] = Sent(@, ok)]
        /\ wire' = DoSend(wire, s, Pkt("Data", c, seq), ok)
        /\ CountFail(ok)
        /\ wrapped' = (wrapped \/ mChannels'[s][c].mSeq = 0)
    /\ nSends' = [nSends EXCEPT ![s] = @ + 1]
    /\ UNCHANGED <<mControlChan, mNextChanId, mWaitingPackets, halted, nOpens>>

AskClose_Silent(s, c) ==
    /\ Running(s) /\ c \in DOMAIN mChannels[s]
    /\ mChannels' = [mChannels EXCEPT ![s] = Without(@, c)]
    /\ UNCHANGED <<mControlChan, mNextChanId, mWaitingPackets, wire, halted,
                   nOpens, nSends, nFails, wrapped>>

\* Channel::Close, that is Mux::ChannelAskClose: tell the peer if the channel
\* is still valid, then DoCloseChannel.
AskClose(s, c) ==
    /\ Running(s) /\ c \in DOMAIN mChannels[s]
    /\ \E ok \in WriteOutcomes :
        LET ch == mChannels[s][c] IN
        /\ ok \/ ch.mValid
        /\ wire' = DoSend(wire, s, Pkt("CloseChan", c, StampedSeq(ch)), ok /\ ch.mValid)
        /\ CountFail(ok)
        /\ wrapped' = (wrapped \/ (ch.mValid /\ Sent(ch, ok).mSeq = 0))
    /\ mChannels' = [mChannels EXCEPT ![s] = Without(@, c)]
    /\ UNCHANGED <<mControlChan, mNextChanId, mWaitingPackets, halted, nOpens, nSends>>

-----------------------------------------------------------------------------
(* Mux::HandleIncomingPacket, one action per kind of packet.               *)

Incoming(s, cmds) ==
    /\ Running(s) /\ wire[s] # <<>>
    /\ Head(wire[s]).mCmd \in cmds

\* A failed assertion: the side stops where it is.
Halt(s, why) ==
    /\ halted' = [halted EXCEPT ![s] = why]
    /\ UNCHANGED <<mControlChan, mChannels, mNextChanId, mWaitingPackets, wire,
                   nOpens, nSends, nFails, wrapped>>

HandleClose_Dropped(s) ==
    /\ Incoming(s, {"CloseChan"})
    /\ wire' = Taken(s)
    /\ UNCHANGED <<mControlChan, mChannels, mNextChanId, mWaitingPackets, halted,
                   nOpens, nSends, nFails, wrapped>>

\* CloseChan: DoCloseChannel, silently when the channel is already gone.
HandleClose(s) ==
    /\ Incoming(s, {"CloseChan"})
    /\ mChannels' = [mChannels EXCEPT ![s] = Without(@, Head(wire[s]).mChan)]
    /\ wire' = Taken(s)
    /\ UNCHANGED <<mControlChan, mNextChanId, mWaitingPackets, halted,
                   nOpens, nSends, nFails, wrapped>>

\* Nak: DoErrorChannel.  GetChannel(0) is the member mControlChan, which the
\* handler then deletes: the behaviour is undefined from there on.
HandleNak(s) ==
    /\ Incoming(s, {"Nak"})
    /\ LET c == Head(wire[s]).mChan IN
       \/ /\ c = 0
          /\ Halt(s, "delete of mControlChan")
       \/ /\ c # 0
          /\ mChannels' = [mChannels EXCEPT ![s] = Without(@, c)]
          /\ wire' = Taken(s)
          /\ UNCHANGED <<mControlChan, mNextChanId, mWaitingPackets, halted,
                         nOpens, nSends, nFails, wrapped>>

\* A packet for a channel that is gone or invalid: SendNak.
HandleStray(s) ==
    /\ Incoming(s, {"OpenChan", "OpenChanReply", "Data"})
    /\ LET p == Head(wire[s]) IN
       /\ HasChannel(s, p.mChan) => ~ GetChannel(s, p.mChan).mValid
       /\ \E ok \in WriteOutcomes :
            /\ wire' = DoSend(Taken(s), s, Pkt("Nak", p.mChan, p.mSeq), ok)
            /\ CountFail(ok)
    /\ UNCHANGED <<mControlChan, mChannels, mNextChanId, mWaitingPackets, halted,
                   nOpens, nSends, wrapped>>

\* The packet goes to a valid channel: Channel::HandleIncomingPacket.
Routed(s, cmd) ==
    /\ Incoming(s, {cmd})
    /\ HasChannel(s, Head(wire[s]).mChan)
    /\ GetChannel(s, Head(wire[s]).mChan).mValid

InSequence(s) == Head(wire[s]).mSeq = GetChannel(s, Head(wire[s]).mChan).mSeqPeer

\* assert(aPacket->mSeq == mSeqPeer)
OutOfSequence(s) ==
    /\ \E cmd \in {"OpenChan", "OpenChanReply", "Data"} : Routed(s, cmd)
    /\ ~ InSequence(s)
    /\ Halt(s, "mSeq")

HandleData_NotCounted(s) ==
    /\ Routed(s, "Data") /\ InSequence(s)
    /\ Head(wire[s]).mChan \in DOMAIN mChannels[s]
    /\ wire' = Taken(s)
    /\ UNCHANGED <<mControlChan, mChannels, mNextChanId, mWaitingPackets, halted,
                   nOpens, nSends, nFails, wrapped>>

\* No one sends Data on the control channel.
HandleData(s) ==
    /\ Routed(s, "Data") /\ InSequence(s)
    /\ Head(wire[s]).mChan \in DOMAIN mChannels[s]
    /\ mChannels' = [mChannels EXCEPT ![s][Head(wire[s]).mChan] = Received(@)]
    /\ wire' = Taken(s)
    /\ UNCHANGED <<mControlChan, mNextChanId, mWaitingPackets, halted,
                   nOpens, nSends, nFails, wrapped>>

RefuseOpen_NoReply(s) ==
    /\ Routed(s, "OpenChan") /\ InSequence(s)
    /\ \E sz \in Sizes : sz < 0
    /\ mControlChan' = [mControlChan EXCEPT ![s] = Received(@)]
    /\ wire' = Taken(s)
    /\ UNCHANGED <<mChannels, mNextChanId, mWaitingPackets, halted,
                   nOpens, nSends, nFails, wrapped>>

\* OnReceive of OpenChan when the listener refuses the path.
RefuseOpen(s) ==
    /\ Routed(s, "OpenChan") /\ InSequence(s)
    /\ \E sz \in Sizes : sz < 0
    /\ \E ok \in WriteOutcomes :
        LET p == Head(wire[s])
            ctl == Received(mControlChan[s]) IN
        /\ mControlChan' = [mControlChan EXCEPT ![s] = Sent(ctl, ok)]
        /\ wire' = DoSend(Taken(s), s, ReplyPkt(StampedSeq(ctl), p.mSeq, 1, 0, 0), ok)
        /\ CountFail(ok)
        /\ wrapped' = (wrapped \/ mControlChan'[s].mSeq = 0)
    /\ UNCHANGED <<mChannels, mNextChanId, mWaitingPackets, halted, nOpens, nSends>>

\* OnReceive of OpenChan when the listener accepts it: a channel under an id of
\* this side, and a reply that names it.
AcceptOpen(s) ==
    /\ Routed(s, "OpenChan") /\ InSequence(s)
    /\ \E sz \in Sizes, ok \in WriteOutcomes :
        LET p == Head(wire[s])
            ctl == Received(mControlChan[s])
            id == mNextChanId[s] IN
        /\ sz >= 0
        /\ mChannels' = [mChannels EXCEPT ![s] = With(@, id, NewChannel(sz))]
        /\ mNextChanId' = [mNextChanId EXCEPT ![s] = NextFreeId(mChannels'[s], id)]
        /\ mControlChan' = [mControlChan EXCEPT ![s] = Sent(ctl, ok)]
        /\ wire' = DoSend(Taken(s), s, ReplyPkt(StampedSeq(ctl), p.mSeq, 0, sz, id), ok)
        /\ CountFail(ok)
        /\ wrapped' = (wrapped \/ mControlChan'[s].mSeq = 0)
    /\ UNCHANGED <<mWaitingPackets, halted, nOpens, nSends>>

\* The first assertion of OnReceive that an OpenChanReply fails, or "no".
ReplyVerdict(s, p) ==
    IF HasChannel(s, p.mDataChan) THEN "GetChannel(mDataChan) == nullptr"
    ELSE IF p.mDataChan % 2 = s THEN "CHANNEL_MASK"
    ELSE IF p.mReqSeq \notin mWaitingPackets[s] THEN "mWaitingPackets"
    ELSE "no"

BadReply(s) ==
    /\ Routed(s, "OpenChanReply") /\ InSequence(s)
    /\ ReplyVerdict(s, Head(wire[s])) # "no"
    /\ Halt(s, ReplyVerdict(s, Head(wire[s])))

HandleReply_KeepsWaiting(s) ==
    /\ Routed(s, "OpenChanReply") /\ InSequence(s)
    /\ LET p == Head(wire[s]) IN
       /\ ReplyVerdict(s, p) = "no" /\ p.mErrno = 0
       /\ mChannels' = [mChannels EXCEPT ![s] = With(@, p.mDataChan, NewChannel(p.mDataSize))]
    /\ mControlChan' = [mControlChan EXCEPT ![s] = Received(@)]
    /\ wire' = Taken(s)
    /\ UNCHANGED <<mNextChanId, mWaitingPackets, halted, nOpens, nSends, nFails, wrapped>>

\* OnReceive of an OpenChanReply that passes the assertions.  Its mErrno is 0:
\* a refusal carries mDataChan 0 and never gets here.
HandleReply(s) ==
    /\ Routed(s, "OpenChanReply") /\ InSequence(s)
    /\ LET p == Head(wire[s]) IN
       /\ ReplyVerdict(s, p) = "no"
       /\ mWaitingPackets' = [mWaitingPackets EXCEPT ![s] = @ \ {p.mReqSeq}]
       /\ mChannels' = IF p.mErrno # 0 THEN mChannels
                       ELSE [mChannels EXCEPT ![s] = With(@, p.mDataChan, NewChannel(p.mDataSize))]
    /\ mControlChan' = [mControlChan EXCEPT ![s] = Received(@)]
    /\ wire' = Taken(s)
    /\ UNCHANGED <<mNextChanId, halted, nOpens, nSends, nFails, wrapped>>

Receive(s) ==
    \/ HandleClose(s) \/ HandleNak(s) \/ HandleStray(s) \/ OutOfSequence(s)
    \/ HandleData(s) \/ RefuseOpen(s) \/ AcceptOpen(s) \/ BadReply(s) \/ HandleReply(s)

Use(s) ==
    \/ Open(s)
    \/ \E c \in DOMAIN mChannels[s] : Write(s, c) \/ AskClose(s, c)

Next == \E s \in Side : Use(s) \/ Receive(s)

Spec == Init /\ [][Next]_vars

\* The transport of a side keeps calling ReceiveRaw while bytes arrive.
FairSpec == Spec /\ \A s \in Side : WF_vars(Receive(s))

-----------------------------------------------------------------------------
(* Properties.                                                             *)

Asserts == {"mSeq", "GetChannel(mDataChan) == nullptr", "CHANNEL_MASK", "mWaitingPackets",
            "delete of mControlChan"}

\* The type of every variable.
TypeOK ==
    /\ mControlChan \in [Side -> Channel]
    /\ DOMAIN mChannels = Side
    /\ \A s \in Side : /\ DOMAIN mChannels[s] \subseteq Nat
                       /\ mChannels[s] \in [DOMAIN mChannels[s] -> Channel]
    /\ mNextChanId \in [Side -> Nat]
    /\ mWaitingPackets \in [Side -> SUBSET SeqNo]
    /\ wire \in [Side -> Seq(MuxPacket)]
    /\ halted \in [Side -> Asserts \cup {"no"}]
    /\ nOpens \in [Side -> Nat] /\ nSends \in [Side -> Nat]
    /\ nFails \in Nat /\ wrapped \in BOOLEAN

\* An answer to Open never clashes with the channels its reader has: the id
\* carries the mark of the side that allocated it (CHANNEL_MASK) and is new to
\* the reader, unless the peer refused the open and so named channel 0; and the
\* control channel is torn down only after a write has failed.  This survives
\* wrapped sequence numbers.
OpenAssertionsHold ==
    \A s \in Side :
        /\ halted[s] # "CHANNEL_MASK"
        /\ halted[s] = "GetChannel(mDataChan) == nullptr" => \E sz \in Sizes : sz < 0
        /\ halted[s] = "delete of mControlChan" => nFails > 0

\* Until a sequence number wraps, every packet a valid channel gets carries the
\* number Channel::HandleIncomingPacket expects, and every reply that is taken
\* answers an Open that waits, whatever is opened, closed or fails to be sent.
SequenceHolds ==
    ~ wrapped => \A s \in Side : halted[s] \notin {"mSeq", "mWaitingPackets"}

\* When nothing is in flight and no write has failed, the two ends agree: the
\* same channels of the same size, every packet sent has been received, and no
\* open is left without an answer.  A close that crosses data, a close or an
\* open never leaves one end behind.
EndsAgree ==
    (\A s \in Side : Running(s) /\ wire[s] = <<>>) /\ nFails = 0 /\ ~ wrapped =>
        /\ mWaitingPackets = [s \in Side |-> {}]
        /\ DOMAIN mChannels[0] = DOMAIN mChannels[1]
        /\ \A c \in DOMAIN mChannels[0] \cup {0}, s \in Side :
            /\ GetChannel(s, c).mSize = GetChannel(Peer(s), c).mSize
            /\ GetChannel(s, c).mSeq = GetChannel(Peer(s), c).mSeqPeer

\* A Nak answers a packet sent to a channel its receiver had already given up.
\* It always arrives after the CloseChan that gave the channel up, so it never
\* tears a live channel down unless a write has failed: FIFO order, and no id is
\* handed out again.
NakHitsNoLiveChannel ==
    \A s \in Side :
        Running(s) /\ wire[s] # <<>> /\ nFails = 0 =>
            (Head(wire[s]).mCmd = "Nak" => ~ HasChannel(s, Head(wire[s]).mChan))

\* An Open that was sent gets its answer (a channel or an error), unless a side
\* stops or a write fails.
OpenAnswered ==
    \A s \in Side, n \in SeqNo :
        n \in mWaitingPackets[s] ~>
            \/ n \notin mWaitingPackets[s]
            \/ nFails > 0 \/ wrapped \/ \E t \in Side : ~ Running(t)

\* A channel closed at one end is eventually closed, or known to, the other:
\* with no failed write no end keeps a channel its peer has given up.
CloseReachesPeer ==
    \A s \in Side, c \in 4 .. (5 + 2 * (MaxOpens[0] + MaxOpens[1])) :
        c \in DOMAIN mChannels[s] /\ c \notin DOMAIN mChannels[Peer(s)] ~>
            \/ c \in DOMAIN mChannels[s] <=> c \in DOMAIN mChannels[Peer(s)]
            \/ nFails > 0 \/ wrapped \/ \E t \in Side : ~ Running(t)
=============================================================================
