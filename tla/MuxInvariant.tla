---------------------------- MODULE MuxInvariant ----------------------------
(***************************************************************************)
(* The inductive invariant behind the assertions of mux/mux.cpp.           *)
(*                                                                         *)
(* A channel compares every packet with the number it expects.  That the   *)
(* comparison succeeds depends on what is in flight: the packets of one    *)
(* channel carry the numbers from the receiver's mSeqPeer up to the        *)
(* sender's mSeq, in order and without a gap; a reply that creates the     *)
(* receiving end travels in front of the packets for it; and every reply   *)
(* names a request that is still waiting and an id its reader does not     *)
(* have.  None of this survives a wrapped sequence number.                 *)
(***************************************************************************)
EXTENDS Mux

\* The packets Channel::HandleIncomingPacket checks on channel c.
Numbered(p, c) == p.mChan = c /\ p.mCmd \in {"OpenChan", "OpenChanReply", "Data"}

\* A reply that will create channel c.
Creates(p, c) == p.mCmd = "OpenChanReply" /\ p.mErrno = 0 /\ p.mDataChan = c

Ordered(w, c) ==
    \A i, j \in 1 .. Len(w) :
        i < j /\ Numbered(w[i], c) /\ Numbered(w[j], c) => w[i].mSeq < w[j].mSeq

\* Some packet of channel c carries the number n.
Carried(w, c, n) == \E j \in 1 .. Len(w) : Numbered(w[j], c) /\ w[j].mSeq = n

\* No packet of c is older than lo and none before it is missing.
Covered(w, c, lo) ==
    \A i \in 1 .. Len(w) :
        Numbered(w[i], c) =>
            lo <= w[i].mSeq /\ \A n \in lo .. (w[i].mSeq - 1) : Carried(w, c, n)

Below(w, c, hi) == \A i \in 1 .. Len(w) : Numbered(w[i], c) => w[i].mSeq < hi

\* The packets of c carry exactly the numbers lo .. hi - 1.
Filled(w, c, lo, hi) == lo <= hi /\ \A n \in lo .. (hi - 1) : Carried(w, c, n)

-----------------------------------------------------------------------------
\* Id c has been handed out by the side whose parity it has.
HandedOut(next, c) == c >= 4 /\ \A u \in Side : c % 2 = u => c < next[u]

ChanIdsOK ==
    \A s \in Side :
        /\ mNextChanId[s] >= 4 /\ mNextChanId[s] % 2 = s
        /\ \A c \in DOMAIN mChannels[s] : HandedOut(mNextChanId, c)

\* What a packet on its way to side s may say.
PacketOK(next, fails, s, p) ==
    /\ p.mCmd \in {"OpenChan", "OpenChanReply"} => p.mChan = 0
    /\ p.mCmd \in {"Data", "CloseChan"} => HandedOut(next, p.mChan)
    /\ p.mCmd = "Nak" /\ p.mChan = 0 => fails > 0
    /\ p.mCmd = "OpenChanReply" =>
        \/ p.mErrno = 1 /\ p.mDataChan = 0 /\ \E sz \in Sizes : sz < 0
        \/ p.mErrno = 0 /\ HandedOut(next, p.mDataChan) /\ p.mDataChan % 2 = Peer(s)

PacketsOK ==
    \A s \in Side : \A i \in 1 .. Len(wire[s]) :
        PacketOK(mNextChanId, nFails, s, wire[s][i])

\* A control channel stays valid until a write fails.
ControlValid == \A s \in Side : mControlChan[s].mValid \/ nFails > 0

\* A reply creates a channel its reader does not have, and no two create the same.
Fresh(w, ids) ==
    \A i \in 1 .. Len(w) :
        Creates(w[i], w[i].mDataChan) =>
            /\ w[i].mDataChan \notin ids
            /\ \A j \in 1 .. Len(w) : Creates(w[j], w[i].mDataChan) => i = j

RepliesFresh == \A s \in Side : Fresh(wire[s], DOMAIN mChannels[s])

\* Every request in flight and every reply belongs to a waiting Open, and no
\* Open has two of them.
WaitingOK ==
    \A s \in Side :
        /\ \A n \in mWaitingPackets[s] : n < mControlChan[s].mSeq
        /\ \A i \in 1 .. Len(wire[Peer(s)]) :
            wire[Peer(s)][i].mCmd = "OpenChan" =>
                /\ wire[Peer(s)][i].mSeq \in mWaitingPackets[s]
                /\ \A j \in 1 .. Len(wire[s]) :
                    wire[s][j].mCmd = "OpenChanReply" =>
                        wire[s][j].mReqSeq # wire[Peer(s)][i].mSeq
        /\ \A i \in 1 .. Len(wire[s]) :
            wire[s][i].mCmd = "OpenChanReply" =>
                /\ wire[s][i].mReqSeq \in mWaitingPackets[s]
                /\ \A j \in 1 .. Len(wire[s]) :
                    wire[s][j].mCmd = "OpenChanReply" /\ i # j =>
                        wire[s][j].mReqSeq # wire[s][i].mReqSeq

CountersOK ==
    \A s \in Side :
        /\ mControlChan[s].mSeq >= 1 /\ mControlChan[s].mSeqPeer >= 1
        /\ \A c \in DOMAIN mChannels[s] : mChannels[s][c].mSeq >= 1 /\ mChannels[s][c].mSeqPeer >= 1
        /\ \A i \in 1 .. Len(wire[s]) :
            wire[s][i].mCmd \in {"OpenChan", "OpenChanReply", "Data"} =>
                wire[s][i].mSeq >= 1 /\ wire[s][i].mSeq + 1 < SeqMod

\* The control packets in flight to side s.
ControlStream(s) ==
    LET w == wire[s]  snd == mControlChan[Peer(s)]  rcv == mControlChan[s] IN
    /\ Ordered(w, 0) /\ Below(w, 0, snd.mSeq)
    /\ rcv.mValid => Covered(w, 0, rcv.mSeqPeer)
    /\ rcv.mValid /\ snd.mValid => Filled(w, 0, rcv.mSeqPeer, snd.mSeq)

\* Side s handles, or will handle, what arrives on channel c.
Promised(s, c) == \E i \in 1 .. Len(wire[s]) : Creates(wire[s][i], c)
Listens(s, c) ==
    \/ c \in DOMAIN mChannels[s] /\ mChannels[s][c].mValid
    \/ Promised(s, c)
Expected(s, c) == IF c \in DOMAIN mChannels[s] THEN mChannels[s][c].mSeqPeer ELSE first_seq
Speaks(s, c) == c \in DOMAIN mChannels[s] /\ mChannels[s][c].mValid

\* The packets of data channel c in flight to side s.
DataStream(s, c) ==
    LET w == wire[s]  o == Peer(s) IN
    /\ Ordered(w, c)
    /\ Listens(s, c) => Covered(w, c, Expected(s, c))
    /\ Speaks(o, c) => Below(w, c, mChannels[o][c].mSeq)
    /\ Listens(s, c) /\ Speaks(o, c) => Filled(w, c, Expected(s, c), mChannels[o][c].mSeq)

\* A reply that creates c travels in front of every packet of c, and nothing
\* has come back on c yet.
ReplyFirst(s, c) ==
    \A i \in 1 .. Len(wire[s]) : Creates(wire[s][i], c) =>
        /\ \A j \in 1 .. Len(wire[s]) : Numbered(wire[s][j], c) => i < j
        /\ \A j \in 1 .. Len(wire[Peer(s)]) : ~ Numbered(wire[Peer(s)][j], c)
        /\ c \in DOMAIN mChannels[Peer(s)] => mChannels[Peer(s)][c].mSeqPeer = first_seq

DataStreams(C) == \A s \in Side : \A c \in C : DataStream(s, c) /\ ReplyFirst(s, c)

\* The ids that occur in a state: the others have no packet and no channel.
Unwrapped(C) ==
    /\ WaitingOK /\ CountersOK
    /\ \A s \in Side : ControlStream(s)
    /\ DataStreams(C)

-----------------------------------------------------------------------------
(* Until a write fails: what each side knows of the channels of the other. *)

\* No channel has been marked invalid.
EndsValid ==
    \A s \in Side : mControlChan[s].mValid /\ \A c \in DOMAIN mChannels[s] : mChannels[s][c].mValid

\* Channel c is not one of s, and no reply on its way makes it one.
Gone(s, c) == c \notin DOMAIN mChannels[s] /\ ~ Promised(s, c)

Closes(p, c) == p.mCmd = "CloseChan" /\ p.mChan = c

\* A reply that creates a channel travels in front of every packet about it.
ReplyLeads ==
    \A s \in Side : \A i, j \in 1 .. Len(wire[s]) : Creates(wire[s][i], wire[s][j].mChan) => i < j

\* Who sends CloseChan has given the channel up.
CloseSent ==
    \A s \in Side : \A i \in 1 .. Len(wire[s]) :
        wire[s][i].mCmd = "CloseChan" => Gone(Peer(s), wire[s][i].mChan)

\* A channel one side has given up is gone at the other, or about to be closed.
Forgotten(C) ==
    \A s \in Side : \A c \in C :
        HandedOut(mNextChanId, c) /\ Gone(Peer(s), c) =>
            Gone(s, c) \/ \E j \in 1 .. Len(wire[s]) : Closes(wire[s][j], c)

\* A Nak finds its channel gone, or a CloseChan arrives in front of it.
NakLate ==
    \A s \in Side : \A i \in 1 .. Len(wire[s]) :
        wire[s][i].mCmd = "Nak" =>
            /\ HandedOut(mNextChanId, wire[s][i].mChan)
            /\ \/ Gone(s, wire[s][i].mChan)
               \/ \E j \in 1 .. Len(wire[s]) : j < i /\ Closes(wire[s][j], wire[s][i].mChan)

\* The two ends of a channel, and the reply that creates one, have one size.
SizesAgree ==
    \A s \in Side :
        /\ mControlChan[s].mSize = 0
        /\ \A c \in DOMAIN mChannels[s] \cap DOMAIN mChannels[Peer(s)] :
            mChannels[s][c].mSize = mChannels[Peer(s)][c].mSize
        /\ \A i \in 1 .. Len(wire[s]) : \A c \in DOMAIN mChannels[Peer(s)] :
            Creates(wire[s][i], c) => wire[s][i].mDataSize = mChannels[Peer(s)][c].mSize

\* Every waiting Open has its request or its reply in flight.
Answered(s) ==
    \A n \in mWaitingPackets[s] :
        \/ \E i \in 1 .. Len(wire[Peer(s)]) :
            wire[Peer(s)][i].mCmd = "OpenChan" /\ wire[Peer(s)][i].mSeq = n
        \/ \E i \in 1 .. Len(wire[s]) :
            wire[s][i].mCmd = "OpenChanReply" /\ wire[s][i].mReqSeq = n

Undisturbed(C) ==
    /\ EndsValid
    /\ ReplyLeads /\ CloseSent /\ Forgotten(C) /\ NakLate
    /\ SizesAgree
    /\ \A s \in Side : Answered(s)

-----------------------------------------------------------------------------
Ids == ChanIdsOK /\ PacketsOK /\ RepliesFresh /\ ControlValid
DataIds == {c \in Nat : c >= 4}

\* Inductive, wrapped or not.
IdInv == TypeOK /\ Ids /\ OpenAssertionsHold

\* Inductive until a number wraps.
Inv == IdInv /\ SequenceHolds /\ (~ wrapped => Unwrapped(DataIds))

\* Inductive until a write fails.
UndisturbedInv == Inv /\ (nFails = 0 => Undisturbed(DataIds))

\* What the proofs add to the assertions, for the ids that occur under the
\* bounds: ids, requests and sequence numbers in flight fit the state of the two
\* ends, a failed write or a close in the middle of a stream included; and until
\* a write fails no end keeps, unwarned, what its peer has given up.
BoundedInv ==
    LET C == 4 .. (5 + 2 * (MaxOpens[0] + MaxOpens[1])) IN
    /\ Ids
    /\ ~ wrapped => Unwrapped(C)
    /\ nFails = 0 => Undisturbed(C)
=============================================================================
