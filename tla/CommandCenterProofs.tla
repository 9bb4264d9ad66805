------------------------ MODULE CommandCenterProofs ------------------------
(***************************************************************************)
(* What the Carrier and its subjects keep, for every number of subjects,   *)
(* of calls and of signals: the answer in a channel is the one its subject *)
(* waits for, and no program runs without a scout (CommandCenter).         *)
(***************************************************************************)
EXTENDS CommandCenter, InductionFacts

-----------------------------------------------------------------------------
(* The inductive invariant.                                                *)

States == {"unborn", "user", "wait", "execing", "image", "vfork", "dead"}

Message == [cmd : Calls, pid : Subject]

\* What epoll_wait reported is still there when its turn comes: no one else
\* empties a socket of the Carrier.
BatchReady ==
    /\ CarrierSock \in batch => carrierq # <<>>
    /\ \A c \in Chan : c \in batch => req[c] # <<>>

Types ==
    /\ TypeOK /\ BatchReady
    /\ req \in [Chan -> Seq(Message)] /\ rep \in [Chan -> Seq(Message)]
    /\ sigchld \in [who : 0 .. N, status : 0 .. 255]
    /\ nCalls \in [Subject -> 0 .. MaxCalls] /\ nSignals \in 0 .. MaxSignals

\* A channel has one subject, and one that does not exist yet is empty.
ChannelsOwned ==
    /\ \A p \in Subject : chan[p] = 0 <=> st[p] \in {"unborn", "dead", "image"}
    /\ \A p, q \in Subject : chan[p] # 0 /\ chan[p] = chan[q] => p = q
    /\ \A c \in Chan : c > nChans => req[c] = <<>> /\ rep[c] = <<>>

Awaits(p, k) == st[p] = "wait" /\ call[p] = k

\* A request lies in the channel of its sender, or its sender is dead; one that is
\* to be answered is the last, and its sender waits.
RequestOK(c, i) ==
    LET m == req[c][i] IN
    /\ \A q \in Subject : chan[q] = c => q = m.pid
    /\ chan[m.pid] = c \/ st[m.pid] = "dead"
    /\ chan[m.pid] = c /\ m.cmd # "open" =>
        i = Len(req[c]) /\ rep[c] = <<>> /\ Awaits(m.pid, m.cmd)
Requests == \A c \in Chan : \A i \in 1 .. Len(req[c]) : RequestOK(c, i)

\* The answer to an execve() is sent to a subject the Carrier is attached to.
ReplyTraced ==
    \A p \in Subject :
        (chan[p] # 0 /\ rep[chan[p]] # <<>>) =>
            /\ call[p] # "open"
            /\ call[p] = "execve" /\ ~ CarrierGone => p \in traced

\* When a call has been answered every request before it has been taken.
Drained ==
    \A p \in Subject :
        (chan[p] # 0 /\ (rep[chan[p]] # <<>> \/ st[p] = "execing")) => req[chan[p]] = <<>>

\* handle_exec() works on a subject that waits for its answer and for nothing else.
Attaching ==
    (pc = "waitstop" /\ Alive(tracee)) =>
        /\ chan[tracee] = sock /\ Awaits(tracee, "execve")
        /\ req[sock] = <<>> /\ rep[sock] = <<>>

Pending(p) == st[p] \in {"wait", "execing", "image"}

\* The stops of a subject fit what it is doing.
Stopped(p) ==
    /\ st[p] = "execing" => p \in traced
    /\ st[p] = "image" => p \in traced /\ evt[p] = "exec"
    /\ evt[p] = "exec" => st[p] = "image"
    /\ evt[p] = "trap" => st[p] = "user"
    /\ evt[p] \in {"stopping", "stop", "signal"} => st[p] \in {"wait", "execing"}
    /\ p \in traced => Alive(p)
    /\ p \notin traced => evt[p] = "none"

Tracing ==
    /\ \A p \in Subject : Pending(p) => nCalls[p] >= 1
    /\ pc = "takeoff" => st[tracee] \in {"image", "dead"}
    /\ InExec => st[tracee] # "unborn"
    /\ InExec /\ Alive(tracee) => tracee \in traced
    /\ ~ CarrierGone => \A p \in Subject : Stopped(p)

\* The channels subject p has made so far, at most: one at its birth, one for every
\* execve() that is over.
Made(p) ==
    (IF st[p] # "unborn" THEN 1 ELSE 0) + nCalls[p] - (IF Pending(p) THEN 1 ELSE 0)
Mades == [p \in Subject |-> Made(p)]

ChansCounted == nChans <= SumTo(Mades, N)

CarrierInv ==
    /\ Types /\ ChannelsOwned /\ Requests /\ PrivateReply /\ ReplyTraced
    /\ Drained /\ Attaching /\ Tracing /\ ChansCounted

-----------------------------------------------------------------------------
(* Facts the steps share.                                                  *)

\* What a subject makes never gets less, and a new channel is made by one that
\* has made fewer before.
LEMMA ChansStay ==
    ASSUME Mades \in [Subject -> Int], Mades' \in [Subject -> Int], ChansCounted,
           \A p \in Subject : Made(p) <= Made(p)', nChans \in Int,
           \/ nChans' = nChans
           \/ nChans' = nChans + 1 /\ \E p \in Subject : Made(p) < Made(p)'
    PROVE  ChansCounted'
<1>1. N \in Nat /\ Subject = 1 .. N
  BY CarrierAssumption DEF Subject
<1>2. \A p \in Subject : Mades[p] = Made(p) /\ Mades'[p] = Made(p)'
  BY DEF Mades
<1> DEFINE f == Mades
           g == Mades'
<1> HIDE DEF f, g
<1>3. /\ f \in [1 .. N -> Int] /\ g \in [1 .. N -> Int]
      /\ \A i \in 1 .. N : f[i] <= g[i]
      /\ nChans' = nChans \/ (nChans' = nChans + 1 /\ \E i \in 1 .. N : f[i] < g[i])
  BY <1>1, <1>2 DEF f, g
<1>4. /\ SumTo(f, N) \in Int /\ SumTo(g, N) \in Int
      /\ SumTo(f, N) <= SumTo(g, N)
      /\ (\E i \in 1 .. N : f[i] < g[i]) => SumTo(f, N) < SumTo(g, N)
  BY <1>1, <1>3, SumToGrows
<1>5. nChans <= SumTo(f, N)
  BY DEF ChansCounted, f
<1>6. nChans' <= SumTo(g, N)
  BY <1>3, <1>4, <1>5
<1>. QED  BY <1>6 DEF ChansCounted, g

\* There is a channel for each of them.
LEMMA ChansEnoughNext ==
    ASSUME Mades' \in [Subject -> Int], \A p \in Subject : Made(p)' <= 1 + MaxCalls,
           ChansCounted', nChans' \in Int
    PROVE  nChans' <= MaxChans
<1>1. N \in Nat /\ MaxCalls \in Nat /\ Subject = 1 .. N
  BY CarrierAssumption DEF Subject
<1> DEFINE g == Mades'
<1>2. \A i \in 1 .. N : g[i] <= 1 + MaxCalls
  BY <1>1 DEF Mades
<1> HIDE DEF g
<1>4. SumTo(g, N) \in Int /\ SumTo(g, N) <= N * (1 + MaxCalls)
  <2>1. g \in [1 .. N -> Int] /\ 1 + MaxCalls \in Nat
    BY <1>1 DEF g
  <2>. QED  BY <1>1, <1>2, <2>1, SumToBounded
<1>3. N * (1 + MaxCalls) = N + N * MaxCalls /\ N * MaxCalls \in Nat
  BY <1>1
<1>. QED  BY <1>1, <1>3, <1>4 DEF ChansCounted, MaxChans, g

LEMMA TailFacts ==
    ASSUME NEW T, NEW s \in Seq(T), s # <<>>
    PROVE  /\ Head(s) = s[1] /\ Head(s) \in T /\ Tail(s) \in Seq(T) /\ Len(Tail(s)) = Len(s) - 1
           /\ Len(s) \in Nat \ {0}
           /\ \A i \in 1 .. Len(Tail(s)) : Tail(s)[i] = s[i + 1]
OBVIOUS

LEMMA AppendFacts ==
    ASSUME NEW T, NEW s \in Seq(T), NEW x \in T
    PROVE  /\ Append(s, x) \in Seq(T) /\ Len(Append(s, x)) = Len(s) + 1 /\ Append(s, x) # <<>>
           /\ Len(s) \in Nat
           /\ \A i \in 1 .. Len(s) : Append(s, x)[i] = s[i]
           /\ Append(s, x)[Len(s) + 1] = x
OBVIOUS

LEMMA ChanFacts ==
    ASSUME Types
    PROVE  /\ nChans \in Nat /\ Chan \subseteq Nat \ {0} /\ 1 .. nChans \subseteq Chan
           /\ \A p \in Subject : chan[p] \in Nat /\ chan[p] <= nChans
           /\ \A p \in Subject : chan[p] # 0 => chan[p] \in Chan
<1>1. MaxChans \in Nat
  BY CarrierAssumption DEF MaxChans
<1>2. nChans \in 1 .. MaxChans /\ chan \in [Subject -> 0 .. nChans]
  BY DEF Types, TypeOK, Chan
<1>3. ASSUME NEW p \in Subject PROVE chan[p] \in 0 .. nChans
  BY <1>2
<1>. QED  BY <1>1, <1>2, <1>3 DEF Chan

LEMMA InvParts ==
    CarrierInv => /\ Types /\ TypeOK /\ BatchReady /\ ChannelsOwned /\ Requests /\ PrivateReply
                  /\ ReplyTraced /\ Drained /\ Attaching /\ Tracing /\ ChansCounted
BY DEF CarrierInv, Types

\* The queues and the states of the subjects, as the steps use them.
LEMMA Maps ==
    ASSUME Types
    PROVE  /\ st \in [Subject -> States]
           /\ evt \in [Subject -> {"none", "stopping", "stop", "signal", "exec", "trap"}]
           /\ call \in [Subject -> {"none", "file", "open", "execve"}]
           /\ chan \in [Subject -> 0 .. nChans]
           /\ req \in [Chan -> Seq(Message)] /\ rep \in [Chan -> Seq(Message)]
           /\ nCalls \in [Subject -> 0 .. MaxCalls]
           /\ tracee \in Subject /\ sock \in Chan /\ traced \subseteq Subject
<1>1. sock \in 1 .. nChans
  BY DEF Types, TypeOK
<1>. QED  BY <1>1, ChanFacts DEF Types, TypeOK, States

LEMMA MadeType ==
    ASSUME st \in [Subject -> States], nCalls \in [Subject -> 0 .. MaxCalls]
    PROVE  Mades \in [Subject -> Int] /\ \A p \in Subject : Made(p) \in Int /\ Made(p) <= 1 + MaxCalls
BY CarrierAssumption DEF Mades, Made

LEMMA MadeTypeNext ==
    ASSUME st' \in [Subject -> States], nCalls' \in [Subject -> 0 .. MaxCalls]
    PROVE  Mades' \in [Subject -> Int] /\ \A p \in Subject : Made(p)' \in Int /\ Made(p)' <= 1 + MaxCalls
BY CarrierAssumption DEF Mades, Made

LEMMA ChansKept ==
    ASSUME Types, ChansCounted, st' \in [Subject -> States], nCalls' \in [Subject -> 0 .. MaxCalls],
           \A p \in Subject : Made(p) <= Made(p)',
           \/ nChans' = nChans
           \/ nChans' = nChans + 1 /\ \E p \in Subject : Made(p) < Made(p)'
    PROVE  ChansCounted' /\ nChans' \in Chan
<1>1. Mades \in [Subject -> Int]
  BY MadeType, Maps
<1>2. Mades' \in [Subject -> Int] /\ \A p \in Subject : Made(p)' <= 1 + MaxCalls
  BY MadeTypeNext
<1>3. nChans \in Nat \ {0}
  BY ChanFacts DEF Types, TypeOK
<1>4. ChansCounted'
  BY <1>1, <1>2, <1>3, ChansStay
<1>5. nChans' <= MaxChans
  <2>1. nChans' \in Int
    BY <1>3
  <2>. QED  BY <1>2, <1>4, <2>1, ChansEnoughNext
<1>. QED  BY <1>3, <1>4, <1>5, CarrierAssumption DEF Chan, MaxChans

-----------------------------------------------------------------------------
(* The steps of a subject.                                                 *)

LEMMA TakeReplyKeeps == ASSUME CarrierInv, NEW p \in Subject, TakeReply(p) PROVE CarrierInv'
<1> DEFINE x == IF call[p] = "execve" THEN "execing" ELSE "user"
<1>1. /\ Types /\ TypeOK /\ BatchReady /\ ChannelsOwned /\ Requests /\ PrivateReply
      /\ ReplyTraced /\ Drained /\ Attaching /\ Tracing /\ ChansCounted
  BY InvParts
<1>2. /\ st[p] = "wait" /\ evt[p] = "none" /\ rep[chan[p]] # <<>>
      /\ st' = [st EXCEPT ![p] = x]
      /\ rep' = [rep EXCEPT ![chan[p]] = Tail(rep[chan[p]])]
      /\ UNCHANGED <<evt, call, chan, parent, fate, req, carrierq, nChans, pc, batch, scoutfds, tracee,
                      sock, traced, sigchld_ignore, stopping_message, exitval, sigchld, nCalls, nSignals>>
  BY DEF TakeReply, Runs, control, bounds
<1>3. chan[p] # 0 /\ chan[p] \in Chan
  BY <1>1, <1>2, ChanFacts DEF ChannelsOwned
<1>4. Tail(rep[chan[p]]) = <<>>
  <2>1. rep[chan[p]] = <<[cmd |-> call[p], pid |-> p]>>
    BY <1>1, <1>2, <1>3 DEF PrivateReply
  <2>. QED  BY <2>1
<1>5. /\ \A q \in Subject : st'[q] = IF q = p THEN x ELSE st[q]
      /\ \A c \in Chan : rep'[c] = IF c = chan[p] THEN <<>> ELSE rep[c]
  BY <1>1, <1>2, <1>4, Maps
<1>6. Types'
  <2>1. st' \in [Subject -> States]
    BY <1>1, <1>2, Maps DEF States
  <2>2. rep' \in [Chan -> Seq(Message)] /\ DOMAIN rep' = Chan
    <3>1. rep' = [rep EXCEPT ![chan[p]] = <<>>]
      BY <1>2, <1>4
    <3>2. <<>> \in Seq(Message)
      OBVIOUS
    <3>. QED  BY <1>1, <3>1, <3>2, Maps
  <2>. QED  BY <1>1, <1>2, <2>1, <2>2 DEF Types, TypeOK, BatchReady, States
<1>7. ChannelsOwned'
  BY <1>1, <1>2, <1>5 DEF ChannelsOwned
<1>8. Requests'
  BY <1>1, <1>2, <1>3, <1>5 DEF Requests, RequestOK, Awaits
<1>9. PrivateReply' /\ ReplyTraced'
  <2>1. \A q \in Subject : q # p => chan[q] # chan[p]
    BY <1>1, <1>3 DEF ChannelsOwned
  <2>2. \A q \in Subject : chan[q] # 0 => chan[q] \in Chan
    BY <1>1, ChanFacts
  <2>3. \A q \in Subject : chan[q] # 0 /\ rep'[chan[q]] # <<>> => q # p /\ rep'[chan[q]] = rep[chan[q]]
    BY <1>5, <2>1, <2>2
  <2>. QED  BY <1>1, <1>2, <1>5, <2>3 DEF PrivateReply, ReplyTraced, CarrierGone
<1>10. Attaching'
  BY <1>1, <1>2, <1>3, <1>5, Maps DEF Attaching, Alive, Awaits
<1>11. Tracing'
  BY <1>1, <1>2, <1>3, <1>5, Maps DEF Tracing, Stopped, Alive, Pending, CarrierGone, InExec, ReplyTraced
<1>12. ChansCounted'
  <2>1. \A q \in Subject : Made(q) <= Made(q)'
    BY <1>1, <1>2, <1>5, Maps DEF Made, Pending
  <2>2. st' \in [Subject -> States] /\ nCalls' \in [Subject -> 0 .. MaxCalls]
    BY <1>6, Maps DEF Types, TypeOK, States
  <2>. QED  BY <1>1, <1>2, <2>1, <2>2, ChansKept
<1>13. Drained'
  BY <1>1, <1>2, <1>3, <1>5, ChanFacts DEF Drained
<1>. QED  BY <1>6, <1>7, <1>8, <1>9, <1>10, <1>11, <1>12, <1>13 DEF CarrierInv

LEMMA PostType ==
    ASSUME Types, NEW p \in Subject, NEW status \in 0 .. 255, Post(p, status)
    PROVE  sigchld' \in [who : 0 .. N, status : 0 .. 255]
<1>1. p \in 0 .. N
  BY CarrierAssumption DEF Subject
<1>. QED  BY <1>1 DEF Types, Post

\* Queues, calls and states stay as they are.
LEMMA QuietKeeps ==
    ASSUME CarrierInv, UNCHANGED <<st, call, chan, req, rep, nChans, nCalls>>
    PROVE  ChannelsOwned' /\ Requests' /\ PrivateReply' /\ Drained' /\ ChansCounted'
<1>1. ChannelsOwned /\ Requests /\ PrivateReply /\ Drained /\ ChansCounted
  BY InvParts
<1>2. ChannelsOwned' /\ PrivateReply' /\ Drained'
  BY <1>1 DEF ChannelsOwned, PrivateReply, Drained
<1>3. Requests'
  BY <1>1 DEF Requests, RequestOK, Awaits
<1>4. Mades' = Mades
  BY DEF Mades, Made, Pending
<1>. QED  BY <1>1, <1>2, <1>3, <1>4 DEF ChansCounted

LEMMA AttachStopKeeps == ASSUME CarrierInv, NEW p \in Subject, AttachStop(p) PROVE CarrierInv'
<1>1. /\ Types /\ TypeOK /\ BatchReady /\ ChannelsOwned /\ Requests /\ PrivateReply
      /\ ReplyTraced /\ Drained /\ Attaching /\ Tracing /\ ChansCounted
  BY InvParts
<1>2. /\ Alive(p) /\ evt[p] = "stopping" /\ Post(p, SIGSTOP)
      /\ evt' = [evt EXCEPT ![p] = "stop"]
      /\ UNCHANGED <<st, call, chan, parent, fate, req, rep, carrierq, nChans, pc, batch,
                      scoutfds, tracee, sock, traced, sigchld_ignore, stopping_message, exitval,
                      nCalls, nSignals>>
  BY DEF AttachStop, sockets, control, bounds
<1>3. ChannelsOwned' /\ Requests' /\ PrivateReply' /\ Drained' /\ ChansCounted'
  BY <1>2, QuietKeeps
<1>4. Types'
  <2>1. evt' \in [Subject -> {"none", "stopping", "stop", "signal", "exec", "trap"}]
    BY <1>1, <1>2, Maps
  <2>2. sigchld' \in [who : 0 .. N, status : 0 .. 255]
    <3>1. SIGSTOP \in 0 .. 255
      BY DEF SIGSTOP
    <3>. QED  BY <1>1, <1>2, <3>1, PostType
  <2>. QED  BY <1>1, <1>2, <2>1, <2>2 DEF Types, TypeOK, BatchReady
<1>5. ReplyTraced'
  BY <1>1, <1>2 DEF ReplyTraced, CarrierGone
<1>6. Attaching'
  BY <1>1, <1>2 DEF Attaching, Alive, Awaits
<1>7. Tracing'
  BY <1>1, <1>2, Maps DEF Tracing, Stopped, Alive, Pending, CarrierGone, InExec
<1>. QED  BY <1>3, <1>4, <1>5, <1>6, <1>7 DEF CarrierInv

LEMMA OtherSignalKeeps == ASSUME CarrierInv, NEW p \in Subject, OtherSignal(p) PROVE CarrierInv'
<1>1. /\ Types /\ TypeOK /\ BatchReady /\ ChannelsOwned /\ Requests /\ PrivateReply
      /\ ReplyTraced /\ Drained /\ Attaching /\ Tracing /\ ChansCounted
  BY InvParts
<1>2. /\ p \in traced /\ st[p] \in {"wait", "execing"} /\ Post(p, SIGALRM)
      /\ nSignals < MaxSignals /\ nSignals' = nSignals + 1
      /\ evt' = [evt EXCEPT ![p] = "signal"]
      /\ UNCHANGED <<st, call, chan, parent, fate, req, rep, carrierq, nChans, pc, batch,
                      scoutfds, tracee, sock, traced, sigchld_ignore, stopping_message, exitval,
                      nCalls>>
  BY DEF OtherSignal, sockets, control, bounds
<1>3. ChannelsOwned' /\ Requests' /\ PrivateReply' /\ Drained' /\ ChansCounted'
  BY <1>2, QuietKeeps
<1>4. Types'
  <2>1. evt' \in [Subject -> {"none", "stopping", "stop", "signal", "exec", "trap"}]
    BY <1>1, <1>2, Maps
  <2>2. sigchld' \in [who : 0 .. N, status : 0 .. 255]
    <3>1. SIGALRM \in 0 .. 255
      BY DEF SIGALRM
    <3>. QED  BY <1>1, <1>2, <3>1, PostType
  <2>3. nSignals' \in 0 .. MaxSignals
    BY <1>1, <1>2, CarrierAssumption DEF Types
  <2>. QED  BY <1>1, <1>2, <2>1, <2>2, <2>3 DEF Types, TypeOK, BatchReady
<1>5. ReplyTraced'
  BY <1>1, <1>2 DEF ReplyTraced, CarrierGone
<1>6. Attaching'
  BY <1>1, <1>2 DEF Attaching, Alive, Awaits
<1>7. Tracing'
  BY <1>1, <1>2, Maps DEF Tracing, Stopped, Alive, Pending, CarrierGone, InExec
<1>. QED  BY <1>3, <1>4, <1>5, <1>6, <1>7 DEF CarrierInv

LEMMA SigactionKeeps == ASSUME CarrierInv, Sigaction PROVE CarrierInv'
<1>1. /\ Types /\ TypeOK /\ BatchReady /\ ChannelsOwned /\ Requests /\ PrivateReply
      /\ ReplyTraced /\ Drained /\ Attaching /\ Tracing /\ ChansCounted
  BY InvParts
<1>2. /\ pc = "sigaction" /\ pc' = "waitpid"
      /\ UNCHANGED <<st, evt, call, chan, parent, fate, req, rep, carrierq, nChans, batch,
                      scoutfds, tracee, sock, traced, sigchld_ignore, stopping_message, exitval,
                      sigchld, nCalls, nSignals>>
  BY DEF Sigaction, At, subjects, sockets, bounds
<1>3. ChannelsOwned' /\ Requests' /\ PrivateReply' /\ Drained' /\ ChansCounted'
  BY <1>2, QuietKeeps
<1>4. Types'
  BY <1>1, <1>2 DEF Types, TypeOK, BatchReady
<1>5. ReplyTraced'
  BY <1>1, <1>2 DEF ReplyTraced, CarrierGone
<1>6. Attaching'
  BY <1>1, <1>2 DEF Attaching, Alive, Awaits
<1>7. Tracing'
  BY <1>1, <1>2, Maps DEF Tracing, Stopped, Alive, Pending, CarrierGone, InExec
<1>. QED  BY <1>3, <1>4, <1>5, <1>6, <1>7 DEF CarrierInv

LEMMA CheckKeeps == ASSUME CarrierInv, Check PROVE CarrierInv'
<1>1. /\ Types /\ TypeOK /\ BatchReady /\ ChannelsOwned /\ Requests /\ PrivateReply
      /\ ReplyTraced /\ Drained /\ Attaching /\ Tracing /\ ChansCounted
  BY InvParts
<1>2. /\ pc = "waitpid" /\ pc' \in {"done", "loop"}
      /\ UNCHANGED <<st, evt, call, chan, parent, fate, req, rep, carrierq, nChans, batch,
                      scoutfds, tracee, sock, traced, sigchld_ignore, stopping_message, exitval,
                      sigchld, nCalls, nSignals>>
  BY DEF Check, At, subjects, sockets, bounds
<1>3. ChannelsOwned' /\ Requests' /\ PrivateReply' /\ Drained' /\ ChansCounted'
  BY <1>2, QuietKeeps
<1>4. Types'
  BY <1>1, <1>2 DEF Types, TypeOK, BatchReady
<1>5. ReplyTraced'
  BY <1>1, <1>2 DEF ReplyTraced, CarrierGone
<1>6. Attaching'
  BY <1>1, <1>2 DEF Attaching, Alive, Awaits
<1>7. Tracing'
  BY <1>1, <1>2, Maps DEF Tracing, Stopped, Alive, Pending, CarrierGone, InExec
<1>. QED  BY <1>3, <1>4, <1>5, <1>6, <1>7 DEF CarrierInv

LEMMA EpollWaitKeeps == ASSUME CarrierInv, EpollWait PROVE CarrierInv'
<1>1. /\ Types /\ TypeOK /\ BatchReady /\ ChannelsOwned /\ Requests /\ PrivateReply
      /\ ReplyTraced /\ Drained /\ Attaching /\ Tracing /\ ChansCounted
  BY InvParts
<1>2. /\ batch' = Ready
      /\ UNCHANGED <<st, evt, call, chan, parent, fate, req, rep, carrierq, nChans, pc,
                      scoutfds, tracee, sock, traced, sigchld_ignore, stopping_message, exitval,
                      sigchld, nCalls, nSignals>>
  BY DEF EpollWait, subjects, sockets, bounds
<1>3. ChannelsOwned' /\ Requests' /\ PrivateReply' /\ Drained' /\ ChansCounted'
  BY <1>2, QuietKeeps
<1>4. Types'
  <2>1. batch' \subseteq scoutfds \cup {CarrierSock} /\ BatchReady'
    <3>1. \A c \in Chan : c # CarrierSock
      BY <1>1, ChanFacts DEF CarrierSock
    <3>2. batch' \subseteq scoutfds \cup {CarrierSock}
      BY <1>2 DEF Ready
    <3>3. CarrierSock \in batch' => carrierq # <<>>
      <4>1. CarrierSock \notin scoutfds
        BY <1>1 DEF TypeOK, CarrierSock
      <4>. QED  BY <1>2, <4>1 DEF Ready
    <3>4. \A c \in Chan : c \in batch' => req[c] # <<>>
      BY <1>2, <3>1 DEF Ready
    <3>. QED  BY <1>2, <3>2, <3>3, <3>4 DEF BatchReady
  <2>. QED  BY <1>1, <1>2, <2>1 DEF Types, TypeOK
<1>5. ReplyTraced'
  BY <1>1, <1>2 DEF ReplyTraced, CarrierGone
<1>6. Attaching'
  BY <1>1, <1>2 DEF Attaching, Alive, Awaits
<1>7. Tracing'
  BY <1>1, <1>2, Maps DEF Tracing, Stopped, Alive, Pending, CarrierGone, InExec
<1>. QED  BY <1>3, <1>4, <1>5, <1>6, <1>7 DEF CarrierInv

LEMMA LoopEndsKeeps == ASSUME CarrierInv, LoopEnds PROVE CarrierInv'
<1>1. /\ Types /\ TypeOK /\ BatchReady /\ ChannelsOwned /\ Requests /\ PrivateReply
      /\ ReplyTraced /\ Drained /\ Attaching /\ Tracing /\ ChansCounted
  BY InvParts
<1>2. /\ pc' = "done" /\ stopping_message' = FALSE
      /\ traced' = {} /\ evt' = [p \in Subject |-> "none"]
      /\ UNCHANGED <<st, call, chan, parent, fate, req, rep, carrierq, nChans, batch, scoutfds,
                      tracee, sock, sigchld_ignore, exitval, sigchld, nCalls, nSignals>>
  BY DEF LoopEnds, sockets, bounds
<1>3. ChannelsOwned' /\ Requests' /\ PrivateReply' /\ Drained' /\ ChansCounted'
  BY <1>2, QuietKeeps
<1>4. Types'
  <2>1. evt' \in [Subject -> {"none", "stopping", "stop", "signal", "exec", "trap"}]
    BY <1>2
  <2>. QED  BY <1>1, <1>2, <2>1 DEF Types, TypeOK, BatchReady
<1>5. ReplyTraced'
  BY <1>1, <1>2 DEF ReplyTraced, CarrierGone
<1>6. Attaching'
  BY <1>1, <1>2 DEF Attaching, Alive, Awaits
<1>7. Tracing'
  BY <1>1, <1>2, Maps DEF Tracing, Stopped, Alive, Pending, CarrierGone, InExec
<1>. QED  BY <1>3, <1>4, <1>5, <1>6, <1>7 DEF CarrierInv

LEMMA HandleCarrierMsgKeeps == ASSUME CarrierInv, HandleCarrierMsg PROVE CarrierInv'
<1>1. /\ Types /\ TypeOK /\ BatchReady /\ ChannelsOwned /\ Requests /\ PrivateReply
      /\ ReplyTraced /\ Drained /\ Attaching /\ Tracing /\ ChansCounted
  BY InvParts
<1>2. /\ CarrierSock \in batch /\ batch' = batch \ {CarrierSock}
      /\ carrierq' = Tail(carrierq)
      /\ stopping_message' \in {stopping_message, TRUE}
      /\ scoutfds' = scoutfds \/ (Head(carrierq) # STOP /\ scoutfds' = scoutfds \cup {Head(carrierq)})
      /\ UNCHANGED <<st, evt, call, chan, parent, fate, req, rep, nChans, pc, tracee, sock,
                      traced, sigchld_ignore, exitval, sigchld, nCalls, nSignals>>
  BY DEF HandleCarrierMsg, add_scout, subjects, bounds
<1>3. ChannelsOwned' /\ Requests' /\ PrivateReply' /\ Drained' /\ ChansCounted'
  BY <1>2, QuietKeeps
<1>4. Types'
  <2>1. carrierq \in Seq(0 .. nChans) /\ carrierq # <<>>
    BY <1>1, <1>2 DEF TypeOK, BatchReady
  <2>2. Head(carrierq) \in 0 .. nChans /\ Tail(carrierq) \in Seq(0 .. nChans)
    BY <2>1, TailFacts
  <2>3. scoutfds' \subseteq 1 .. nChans /\ batch' \subseteq scoutfds' \cup {CarrierSock}
    <3>1. scoutfds \subseteq 1 .. nChans /\ batch \subseteq scoutfds \cup {CarrierSock} /\ nChans \in Nat
      BY <1>1, ChanFacts DEF TypeOK
    <3>2. Head(carrierq) # STOP => Head(carrierq) \in 1 .. nChans
      BY <2>2, <3>1 DEF STOP
    <3>. QED  BY <1>2, <3>1, <3>2
  <2>4. BatchReady'
    BY <1>1, <1>2 DEF BatchReady
  <2>. QED  BY <1>1, <1>2, <2>2, <2>3, <2>4 DEF Types, TypeOK
<1>5. ReplyTraced'
  BY <1>1, <1>2 DEF ReplyTraced, CarrierGone
<1>6. Attaching'
  BY <1>1, <1>2 DEF Attaching, Alive, Awaits
<1>7. Tracing'
  BY <1>1, <1>2, Maps DEF Tracing, Stopped, Alive, Pending, CarrierGone, InExec
<1>. QED  BY <1>3, <1>4, <1>5, <1>6, <1>7 DEF CarrierInv

LEMMA ExecSeenKeeps == ASSUME CarrierInv, ExecSeen PROVE CarrierInv'
<1>1. /\ Types /\ TypeOK /\ BatchReady /\ ChannelsOwned /\ Requests /\ PrivateReply
      /\ ReplyTraced /\ Drained /\ Attaching /\ Tracing /\ ChansCounted
  BY InvParts
<1>2. /\ pc = "waittrap" /\ evt[tracee] = "exec" /\ pc' = "takeoff"
      /\ UNCHANGED <<st, evt, call, chan, parent, fate, req, rep, carrierq, nChans, batch,
                      scoutfds, tracee, sock, traced, sigchld_ignore, stopping_message, exitval,
                      sigchld, nCalls, nSignals>>
  BY DEF ExecSeen, At, subjects, sockets, bounds
<1>3. ChannelsOwned' /\ Requests' /\ PrivateReply' /\ Drained' /\ ChansCounted'
  BY <1>2, QuietKeeps
<1>4. Types'
  BY <1>1, <1>2 DEF Types, TypeOK, BatchReady
<1>5. ReplyTraced'
  BY <1>1, <1>2 DEF ReplyTraced, CarrierGone
<1>6. Attaching'
  BY <1>1, <1>2 DEF Attaching, Alive, Awaits
<1>7. Tracing'
  BY <1>1, <1>2, Maps DEF Tracing, Stopped, Alive, Pending, CarrierGone, InExec
<1>. QED  BY <1>3, <1>4, <1>5, <1>6, <1>7 DEF CarrierInv

LEMMA ExecFailedKeeps == ASSUME CarrierInv, ExecFailed PROVE CarrierInv'
<1>1. /\ Types /\ TypeOK /\ BatchReady /\ ChannelsOwned /\ Requests /\ PrivateReply
      /\ ReplyTraced /\ Drained /\ Attaching /\ Tracing /\ ChansCounted
  BY InvParts
<1>2. /\ pc = "waittrap" /\ pc' = "loop" /\ evt[tracee] = "trap"
      /\ sigchld_ignore' = FALSE
      /\ traced' = traced \ {tracee}
      /\ evt' = [evt EXCEPT ![tracee] = "none"]
      /\ UNCHANGED <<st, call, chan, parent, fate, req, rep, carrierq, nChans, batch, scoutfds,
                      tracee, sock, stopping_message, exitval, sigchld, nCalls, nSignals>>
  BY DEF ExecFailed, At, Detach, sockets, bounds
<1>3. ChannelsOwned' /\ Requests' /\ PrivateReply' /\ Drained' /\ ChansCounted'
  BY <1>2, QuietKeeps
<1>4. Types'
  <2>1. evt' \in [Subject -> {"none", "stopping", "stop", "signal", "exec", "trap"}]
    BY <1>1, <1>2, Maps
  <2>. QED  BY <1>1, <1>2, <2>1 DEF Types, TypeOK, BatchReady
<1>5. ReplyTraced'
  <2>1. st[tracee] = "user"
    BY <1>1, <1>2, Maps DEF Tracing, Stopped, CarrierGone
  <2>. QED  BY <1>1, <1>2, <2>1 DEF ReplyTraced, CarrierGone, PrivateReply
<1>6. Attaching'
  BY <1>1, <1>2 DEF Attaching, Alive, Awaits
<1>7. Tracing'
  BY <1>1, <1>2, Maps DEF Tracing, Stopped, Alive, Pending, CarrierGone, InExec
<1>. QED  BY <1>3, <1>4, <1>5, <1>6, <1>7 DEF CarrierInv

LEMMA AbandonKeeps == ASSUME CarrierInv, Abandon PROVE CarrierInv'
<1>1. /\ Types /\ TypeOK /\ BatchReady /\ ChannelsOwned /\ Requests /\ PrivateReply
      /\ ReplyTraced /\ Drained /\ Attaching /\ Tracing /\ ChansCounted
  BY InvParts
<1>2. /\ pc \in {"waitstop", "waittrap", "takeoff"} /\ pc' = "loop"
      /\ sigchld_ignore' = FALSE
      /\ UNCHANGED <<st, evt, call, chan, parent, fate, req, rep, carrierq, nChans, batch,
                      scoutfds, tracee, sock, traced, stopping_message, exitval, sigchld, nCalls,
                      nSignals>>
  BY DEF Abandon, At, subjects, sockets, bounds
<1>3. ChannelsOwned' /\ Requests' /\ PrivateReply' /\ Drained' /\ ChansCounted'
  BY <1>2, QuietKeeps
<1>4. Types'
  BY <1>1, <1>2 DEF Types, TypeOK, BatchReady
<1>5. ReplyTraced'
  BY <1>1, <1>2 DEF ReplyTraced, CarrierGone
<1>6. Attaching'
  BY <1>1, <1>2 DEF Attaching, Alive, Awaits
<1>7. Tracing'
  BY <1>1, <1>2, Maps DEF Tracing, Stopped, Alive, Pending, CarrierGone, InExec
<1>. QED  BY <1>3, <1>4, <1>5, <1>6, <1>7 DEF CarrierInv

LEMMA SigchldHandlerKeeps == ASSUME CarrierInv, SigchldHandler PROVE CarrierInv'
<1>1. /\ Types /\ TypeOK /\ BatchReady /\ ChannelsOwned /\ Requests /\ PrivateReply
      /\ ReplyTraced /\ Drained /\ Attaching /\ Tracing /\ ChansCounted
  BY InvParts
<1>2. /\ pc # "done" /\ pc' \in {pc, "blocked", "loop"} /\ sigchld' = NoSignal
      /\ carrierq' \in {carrierq, Append(carrierq, STOP)}
      /\ exitval' \in {exitval, WEXITSTATUS(sigchld.status)}
      /\ sigchld_ignore' \in {sigchld_ignore, FALSE}
      /\ UNCHANGED <<st, evt, call, chan, parent, fate, req, rep, nChans, batch, scoutfds,
                      tracee, sock, traced, stopping_message, nCalls, nSignals>>
  BY DEF SigchldHandler, subjects, bounds
<1>3. ChannelsOwned' /\ Requests' /\ PrivateReply' /\ Drained' /\ ChansCounted'
  BY <1>2, QuietKeeps
<1>4. Types'
  <2>1. carrierq \in Seq(0 .. nChans) /\ STOP \in 0 .. nChans
    BY <1>1, ChanFacts DEF TypeOK, STOP
  <2>2. carrierq' \in Seq(0 .. nChans) /\ (carrierq # <<>> => carrierq' # <<>>)
    <3>1. Append(carrierq, STOP) \in Seq(0 .. nChans) /\ Append(carrierq, STOP) # <<>>
      BY <2>1, AppendFacts
    <3>. QED  BY <1>2, <2>1, <3>1
  <2>3. exitval' \in 0 .. 255
    <3>0. sigchld \in [who : 0 .. N, status : 0 .. 255]
      BY <1>1 DEF Types
    <3>1. sigchld.status \in Nat
      BY <3>0
    <3>2. WEXITSTATUS(sigchld.status) \in 0 .. 255
      BY <3>1 DEF WEXITSTATUS
    <3>. QED  BY <1>1, <1>2, <3>2 DEF TypeOK
  <2>4. sigchld' \in [who : 0 .. N, status : 0 .. 255]
    BY <1>2, CarrierAssumption DEF NoSignal
  <2>. QED  BY <1>1, <1>2, <2>2, <2>3, <2>4 DEF Types, TypeOK, BatchReady
<1>5. ReplyTraced'
  BY <1>1, <1>2 DEF ReplyTraced, CarrierGone
<1>6. Attaching'
  BY <1>1, <1>2 DEF Attaching, Alive, Awaits
<1>7. Tracing'
  BY <1>1, <1>2, Maps DEF Tracing, Stopped, Alive, Pending, CarrierGone, InExec
<1>. QED  BY <1>3, <1>4, <1>5, <1>6, <1>7 DEF CarrierInv

LEMMA CallKeeps == ASSUME CarrierInv, NEW p \in Subject, NEW k \in Calls, Call(p, k) PROVE CarrierInv'
<1> DEFINE x == IF k = "open" THEN "user" ELSE "wait"
           msg == [cmd |-> k, pid |-> p]
           c == chan[p]
<1>1. /\ Types /\ TypeOK /\ BatchReady /\ ChannelsOwned /\ Requests /\ PrivateReply
      /\ ReplyTraced /\ Drained /\ Attaching /\ Tracing /\ ChansCounted
  BY InvParts
<1>2. /\ st[p] = "user" /\ evt[p] = "none" /\ nCalls[p] < MaxCalls
      /\ CarrierGone \/ Len(req[c]) < QLen
      /\ req' = IF CarrierGone THEN req ELSE [req EXCEPT ![c] = Append(req[c], msg)]
      /\ st' = [st EXCEPT ![p] = x]
      /\ call' = [call EXCEPT ![p] = k]
      /\ nCalls' = [nCalls EXCEPT ![p] = nCalls[p] + 1]
      /\ UNCHANGED <<evt, chan, parent, fate, rep, carrierq, nChans, pc, batch, scoutfds, tracee,
                      sock, traced, sigchld_ignore, stopping_message, exitval, sigchld, nSignals>>
  BY DEF Call, Runs, control, send_msg
<1>3. c # 0 /\ c \in Chan /\ \A q \in Subject : chan[q] # 0 => chan[q] \in Chan
  BY <1>1, <1>2, ChanFacts DEF ChannelsOwned
<1>4. rep[c] = <<>> /\ \A q \in Subject : q # p => chan[q] # c
  BY <1>1, <1>2, <1>3 DEF PrivateReply, ChannelsOwned
<1>5. /\ \A q \in Subject : st'[q] = IF q = p THEN x ELSE st[q]
      /\ \A q \in Subject : call'[q] = IF q = p THEN k ELSE call[q]
      /\ \A q \in Subject : nCalls'[q] = IF q = p THEN nCalls[q] + 1 ELSE nCalls[q]
      /\ \A d \in Chan : req'[d] = IF d = c /\ ~ CarrierGone THEN Append(req[c], msg) ELSE req[d]
  BY <1>1, <1>2, Maps
<1>6. msg \in Message /\ req[c] \in Seq(Message)
  BY <1>1, <1>3, Maps DEF Message
<1>7. /\ Append(req[c], msg) \in Seq(Message) /\ Len(Append(req[c], msg)) = Len(req[c]) + 1
      /\ Append(req[c], msg) # <<>> /\ Len(req[c]) \in Nat
      /\ \A i \in 1 .. Len(req[c]) : Append(req[c], msg)[i] = req[c][i]
      /\ Append(req[c], msg)[Len(req[c]) + 1] = msg
  BY <1>6, AppendFacts
<1> HIDE DEF c, msg
<1>8. Types'
  <2>1. st' \in [Subject -> States] /\ call' \in [Subject -> {"none", "file", "open", "execve"}]
    BY <1>1, <1>2, Maps DEF States, Calls
  <2>2. nCalls' \in [Subject -> 0 .. MaxCalls]
    <3>1. nCalls[p] \in Nat /\ nCalls[p] + 1 \in 0 .. MaxCalls
      BY <1>1, <1>2, Maps, CarrierAssumption
    <3>. QED  BY <1>1, <1>2, <3>1, Maps
  <2>3. req' \in [Chan -> Seq(Message)] /\ DOMAIN req' = Chan
    BY <1>1, <1>2, <1>7, Maps
  <2>4. \A d \in Chan : Len(req'[d]) <= QLen /\ (req[d] # <<>> => req'[d] # <<>>)
    <3>1. \A d \in Chan : Len(req[d]) <= QLen
      BY <1>1 DEF TypeOK
    <3>. QED  BY <1>2, <1>5, <1>7, <3>1, CarrierAssumption
  <2>. QED  BY <1>1, <1>2, <2>1, <2>2, <2>3, <2>4 DEF Types, TypeOK, BatchReady, States
<1>9. ChannelsOwned'
  <2>1. \A d \in Chan : d > nChans => d # c
    BY <1>1, ChanFacts DEF c
  <2>. QED  BY <1>1, <1>2, <1>5, <2>1 DEF ChannelsOwned
<1>10. Requests'
  <2> SUFFICES ASSUME NEW d \in Chan, NEW i \in 1 .. Len(req'[d])
               PROVE  RequestOK(d, i)'
    BY DEF Requests
  <2>1. CASE d = c /\ ~ CarrierGone /\ i = Len(req[c]) + 1
    BY <1>2, <1>3, <1>4, <1>5, <1>7, <2>1 DEF RequestOK, Awaits, c, msg
  <2>2. CASE ~ (d = c /\ ~ CarrierGone /\ i = Len(req[c]) + 1)
    <3>1. i \in 1 .. Len(req[d]) /\ req'[d][i] = req[d][i]
      <4>1. CASE d = c /\ ~ CarrierGone
        <5>1. req'[d] = Append(req[c], msg)
          BY <1>5, <4>1
        <5>2. i \in 1 .. Len(req[c])
          BY <1>7, <2>2, <4>1, <5>1
        <5>. QED  BY <1>7, <4>1, <5>1, <5>2
      <4>2. CASE ~ (d = c /\ ~ CarrierGone)
        BY <1>5, <4>2
      <4>. QED  BY <4>1, <4>2
    <3>2. RequestOK(d, i)
      BY <1>1, <3>1 DEF Requests
    <3>3. req[d][i].pid = p /\ chan[p] = d => req[d][i].cmd = "open"
      BY <1>2, <3>2 DEF RequestOK, Awaits
    <3>4. req[d][i].pid \in Subject
      <4>1. req[d] \in Seq(Message)
        BY <1>1, Maps
      <4>2. req[d][i] \in Message
        BY <3>1, <4>1
      <4>. QED  BY <4>2 DEF Message
    <3>. QED  BY <1>2, <1>3, <1>4, <1>5, <3>1, <3>2, <3>3, <3>4 DEF RequestOK, Awaits, c
  <2>. QED  BY <2>1, <2>2
<1>11. PrivateReply' /\ ReplyTraced'
  BY <1>1, <1>2, <1>4, <1>5 DEF PrivateReply, ReplyTraced, CarrierGone, c
<1>12. Drained'
  BY <1>1, <1>2, <1>3, <1>4, <1>5 DEF Drained, c
<1>13. Attaching'
  BY <1>1, <1>2, <1>3, <1>4, <1>5, Maps DEF Attaching, Alive, Awaits, c
<1>14. Tracing'
  <2>1. nCalls[p] \in Nat
    BY <1>1, Maps
  <2>. QED  BY <1>1, <1>2, <1>5, <2>1, Maps DEF Tracing, Stopped, Alive, Pending, CarrierGone, InExec
<1>15. ChansCounted'
  <2>1. \A q \in Subject : nCalls[q] \in Nat
    BY <1>1, Maps
  <2>2. \A q \in Subject : Made(q) <= Made(q)'
    BY <1>2, <1>5, <2>1 DEF Made, Pending
  <2>3. st' \in [Subject -> States] /\ nCalls' \in [Subject -> 0 .. MaxCalls]
    BY <1>8, Maps DEF Types, TypeOK, States
  <2>. QED  BY <1>1, <1>2, <2>2, <2>3, ChansKept
<1>. QED  BY <1>8, <1>9, <1>10, <1>11, <1>12, <1>13, <1>14, <1>15 DEF CarrierInv

LEMMA RequestTypes ==
    ASSUME Types, NEW c \in Chan, NEW i \in 1 .. Len(req[c])
    PROVE  req[c][i].pid \in Subject /\ req[c][i].cmd \in Calls
<1>1. req[c] \in Seq(Message)
  BY Maps
<1>2. req[c][i] \in Message
  BY <1>1
<1>. QED  BY <1>2 DEF Message

\* A subject leaves its channel: execve() closes it, or the subject dies.
LEMMA LeaveKeeps ==
    ASSUME CarrierInv, NEW p \in Subject, NEW x \in {"image", "dead"}, Alive(p),
           x = "image" => st[p] = "execing",
           st' = Resumed(p, [st EXCEPT ![p] = x]), chan' = [chan EXCEPT ![p] = 0],
           UNCHANGED <<call, req, rep, nChans, nCalls>>
    PROVE  /\ ChannelsOwned' /\ Requests' /\ PrivateReply' /\ Drained' /\ ChansCounted'
           /\ st' \in [Subject -> States]
           /\ \A q \in Subject : /\ st'[q] = x \/ q # p
                                 /\ q # p => st'[q] = st[q] \/ (st[q] = "vfork" /\ st'[q] = "user")
                                 /\ chan'[q] = IF q = p THEN 0 ELSE chan[q]
<1>1. /\ Types /\ TypeOK /\ BatchReady /\ ChannelsOwned /\ Requests /\ PrivateReply
      /\ ReplyTraced /\ Drained /\ Attaching /\ Tracing /\ ChansCounted
  BY InvParts
<1>2. \A q \in Subject : chan'[q] = IF q = p THEN 0 ELSE chan[q]
  BY <1>1, Maps
<1>3. st' \in [Subject -> States]
  BY <1>1, Maps DEF Resumed, States
<1>4. \A q \in Subject : /\ q = p => st'[q] = x
                         /\ q # p => st'[q] = st[q] \/ (st[q] = "vfork" /\ st'[q] = "user")
  BY <1>1, Maps DEF Resumed
<1>5. ChannelsOwned'
  <2>1. \A q \in Subject : chan'[q] = 0 <=> st'[q] \in {"unborn", "dead", "image"}
    <3> TAKE q \in Subject
    <3>1. CASE q = p
      BY <1>2, <1>4, <3>1
    <3>2. CASE q # p
      BY <1>1, <1>2, <1>4, <3>2 DEF ChannelsOwned
    <3>. QED  BY <3>1, <3>2
  <2>2. \A q, r \in Subject : chan'[q] # 0 /\ chan'[q] = chan'[r] => q = r
    BY <1>1, <1>2 DEF ChannelsOwned
  <2>. QED  BY <1>1, <2>1, <2>2 DEF ChannelsOwned
<1>6. Requests'
  <2> SUFFICES ASSUME NEW c \in Chan, NEW i \in 1 .. Len(req[c])
               PROVE  RequestOK(c, i)'
    BY DEF Requests
  <2>1. RequestOK(c, i)
    BY <1>1 DEF Requests
  <2> DEFINE m == req[c][i]
  <2>2. m.pid \in Subject
    BY <1>1, RequestTypes
  <2>3. c # 0
    BY <1>1, ChanFacts
  <2>4. CASE m.pid = p
    <3>1. chan[p] = c
      BY <2>1, <2>4 DEF RequestOK, Alive
    <3>2. req[c] # <<>>
      OBVIOUS
    <3>3. x = "dead"
      BY <1>1, <2>3, <3>1, <3>2 DEF Drained
    <3>4. \A q \in Subject : chan'[q] # c
      BY <1>1, <1>2, <2>3, <3>1 DEF ChannelsOwned
    <3>. QED  BY <1>4, <2>4, <3>3, <3>4 DEF RequestOK
  <2>5. CASE m.pid # p
    <3>1. \A q \in Subject : chan'[q] = c => chan[q] = c
      BY <1>2, <2>3
    <3>. QED  BY <1>2, <1>4, <2>1, <2>2, <2>5, <3>1 DEF RequestOK, Awaits
  <2>. QED  BY <2>4, <2>5
<1>7. PrivateReply' /\ Drained'
  <2>1. \A q \in Subject : chan'[q] # 0 => q # p /\ chan'[q] = chan[q]
    BY <1>2
  <2>2. PrivateReply'
    BY <1>1, <1>4, <2>1 DEF PrivateReply
  <2>3. Drained'
    <3>1. \A q \in Subject : q # p /\ st'[q] = "execing" => st[q] = "execing"
      BY <1>4
    <3>. QED  BY <1>1, <2>1, <3>1 DEF Drained
  <2>. QED  BY <2>2, <2>3
<1>8. ChansCounted'
  <2>1. \A q \in Subject : nCalls[q] \in Nat
    BY <1>1, Maps
  <2>2. \A q \in Subject : Made(q) <= Made(q)'
    <3> TAKE q \in Subject
    <3>1. st'[q] = "unborn" <=> st[q] = "unborn"
      BY <1>4 DEF Alive
    <3>2. Pending(q)' => Pending(q)
      BY <1>4 DEF Pending
    <3>. QED  BY <2>1, <3>1, <3>2 DEF Made
  <2>3. nCalls' \in [Subject -> 0 .. MaxCalls]
    BY <1>1, Maps
  <2>. QED  BY <1>1, <1>3, <2>2, <2>3, ChansKept
<1>. QED  BY <1>2, <1>3, <1>4, <1>5, <1>6, <1>7, <1>8

LEMMA ExecveSucceedsKeeps == ASSUME CarrierInv, NEW p \in Subject, ExecveSucceeds(p) PROVE CarrierInv'
<1>1. /\ Types /\ TypeOK /\ BatchReady /\ ChannelsOwned /\ Requests /\ PrivateReply
      /\ ReplyTraced /\ Drained /\ Attaching /\ Tracing /\ ChansCounted
  BY InvParts
<1>2. /\ st[p] = "execing" /\ evt[p] = "none" /\ Alive(p)
      /\ st' = Resumed(p, [st EXCEPT ![p] = "image"])
      /\ evt' = [evt EXCEPT ![p] = IF p \in traced THEN "exec" ELSE "none"]
      /\ chan' = [chan EXCEPT ![p] = 0]
      /\ parent' = [parent EXCEPT ![p] = 0]
      /\ Post(p, SIGTRAP) \/ sigchld' = sigchld
      /\ UNCHANGED <<call, fate, req, rep, carrierq, nChans, pc, batch, scoutfds, tracee, sock,
                      traced, sigchld_ignore, stopping_message, exitval, nCalls, nSignals>>
  BY DEF ExecveSucceeds, Runs, sockets, control, bounds
<1>3. /\ ChannelsOwned' /\ Requests' /\ PrivateReply' /\ Drained' /\ ChansCounted'
      /\ st' \in [Subject -> States]
      /\ \A q \in Subject : /\ st'[q] = "image" \/ q # p
                            /\ q # p => st'[q] = st[q] \/ (st[q] = "vfork" /\ st'[q] = "user")
                            /\ chan'[q] = IF q = p THEN 0 ELSE chan[q]
  BY <1>2, LeaveKeeps
<1>4. \A q \in Subject : evt'[q] = IF q # p THEN evt[q] ELSE IF p \in traced THEN "exec" ELSE "none"
  BY <1>1, <1>2, Maps
<1>5. Types'
  <2>1. evt' \in [Subject -> {"none", "stopping", "stop", "signal", "exec", "trap"}]
    BY <1>1, <1>2, Maps
  <2>2. sigchld' \in [who : 0 .. N, status : 0 .. 255]
    <3>1. SIGTRAP \in 0 .. 255
      BY DEF SIGTRAP
    <3>2. sigchld \in [who : 0 .. N, status : 0 .. 255]
      BY <1>1 DEF Types
    <3>. QED  BY <1>1, <1>2, <3>1, <3>2, PostType
  <2>3. chan' \in [Subject -> 0 .. nChans] /\ parent' \in [Subject -> 0 .. N]
    <3>1. 0 \in 0 .. nChans /\ 0 \in 0 .. N
      BY <1>1, ChanFacts, CarrierAssumption
    <3>2. parent \in [Subject -> 0 .. N] /\ chan \in [Subject -> 0 .. nChans]
      BY <1>1 DEF TypeOK
    <3>. QED  BY <1>2, <3>1, <3>2
  <2>. QED  BY <1>1, <1>2, <1>3, <2>1, <2>2, <2>3 DEF Types, TypeOK, BatchReady, States
<1>6. ReplyTraced'
  BY <1>1, <1>2, <1>3 DEF ReplyTraced, CarrierGone
<1>7. Attaching'
  BY <1>1, <1>2, <1>3, Maps DEF Attaching, Alive, Awaits
<1>8. Tracing'
  <2>1. \A q \in Subject : Pending(q)' => Pending(q)
    BY <1>2, <1>3 DEF Pending
  <2>2. pc = "takeoff" => st'[tracee] \in {"image", "dead"}
    BY <1>1, <1>3, Maps DEF Tracing
  <2>3. InExec /\ Alive(tracee)' => tracee \in traced'
    <3>1. Alive(tracee)' => Alive(tracee)
      BY <1>1, <1>2, <1>3, Maps DEF Alive
    <3>. QED  BY <1>1, <1>2, <1>3, <3>1, Maps DEF Tracing, Alive
  <2>4. ASSUME ~ CarrierGone, NEW q \in Subject PROVE Stopped(q)'
    <3>1. Stopped(q) /\ Stopped(p)
      BY <1>1, <2>4 DEF Tracing
    <3>2. CASE q = p
      <4>1. p \in traced
        BY <1>2, <3>1 DEF Stopped
      <4>2. st'[q] = "image" /\ evt'[q] = "exec" /\ q \in traced'
        BY <1>2, <1>3, <1>4, <3>2, <4>1
      <4>. QED  BY <4>2 DEF Stopped, Alive
    <3>3. CASE q # p
      BY <1>2, <1>3, <1>4, <3>1, <3>3 DEF Stopped, Alive
    <3>. QED  BY <3>2, <3>3
  <2>5. InExec => st'[tracee] # "unborn"
    BY <1>1, <1>3, Maps DEF Tracing
  <2>. QED  BY <1>1, <1>2, <2>1, <2>2, <2>3, <2>4, <2>5 DEF Tracing, CarrierGone, InExec
<1>. QED  BY <1>3, <1>5, <1>6, <1>7, <1>8 DEF CarrierInv

LEMMA DieKeeps ==
    ASSUME CarrierInv, NEW p \in Subject, NEW status \in 0 .. 255, NEW how \in {"exited", "killed"},
           Alive(p), Die(p, status, how)
    PROVE  CarrierInv'
<1>1. /\ Types /\ TypeOK /\ BatchReady /\ ChannelsOwned /\ Requests /\ PrivateReply
      /\ ReplyTraced /\ Drained /\ Attaching /\ Tracing /\ ChansCounted
  BY InvParts
<1>2. /\ st' = Resumed(p, [st EXCEPT ![p] = "dead"])
      /\ evt' = [evt EXCEPT ![p] = "none"]
      /\ chan' = [chan EXCEPT ![p] = 0]
      /\ parent' = [parent EXCEPT ![p] = 0]
      /\ fate' \in {fate, how} /\ traced' = traced \ {p} /\ Post(p, status)
      /\ UNCHANGED <<call, req, rep, carrierq, nChans, pc, batch, scoutfds, tracee, sock,
                      sigchld_ignore, stopping_message, exitval, nCalls, nSignals>>
  BY DEF Die, sockets, bounds
<1>3. /\ ChannelsOwned' /\ Requests' /\ PrivateReply' /\ Drained' /\ ChansCounted'
      /\ st' \in [Subject -> States]
      /\ \A q \in Subject : /\ st'[q] = "dead" \/ q # p
                            /\ q # p => st'[q] = st[q] \/ (st[q] = "vfork" /\ st'[q] = "user")
                            /\ chan'[q] = IF q = p THEN 0 ELSE chan[q]
  BY <1>2, LeaveKeeps
<1>4. \A q \in Subject : evt'[q] = IF q # p THEN evt[q] ELSE "none"
  BY <1>1, <1>2, Maps
<1>5. Types'
  <2>1. evt' \in [Subject -> {"none", "stopping", "stop", "signal", "exec", "trap"}]
    BY <1>1, <1>2, Maps
  <2>2. sigchld' \in [who : 0 .. N, status : 0 .. 255]
    BY <1>1, <1>2, PostType
  <2>3. chan' \in [Subject -> 0 .. nChans] /\ parent' \in [Subject -> 0 .. N]
    <3>1. 0 \in 0 .. nChans /\ 0 \in 0 .. N
      BY <1>1, ChanFacts, CarrierAssumption
    <3>2. parent \in [Subject -> 0 .. N] /\ chan \in [Subject -> 0 .. nChans]
      BY <1>1 DEF TypeOK
    <3>. QED  BY <1>2, <3>1, <3>2
  <2>4. fate' \in {"alive", "exited", "killed"} /\ traced' \subseteq Subject
    BY <1>1, <1>2 DEF TypeOK
  <2>. QED  BY <1>1, <1>2, <1>3, <2>1, <2>2, <2>3, <2>4 DEF Types, TypeOK, BatchReady, States
<1>6. ReplyTraced'
  BY <1>1, <1>2, <1>3 DEF ReplyTraced, CarrierGone
<1>7. Attaching'
  BY <1>1, <1>2, <1>3, Maps DEF Attaching, Alive, Awaits
<1>8. Tracing'
  <2>1. \A q \in Subject : Pending(q)' => Pending(q)
    BY <1>2, <1>3 DEF Pending
  <2>2. pc = "takeoff" => st'[tracee] \in {"image", "dead"}
    BY <1>1, <1>3, Maps DEF Tracing
  <2>3. InExec /\ Alive(tracee)' => tracee \in traced'
    <3>1. Alive(tracee)' => Alive(tracee)
      BY <1>1, <1>2, <1>3, Maps DEF Alive
    <3>. QED  BY <1>1, <1>2, <1>3, <3>1, Maps DEF Tracing, Alive
  <2>4. ASSUME ~ CarrierGone, NEW q \in Subject PROVE Stopped(q)'
    <3>1. Stopped(q) /\ Stopped(p)
      BY <1>1, <2>4 DEF Tracing
    <3>2. CASE q = p
      <4>1. st'[q] = "dead" /\ evt'[q] = "none" /\ q \notin traced'
        BY <1>2, <1>3, <1>4, <3>2
      <4>. QED  BY <4>1 DEF Stopped, Alive
    <3>3. CASE q # p
      BY <1>2, <1>3, <1>4, <3>1, <3>3 DEF Stopped, Alive
    <3>. QED  BY <3>2, <3>3
  <2>5. InExec => st'[tracee] # "unborn"
    BY <1>1, <1>3, Maps DEF Tracing
  <2>. QED  BY <1>1, <1>2, <2>1, <2>2, <2>3, <2>4, <2>5 DEF Tracing, CarrierGone, InExec
<1>. QED  BY <1>3, <1>5, <1>6, <1>7, <1>8 DEF CarrierInv

LEMMA ExecveFailsKeeps == ASSUME CarrierInv, NEW p \in Subject, ExecveFails(p) PROVE CarrierInv'
<1>1. /\ Types /\ TypeOK /\ BatchReady /\ ChannelsOwned /\ Requests /\ PrivateReply
      /\ ReplyTraced /\ Drained /\ Attaching /\ Tracing /\ ChansCounted
  BY InvParts
<1>2. st[p] = "execing" /\ evt[p] = "none" /\ Alive(p)
  BY DEF ExecveFails, Runs
<1>3. CASE Die(p, SIGTRAP, "killed")
  <2>1. SIGTRAP \in 0 .. 255
    BY DEF SIGTRAP
  <2>. QED  BY <1>2, <1>3, <2>1, DieKeeps
<1>4. CASE ~ Die(p, SIGTRAP, "killed")
  <2>1. /\ p \in traced
        /\ st' = [st EXCEPT ![p] = "user"]
        /\ evt' = [evt EXCEPT ![p] = "trap"]
        /\ Post(p, SIGTRAP)
        /\ UNCHANGED <<call, chan, parent, fate, req, rep, carrierq, nChans, pc, batch, scoutfds,
                        tracee, sock, traced, sigchld_ignore, stopping_message, exitval, nCalls,
                        nSignals>>
    BY <1>4 DEF ExecveFails, sockets, control, bounds
  <2>2. /\ \A q \in Subject : st'[q] = IF q = p THEN "user" ELSE st[q]
        /\ \A q \in Subject : evt'[q] = IF q = p THEN "trap" ELSE evt[q]
    BY <1>1, <2>1, Maps
  <2>3. chan[p] # 0 /\ chan[p] \in Chan /\ req[chan[p]] = <<>>
    BY <1>1, <1>2, ChanFacts DEF ChannelsOwned, Drained
  <2>4. st' \in [Subject -> States] /\ nCalls' \in [Subject -> 0 .. MaxCalls]
    BY <1>1, <2>1, Maps DEF States
  <2>5. Types'
    <3>1. evt' \in [Subject -> {"none", "stopping", "stop", "signal", "exec", "trap"}]
      BY <1>1, <2>1, Maps
    <3>2. sigchld' \in [who : 0 .. N, status : 0 .. 255]
      <4>1. SIGTRAP \in 0 .. 255
        BY DEF SIGTRAP
      <4>. QED  BY <1>1, <2>1, <4>1, PostType
    <3>. QED  BY <1>1, <2>1, <2>4, <3>1, <3>2 DEF Types, TypeOK, BatchReady, States
  <2>6. ChannelsOwned' /\ PrivateReply' /\ ReplyTraced' /\ Drained'
    BY <1>1, <1>2, <2>1, <2>2 DEF ChannelsOwned, PrivateReply, ReplyTraced, Drained, CarrierGone
  <2>7. Requests'
    BY <1>1, <1>2, <2>1, <2>2, <2>3, RequestTypes DEF Requests, RequestOK, Awaits
  <2>8. Attaching'
    BY <1>1, <1>2, <2>1, <2>2, Maps DEF Attaching, Alive, Awaits
  <2>9. Tracing'
    BY <1>1, <1>2, <2>1, <2>2, Maps DEF Tracing, Stopped, Alive, Pending, CarrierGone, InExec
  <2>10. ChansCounted'
    <3>1. \A q \in Subject : nCalls[q] \in Nat
      BY <1>1, Maps
    <3>2. \A q \in Subject : Made(q) <= Made(q)'
      BY <1>2, <2>1, <2>2, <3>1 DEF Made, Pending
    <3>. QED  BY <1>1, <2>1, <2>4, <3>2, ChansKept
  <2>. QED  BY <2>5, <2>6, <2>7, <2>8, <2>9, <2>10 DEF CarrierInv
<1>. QED  BY <1>3, <1>4

\* A scout makes a channel for a subject that has none.
LEMMA NewChannelKeeps ==
    ASSUME CarrierInv, NEW q \in Subject, st[q] \in {"unborn", "image"}, nChans + 1 \in Chan,
           chan' = [chan EXCEPT ![q] = nChans + 1], nChans' = nChans + 1,
           UNCHANGED <<call, req, rep>>,
           \A r \in Subject : /\ r = q => st'[r] = "user"
                              /\ r # q => st'[r] = st[r] \/ (st[r] = "user" /\ st'[r] = "vfork")
    PROVE  /\ ChannelsOwned' /\ Requests' /\ PrivateReply' /\ Drained'
           /\ chan' \in [Subject -> 0 .. nChans']
           /\ \A r \in Subject : chan'[r] = IF r = q THEN nChans + 1 ELSE chan[r]
           /\ req[nChans + 1] = <<>> /\ rep[nChans + 1] = <<>>
<1>1. /\ Types /\ TypeOK /\ BatchReady /\ ChannelsOwned /\ Requests /\ PrivateReply
      /\ ReplyTraced /\ Drained /\ Attaching /\ Tracing /\ ChansCounted
  BY InvParts
<1>2. \A r \in Subject : chan'[r] = IF r = q THEN nChans + 1 ELSE chan[r]
  BY <1>1, Maps
<1>3. nChans \in Nat /\ \A r \in Subject : chan[r] \in Nat /\ chan[r] <= nChans
  BY <1>1, ChanFacts
<1>4. chan' \in [Subject -> 0 .. nChans']
  <2>1. DOMAIN chan' = Subject /\ chan' = [r \in Subject |-> chan'[r]]
    BY <1>1, Maps
  <2>2. \A r \in Subject : chan'[r] \in 0 .. nChans'
    BY <1>2, <1>3
  <2>. QED  BY <2>1, <2>2
<1>5. req[nChans + 1] = <<>> /\ rep[nChans + 1] = <<>>
  BY <1>1, <1>3 DEF ChannelsOwned
<1>6. ChannelsOwned'
  <2>1. \A r \in Subject : chan'[r] = 0 <=> st'[r] \in {"unborn", "dead", "image"}
    BY <1>1, <1>2, <1>3 DEF ChannelsOwned
  <2>2. \A r, s \in Subject : chan'[r] # 0 /\ chan'[r] = chan'[s] => r = s
    BY <1>1, <1>2, <1>3 DEF ChannelsOwned
  <2>3. \A c \in Chan : c > nChans' => req'[c] = <<>> /\ rep'[c] = <<>>
    <3>1. Chan \subseteq Nat
      BY <1>1, ChanFacts
    <3>. QED  BY <1>1, <1>3, <3>1 DEF ChannelsOwned
  <2>. QED  BY <2>1, <2>2, <2>3 DEF ChannelsOwned
<1>7. Requests'
  <2> SUFFICES ASSUME NEW c \in Chan, NEW i \in 1 .. Len(req[c])
               PROVE  RequestOK(c, i)'
    BY DEF Requests
  <2>1. RequestOK(c, i)
    BY <1>1 DEF Requests
  <2> DEFINE m == req[c][i]
  <2>2. m.pid \in Subject /\ c # 0
    BY <1>1, RequestTypes, ChanFacts
  <2>3. c # nChans + 1
    BY <1>5
  <2>4. m.pid # q
    <3>1. chan[q] = 0 /\ st[q] # "dead"
      BY <1>1 DEF ChannelsOwned
    <3>. QED  BY <2>1, <2>2, <3>1 DEF RequestOK
  <2>5. \A r \in Subject : chan'[r] = c => chan[r] = c
    BY <1>2, <2>3
  <2>6. \A k : Awaits(m.pid, k) => Awaits(m.pid, k)'
    BY <2>2, <2>4 DEF Awaits
  <2>7. chan'[m.pid] = chan[m.pid] /\ (st[m.pid] = "dead" => st'[m.pid] = "dead")
    BY <1>2, <2>2, <2>4
  <2>. QED  BY <2>1, <2>2, <2>5, <2>6, <2>7 DEF RequestOK
<1>8. PrivateReply' /\ Drained'
  <2>1. \A r \in Subject : chan'[r] # 0 /\ rep[chan'[r]] # <<>> => r # q /\ chan'[r] = chan[r]
    BY <1>2, <1>5
  <2>2. \A r \in Subject : st'[r] = "execing" => st[r] = "execing" /\ r # q /\ chan'[r] = chan[r]
    BY <1>2
  <2>3. \A r \in Subject : r # q /\ st[r] = "wait" => st'[r] = "wait"
    OBVIOUS
  <2>4. PrivateReply'
    BY <1>1, <2>1, <2>3 DEF PrivateReply
  <2>5. Drained'
    BY <1>1, <2>1, <2>2 DEF Drained
  <2>. QED  BY <2>4, <2>5
<1>. QED  BY <1>2, <1>4, <1>5, <1>6, <1>7, <1>8

LEMMA VforkKeeps == ASSUME CarrierInv, NEW p \in Subject, NEW q \in Subject, Vfork(p, q) PROVE CarrierInv'
<1>1. /\ Types /\ TypeOK /\ BatchReady /\ ChannelsOwned /\ Requests /\ PrivateReply
      /\ ReplyTraced /\ Drained /\ Attaching /\ Tracing /\ ChansCounted
  BY InvParts
<1>2. /\ st[p] = "user" /\ evt[p] = "none" /\ st[q] = "unborn" /\ p # q
      /\ chan' = [chan EXCEPT ![q] = nChans + 1] /\ nChans' = nChans + 1
      /\ carrierq' = Append(carrierq, nChans + 1)
      /\ st' = [st EXCEPT ![p] = "vfork", ![q] = "user"]
      /\ parent' = [parent EXCEPT ![q] = p]
      /\ UNCHANGED <<evt, call, fate, req, rep, pc, batch, scoutfds, tracee, sock, traced,
                      sigchld_ignore, stopping_message, exitval, sigchld, nCalls, nSignals>>
  BY DEF Vfork, Runs, establish_cc_channel, control, bounds
<1>3. /\ st' \in [Subject -> States]
      /\ \A r \in Subject : st'[r] = IF r = q THEN "user" ELSE IF r = p THEN "vfork" ELSE st[r]
  BY <1>1, <1>2, Maps DEF States
<1>4. ChansCounted' /\ nChans' \in Chan
  <2>1. \A r \in Subject : nCalls[r] \in Nat
    BY <1>1, Maps
  <2>2. \A r \in Subject : Made(r) <= Made(r)'
    BY <1>2, <1>3, <2>1 DEF Made, Pending
  <2>3. Made(q) < Made(q)'
    BY <1>2, <1>3, <2>1 DEF Made, Pending
  <2>4. nCalls' \in [Subject -> 0 .. MaxCalls]
    BY <1>1, <1>2, Maps
  <2>. QED  BY <1>1, <1>2, <1>3, <2>2, <2>3, <2>4, ChansKept
<1>5. /\ ChannelsOwned' /\ Requests' /\ PrivateReply' /\ Drained'
      /\ chan' \in [Subject -> 0 .. nChans']
      /\ \A r \in Subject : chan'[r] = IF r = q THEN nChans + 1 ELSE chan[r]
      /\ req[nChans + 1] = <<>> /\ rep[nChans + 1] = <<>>
  <2>1. nChans + 1 \in Chan
    BY <1>2, <1>4
  <2>2. \A r \in Subject : /\ r = q => st'[r] = "user"
                           /\ r # q => st'[r] = st[r] \/ (st[r] = "user" /\ st'[r] = "vfork")
    BY <1>2, <1>3
  <2>. QED  BY <1>2, <2>1, <2>2, NewChannelKeeps
<1>6. Types'
  <2>1. nChans \in Nat
    BY <1>1, ChanFacts
  <2>2. carrierq' \in Seq(0 .. nChans') /\ carrierq' # <<>>
    <3>1. carrierq \in Seq(0 .. nChans)
      BY <1>1 DEF TypeOK
    <3>2. carrierq \in Seq(0 .. (nChans + 1)) /\ nChans + 1 \in 0 .. (nChans + 1)
      BY <2>1, <3>1
    <3>. QED  BY <1>2, <3>2, AppendFacts
  <2>3. scoutfds \subseteq 1 .. nChans' /\ sock \in 1 .. nChans'
    BY <1>1, <1>2, <2>1 DEF TypeOK
  <2>4. parent' \in [Subject -> 0 .. N]
    <3>1. parent \in [Subject -> 0 .. N] /\ p \in 0 .. N
      BY <1>1, CarrierAssumption DEF TypeOK, Subject
    <3>. QED  BY <1>2, <3>1
  <2>. QED  BY <1>1, <1>2, <1>3, <1>4, <1>5, <2>2, <2>3, <2>4 DEF Types, TypeOK, BatchReady, States
<1>7. ReplyTraced'
  BY <1>1, <1>2, <1>5 DEF ReplyTraced, CarrierGone
<1>8. Attaching'
  <2>1. pc = "waitstop" => tracee # q
    BY <1>1, <1>2 DEF Tracing, InExec
  <2>. QED  BY <1>1, <1>2, <1>3, <1>5, <2>1, Maps DEF Attaching, Alive, Awaits
<1>9. Tracing'
  BY <1>1, <1>2, <1>3, Maps DEF Tracing, Stopped, Alive, Pending, CarrierGone, InExec
<1>. QED  BY <1>4, <1>5, <1>6, <1>7, <1>8, <1>9 DEF CarrierInv

LEMMA TakeOffKeeps == ASSUME CarrierInv, TakeOff PROVE CarrierInv'
<1>1. /\ Types /\ TypeOK /\ BatchReady /\ ChannelsOwned /\ Requests /\ PrivateReply
      /\ ReplyTraced /\ Drained /\ Attaching /\ Tracing /\ ChansCounted
  BY InvParts
<1>2. /\ pc = "takeoff" /\ pc' = "loop" /\ Alive(tracee)
      /\ chan' = [chan EXCEPT ![tracee] = nChans + 1] /\ nChans' = nChans + 1
      /\ carrierq' = Append(carrierq, nChans + 1)
      /\ sigchld_ignore' = FALSE
      /\ traced' = traced \ {tracee}
      /\ evt' = [evt EXCEPT ![tracee] = "none"]
      /\ st' = [st EXCEPT ![tracee] = "user"]
      /\ UNCHANGED <<call, parent, fate, req, rep, batch, scoutfds, tracee, sock,
                      stopping_message, exitval, sigchld, nCalls, nSignals>>
  BY DEF TakeOff, At, Detach, establish_cc_channel, bounds
<1> DEFINE q == tracee
<1>q. q \in Subject /\ st[q] = "image" /\ q' = q
  BY <1>1, <1>2, Maps DEF Tracing, Alive
<1>3. /\ st' \in [Subject -> States]
      /\ \A r \in Subject : st'[r] = IF r = q THEN "user" ELSE st[r]
      /\ \A r \in Subject : evt'[r] = IF r = q THEN "none" ELSE evt[r]
  BY <1>1, <1>2, Maps DEF States
<1> HIDE DEF q
<1>4. ChansCounted' /\ nChans' \in Chan
  <2>1. \A r \in Subject : nCalls[r] \in Nat
    BY <1>1, Maps
  <2>2. \A r \in Subject : Made(r) <= Made(r)'
    BY <1>2, <1>q, <1>3, <2>1 DEF Made, Pending
  <2>3. Made(q) < Made(q)'
    BY <1>2, <1>q, <1>3, <2>1 DEF Made, Pending
  <2>4. nCalls' \in [Subject -> 0 .. MaxCalls]
    BY <1>1, <1>2, Maps
  <2>. QED  BY <1>1, <1>q, <1>2, <1>3, <2>2, <2>3, <2>4, ChansKept
<1>5. /\ ChannelsOwned' /\ Requests' /\ PrivateReply' /\ Drained'
      /\ chan' \in [Subject -> 0 .. nChans']
      /\ \A r \in Subject : chan'[r] = IF r = q THEN nChans + 1 ELSE chan[r]
      /\ req[nChans + 1] = <<>> /\ rep[nChans + 1] = <<>>
  <2>1. nChans + 1 \in Chan
    BY <1>2, <1>4
  <2>2. \A r \in Subject : /\ r = q => st'[r] = "user"
                           /\ r # q => st'[r] = st[r] \/ (st[r] = "user" /\ st'[r] = "vfork")
    BY <1>3
  <2>3. chan' = [chan EXCEPT ![q] = nChans + 1] /\ nChans' = nChans + 1 /\ UNCHANGED <<call, req, rep>>
    BY <1>2 DEF q
  <2>. QED  BY <1>q, <2>1, <2>2, <2>3, NewChannelKeeps
<1>6. Types'
  <2>1. nChans \in Nat
    BY <1>1, ChanFacts
  <2>2. carrierq' \in Seq(0 .. nChans') /\ carrierq' # <<>>
    <3>1. carrierq \in Seq(0 .. nChans)
      BY <1>1 DEF TypeOK
    <3>2. carrierq \in Seq(0 .. (nChans + 1)) /\ nChans + 1 \in 0 .. (nChans + 1)
      BY <2>1, <3>1
    <3>. QED  BY <1>2, <3>2, AppendFacts
  <2>3. scoutfds \subseteq 1 .. nChans' /\ sock \in 1 .. nChans'
    BY <1>1, <1>2, <2>1 DEF TypeOK
  <2>4. evt' \in [Subject -> {"none", "stopping", "stop", "signal", "exec", "trap"}]
    BY <1>1, <1>2, Maps
  <2>. QED  BY <1>1, <1>2, <1>3, <1>4, <1>5, <2>2, <2>3, <2>4 DEF Types, TypeOK, BatchReady, States
<1>7. ReplyTraced'
  <2>1. traced' = traced \ {q} /\ pc # "done"
    BY <1>2 DEF q
  <2>. QED  BY <1>1, <1>2, <1>5, <2>1 DEF ReplyTraced, CarrierGone
<1>8. Attaching'
  BY <1>2 DEF Attaching
<1>9. Tracing'
  <2>1. traced' = traced \ {q} /\ pc # "done"
    BY <1>2 DEF q
  <2>. QED  BY <1>1, <1>2, <1>3, <2>1 DEF Tracing, Stopped, Alive, Pending, CarrierGone, InExec
<1>. QED  BY <1>4, <1>5, <1>6, <1>7, <1>8, <1>9 DEF CarrierInv

\* The Carrier takes the first request out of a channel.
LEMMA TakeRequest ==
    ASSUME CarrierInv, NEW c \in scoutfds, c \in batch \ {CarrierSock},
           batch' = batch \ {c}, req' = [req EXCEPT ![c] = Tail(req[c])],
           UNCHANGED <<scoutfds, nChans, carrierq>>
    PROVE  /\ c \in Chan /\ c <= nChans /\ c # 0 /\ req[c] # <<>>
           /\ Head(req[c]) = req[c][1] /\ Head(req[c]) \in Message /\ RequestOK(c, 1)
           /\ req' \in [Chan -> Seq(Message)] /\ DOMAIN req' = Chan
           /\ \A d \in Chan : Len(req'[d]) <= QLen
           /\ BatchReady' /\ batch' \subseteq scoutfds' \cup {CarrierSock}
           /\ \A d \in Chan : d # c => req'[d] = req[d]
           /\ Len(req[c]) \in Nat \ {0} /\ Len(req'[c]) = Len(req[c]) - 1
           /\ req'[c] \in Seq(Message)
           /\ \A i \in 1 .. Len(req'[c]) : req'[c][i] = req[c][i + 1]
<1>1. Types /\ TypeOK /\ BatchReady /\ Requests
  BY InvParts
<1>2. c \in Chan /\ c <= nChans /\ c # 0
  <2>1. c \in 1 .. nChans
    BY <1>1 DEF TypeOK
  <2>. QED  BY <1>1, <2>1, ChanFacts
<1>3. req[c] # <<>> /\ req[c] \in Seq(Message)
  BY <1>1, <1>2, Maps DEF BatchReady
<1>4. /\ Head(req[c]) = req[c][1] /\ Head(req[c]) \in Message /\ Tail(req[c]) \in Seq(Message)
      /\ Len(Tail(req[c])) = Len(req[c]) - 1 /\ Len(req[c]) \in Nat \ {0}
      /\ \A i \in 1 .. Len(Tail(req[c])) : Tail(req[c])[i] = req[c][i + 1]
  BY <1>3, TailFacts
<1>5. /\ req' \in [Chan -> Seq(Message)] /\ DOMAIN req' = Chan
      /\ \A d \in Chan : d # c => req'[d] = req[d]
      /\ req'[c] = Tail(req[c])
  BY <1>1, <1>2, <1>4, Maps
<1>6. RequestOK(c, 1)
  BY <1>1, <1>2, <1>4 DEF Requests
<1>7. \A d \in Chan : Len(req'[d]) <= QLen
  BY <1>1, <1>2, <1>4, <1>5, CarrierAssumption DEF TypeOK
<1>8. BatchReady' /\ batch' \subseteq scoutfds' \cup {CarrierSock}
  BY <1>1, <1>5 DEF BatchReady, TypeOK
<1>. QED  BY <1>2, <1>3, <1>4, <1>5, <1>6, <1>7, <1>8

LEMMA HandleCallKeeps == ASSUME CarrierInv, NEW c \in scoutfds, HandleCall(c) PROVE CarrierInv'
<1> DEFINE m == Head(req[c])
<1>1. /\ Types /\ TypeOK /\ BatchReady /\ ChannelsOwned /\ Requests /\ PrivateReply
      /\ ReplyTraced /\ Drained /\ Attaching /\ Tracing /\ ChansCounted
  BY InvParts
<1>2. /\ pc = "loop" /\ c \in batch \ {CarrierSock} /\ m.cmd # "execve"
      /\ batch' = batch \ {c} /\ req' = [req EXCEPT ![c] = Tail(req[c])]
      /\ rep' = IF m.cmd = "open" THEN rep ELSE [rep EXCEPT ![c] = Append(rep[c], m)]
      /\ UNCHANGED <<st, evt, call, chan, parent, fate, carrierq, nChans, pc, scoutfds, tracee,
                      sock, traced, sigchld_ignore, stopping_message, exitval, sigchld, nCalls,
                      nSignals>>
  BY DEF HandleCall, At, Answered, send_msg, subjects, bounds
<1>3. /\ c \in Chan /\ c <= nChans /\ c # 0 /\ req[c] # <<>>
      /\ m = req[c][1] /\ m \in Message /\ RequestOK(c, 1)
      /\ req' \in [Chan -> Seq(Message)] /\ DOMAIN req' = Chan
      /\ \A d \in Chan : Len(req'[d]) <= QLen
      /\ BatchReady' /\ batch' \subseteq scoutfds' \cup {CarrierSock}
      /\ \A d \in Chan : d # c => req'[d] = req[d]
      /\ Len(req[c]) \in Nat \ {0} /\ Len(req'[c]) = Len(req[c]) - 1
      /\ req'[c] \in Seq(Message)
      /\ \A i \in 1 .. Len(req'[c]) : req'[c][i] = req[c][i + 1]
  BY <1>2, TakeRequest
<1> HIDE DEF m
<1>4. m.pid \in Subject /\ m.cmd \in Calls
  BY <1>3 DEF Message
<1>5. /\ rep' \in [Chan -> Seq(Message)] /\ DOMAIN rep' = Chan
      /\ \A d \in Chan : rep'[d] = IF d = c /\ m.cmd # "open" THEN Append(rep[c], m) ELSE rep[d]
  BY <1>1, <1>2, <1>3, Maps
\* The owner of the channel, if it has one, sent the request.
<1>6. ASSUME NEW q \in Subject, chan[q] = c
      PROVE  /\ m.pid = q
             /\ m.cmd # "open" => Len(req[c]) = 1 /\ rep[c] = <<>> /\ Awaits(q, m.cmd)
  BY <1>3, <1>6 DEF RequestOK
<1>7. Types'
  BY <1>1, <1>2, <1>3, <1>5 DEF Types, TypeOK
<1>8. ChannelsOwned'
  BY <1>1, <1>2, <1>3, <1>5, ChanFacts DEF ChannelsOwned
<1>9. Requests'
  <2> SUFFICES ASSUME NEW d \in Chan, NEW i \in 1 .. Len(req'[d])
               PROVE  RequestOK(d, i)'
    BY DEF Requests
  <2>1. CASE d # c
    <3>1. RequestOK(d, i)
      BY <1>1, <1>3, <2>1 DEF Requests
    <3>. QED  BY <1>2, <1>3, <1>5, <2>1, <3>1 DEF RequestOK, Awaits
  <2>2. CASE d = c
    <3>1. i + 1 \in 1 .. Len(req[c]) /\ req'[c][i] = req[c][i + 1] /\ Len(req[c]) # 1
      BY <1>3, <2>2
    <3>2. RequestOK(c, i + 1)
      BY <1>1, <1>3, <3>1 DEF Requests
    <3>3. req[c][i + 1].pid \in Subject
      BY <1>1, <1>3, <3>1, RequestTypes
    <3>4. chan[req[c][i + 1].pid] = c => rep'[c] = rep[c]
      BY <1>3, <1>5, <1>6, <3>1, <3>3
    <3>5. i + 1 = Len(req[c]) => i = Len(req'[c])
      BY <1>3
    <3>. QED  BY <1>2, <2>2, <3>1, <3>2, <3>3, <3>4, <3>5 DEF RequestOK, Awaits
  <2>. QED  BY <2>1, <2>2
<1>10. ASSUME NEW q \in Subject, chan[q] = c, rep'[c] # <<>>
       PROVE  /\ st[q] = "wait" /\ rep'[c] = <<[cmd |-> call[q], pid |-> q]>>
              /\ call[q] # "open" /\ (call[q] = "execve" /\ pc # "done" => q \in traced)
              /\ req'[c] = <<>>
  <2>1. CASE m.cmd = "open"
    <3>1. rep[c] # <<>>
      BY <1>3, <1>5, <1>10, <2>1
    <3>. QED  BY <1>1, <1>3, <1>10, <3>1 DEF Drained
  <2>2. CASE m.cmd # "open"
    <3>1. rep'[c] = <<m>> /\ m.pid = q /\ st[q] = "wait" /\ call[q] = m.cmd /\ Len(req'[c]) = 0
      BY <1>3, <1>5, <1>6, <1>10, <2>2 DEF Awaits
    <3>2. m = [cmd |-> call[q], pid |-> q]
      BY <1>3, <3>1 DEF Message
    <3>. QED  BY <1>2, <1>3, <2>2, <3>1, <3>2
  <2>. QED  BY <2>1, <2>2
<1>11. PrivateReply' /\ ReplyTraced' /\ Drained'
  <2>1. \A q \in Subject : chan[q] # 0 /\ chan[q] # c =>
            chan[q] \in Chan /\ rep'[chan[q]] = rep[chan[q]] /\ req'[chan[q]] = req[chan[q]]
    BY <1>1, <1>3, <1>5, ChanFacts
  <2>2. PrivateReply'
    BY <1>1, <1>2, <1>10, <2>1 DEF PrivateReply
  <2>3. ReplyTraced'
    BY <1>1, <1>2, <1>10, <2>1 DEF ReplyTraced, CarrierGone
  <2>4. \A q \in Subject : st[q] = "execing" => chan[q] # c
    BY <1>1, <1>3 DEF Drained
  <2>5. Drained'
    BY <1>1, <1>2, <1>10, <2>1, <2>4 DEF Drained
  <2>. QED  BY <2>2, <2>3, <2>5
<1>12. Attaching'
  BY <1>2 DEF Attaching
<1>13. Tracing'
  BY <1>1, <1>2 DEF Tracing, Stopped, Alive, Pending, CarrierGone, InExec
<1>14. ChansCounted'
  <2>1. Mades' = Mades
    BY <1>2 DEF Mades, Made, Pending
  <2>. QED  BY <1>1, <1>2, <2>1 DEF ChansCounted
<1>. QED  BY <1>7, <1>8, <1>9, <1>11, <1>12, <1>13, <1>14 DEF CarrierInv

LEMMA HandleExecKeeps == ASSUME CarrierInv, NEW c \in scoutfds, HandleExec(c) PROVE CarrierInv'
<1> DEFINE m == Head(req[c])
           p == m.pid
<1>1. /\ Types /\ TypeOK /\ BatchReady /\ ChannelsOwned /\ Requests /\ PrivateReply
      /\ ReplyTraced /\ Drained /\ Attaching /\ Tracing /\ ChansCounted
  BY InvParts
<1>2. /\ pc = "loop" /\ c \in batch \ {CarrierSock} /\ m.cmd = "execve"
      /\ batch' = batch \ {c} /\ req' = [req EXCEPT ![c] = Tail(req[c])]
      /\ \/ /\ Alive(p) /\ p \notin traced
            /\ pc' = "waitstop" /\ sigchld_ignore' = TRUE /\ tracee' = p /\ sock' = c
            /\ traced' = traced \cup {p} /\ evt' = [evt EXCEPT ![p] = "stopping"]
         \/ UNCHANGED <<pc, sigchld_ignore, tracee, sock, traced, evt>>
      /\ UNCHANGED <<st, call, chan, parent, fate, rep, carrierq, nChans, scoutfds,
                      stopping_message, exitval, sigchld, nCalls, nSignals>>
  BY DEF HandleExec, At, ptrace_attach, bounds
<1>3. /\ c \in Chan /\ c <= nChans /\ c # 0 /\ req[c] # <<>>
      /\ m = req[c][1] /\ m \in Message /\ RequestOK(c, 1)
      /\ req' \in [Chan -> Seq(Message)] /\ DOMAIN req' = Chan
      /\ \A d \in Chan : Len(req'[d]) <= QLen
      /\ BatchReady' /\ batch' \subseteq scoutfds' \cup {CarrierSock}
      /\ \A d \in Chan : d # c => req'[d] = req[d]
      /\ Len(req[c]) \in Nat \ {0} /\ Len(req'[c]) = Len(req[c]) - 1
      /\ req'[c] \in Seq(Message)
      /\ \A i \in 1 .. Len(req'[c]) : req'[c][i] = req[c][i + 1]
  BY <1>2, TakeRequest
<1>4. p \in Subject
  BY <1>3 DEF Message
<1> HIDE DEF m, p
<1>5. Alive(p) => chan[p] = c /\ Len(req'[c]) = 0 /\ rep[c] = <<>> /\ Awaits(p, "execve")
  <2>1. Alive(p) => chan[p] = c
    BY <1>3 DEF RequestOK, Alive, p
  <2>2. chan[p] = c => Len(req[c]) = 1 /\ rep[c] = <<>> /\ Awaits(p, "execve")
    BY <1>2, <1>3 DEF RequestOK, p
  <2>. QED  BY <1>3, <2>1, <2>2
<1>6. Types'
  <2>1. evt' \in [Subject -> {"none", "stopping", "stop", "signal", "exec", "trap"}]
    BY <1>1, <1>2, <1>4, Maps
  <2>2. /\ tracee' \in Subject /\ sock' \in 1 .. nChans' /\ traced' \subseteq Subject
        /\ sigchld_ignore' \in BOOLEAN
        /\ pc' \in {"sigaction", "waitpid", "loop", "waitstop", "waittrap", "takeoff", "blocked", "done"}
    <3>1. c \in 1 .. nChans
      BY <1>1, <1>3, ChanFacts
    <3>. QED  BY <1>1, <1>2, <1>4, <3>1 DEF TypeOK
  <2>. QED  BY <1>1, <1>2, <1>3, <2>1, <2>2 DEF Types, TypeOK
<1>7. ChannelsOwned'
  BY <1>1, <1>2, <1>3, ChanFacts DEF ChannelsOwned
<1>8. Requests'
  <2> SUFFICES ASSUME NEW d \in Chan, NEW i \in 1 .. Len(req'[d])
               PROVE  RequestOK(d, i)'
    BY DEF Requests
  <2>1. CASE d # c
    <3>1. RequestOK(d, i)
      BY <1>1, <1>3, <2>1 DEF Requests
    <3>. QED  BY <1>2, <1>3, <2>1, <3>1 DEF RequestOK, Awaits
  <2>2. CASE d = c
    <3>1. i + 1 \in 1 .. Len(req[c]) /\ req'[c][i] = req[c][i + 1]
      BY <1>3, <2>2
    <3>2. RequestOK(c, i + 1)
      BY <1>1, <1>3, <3>1 DEF Requests
    <3>3. i + 1 = Len(req[c]) => i = Len(req'[c])
      BY <1>3
    <3>. QED  BY <1>2, <2>2, <3>1, <3>2, <3>3 DEF RequestOK, Awaits
  <2>. QED  BY <2>1, <2>2
<1>9. PrivateReply'
  BY <1>1, <1>2 DEF PrivateReply
<1>10. ReplyTraced'
  BY <1>1, <1>2 DEF ReplyTraced, CarrierGone
<1>11. Drained'
  <2>1. \A d \in Chan : req[d] = <<>> => req'[d] = <<>>
    BY <1>3
  <2>. QED  BY <1>1, <1>2, <2>1, ChanFacts DEF Drained
<1>12. Attaching'
  <2>1. Len(req'[c]) = 0 => req'[c] = <<>>
    BY <1>3
  <2>. QED  BY <1>1, <1>2, <1>5, <2>1 DEF Attaching, Alive, Awaits
<1>13. Tracing'
  <2>1. \A q \in Subject : evt'[q] = evt[q] \/ (q = p /\ Alive(p) /\ evt'[q] = "stopping" /\ p \in traced')
    BY <1>1, <1>2, <1>4, Maps
  <2>2. \A q \in Subject : q \in traced' <=> q \in traced \/ (q = p /\ Alive(p) /\ evt'[p] = "stopping")
    BY <1>1, <1>2, <1>4, <1>5, Maps DEF Tracing, Stopped, Alive, CarrierGone, Awaits
  <2>. QED  BY <1>1, <1>2, <1>4, <1>5, <2>1, <2>2 DEF Tracing, Stopped, Alive, Pending, CarrierGone, InExec, Awaits
<1>14. ChansCounted'
  <2>1. Mades' = Mades
    BY <1>2 DEF Mades, Made, Pending
  <2>. QED  BY <1>1, <1>2, <2>1 DEF ChansCounted
<1>. QED  BY <1>6, <1>7, <1>8, <1>9, <1>10, <1>11, <1>12, <1>13, <1>14 DEF CarrierInv

LEMMA AttachedKeeps == ASSUME CarrierInv, Attached PROVE CarrierInv'
<1> DEFINE m == [cmd |-> "execve", pid |-> tracee]
<1>1. /\ Types /\ TypeOK /\ BatchReady /\ ChannelsOwned /\ Requests /\ PrivateReply
      /\ ReplyTraced /\ Drained /\ Attaching /\ Tracing /\ ChansCounted
  BY InvParts
<1>2. /\ pc = "waitstop" /\ evt[tracee] = "stop" /\ pc' = "waittrap"
      /\ evt' = [evt EXCEPT ![tracee] = "none"]
      /\ rep' = [rep EXCEPT ![sock] = Append(rep[sock], m)]
      /\ UNCHANGED <<st, call, chan, parent, fate, req, carrierq, nChans, batch, scoutfds, tracee,
                      sock, traced, sigchld_ignore, stopping_message, exitval, sigchld, nCalls,
                      nSignals>>
  BY DEF Attached, At, send_msg, bounds
<1>3. tracee \in Subject /\ sock \in Chan
  BY <1>1, Maps
<1>4. tracee \in traced /\ Alive(tracee)
  BY <1>1, <1>2, <1>3 DEF Tracing, Stopped, Alive, CarrierGone
<1>5. chan[tracee] = sock /\ Awaits(tracee, "execve") /\ req[sock] = <<>> /\ rep[sock] = <<>>
  BY <1>1, <1>2, <1>4 DEF Attaching
<1>6. /\ rep' \in [Chan -> Seq(Message)] /\ DOMAIN rep' = Chan
      /\ \A d \in Chan : rep'[d] = IF d = sock THEN <<m>> ELSE rep[d]
      /\ \A q \in Subject : evt'[q] = IF q = tracee THEN "none" ELSE evt[q]
  <2>1. Append(rep[sock], m) = <<m>>
    BY <1>5
  <2>2. m \in Message
    BY <1>3 DEF Message, Calls
  <2>3. <<m>> \in Seq(Message)
    BY <2>2
  <2>. QED  BY <1>1, <1>2, <1>3, <2>1, <2>3, Maps
<1>7. Types'
  <2>1. evt' \in [Subject -> {"none", "stopping", "stop", "signal", "exec", "trap"}]
    BY <1>1, <1>2, Maps
  <2>. QED  BY <1>1, <1>2, <1>6, <2>1 DEF Types, TypeOK, BatchReady
<1>8. ChannelsOwned'
  <2>1. \A d \in Chan : d > nChans => d # sock
    <3>1. sock \in 1 .. nChans
      BY <1>1 DEF TypeOK
    <3>. QED  BY <1>1, <3>1, ChanFacts
  <2>. QED  BY <1>1, <1>2, <1>6, <2>1 DEF ChannelsOwned
<1>9. Requests'
  <2> SUFFICES ASSUME NEW d \in Chan, NEW i \in 1 .. Len(req[d])
               PROVE  RequestOK(d, i)'
    BY <1>2 DEF Requests
  <2>1. d # sock
    BY <1>5
  <2>2. RequestOK(d, i)
    BY <1>1 DEF Requests
  <2>. QED  BY <1>2, <1>6, <2>1, <2>2 DEF RequestOK, Awaits
<1>10. PrivateReply' /\ ReplyTraced' /\ Drained'
  <2>1. \A q \in Subject : chan[q] = sock => q = tracee
    BY <1>1, <1>3, <1>5, ChanFacts DEF ChannelsOwned
  <2>2. \A q \in Subject : chan[q] # 0 /\ q # tracee => chan[q] \in Chan /\ rep'[chan[q]] = rep[chan[q]]
    BY <1>1, <1>6, <2>1, ChanFacts
  <2>3. rep'[chan[tracee]] = <<[cmd |-> call[tracee], pid |-> tracee]>>
    BY <1>3, <1>5, <1>6 DEF Awaits
  <2>. QED  BY <1>1, <1>2, <1>4, <1>5, <2>2, <2>3 DEF PrivateReply, ReplyTraced, Drained, CarrierGone, Awaits
<1>11. Attaching'
  BY <1>2 DEF Attaching
<1>12. Tracing'
  BY <1>1, <1>2, <1>3, <1>4, <1>5, <1>6 DEF Tracing, Stopped, Alive, Pending, CarrierGone, InExec, Awaits
<1>13. ChansCounted'
  <2>1. Mades' = Mades
    BY <1>2 DEF Mades, Made, Pending
  <2>. QED  BY <1>1, <1>2, <2>1 DEF ChansCounted
<1>. QED  BY <1>7, <1>8, <1>9, <1>10, <1>11, <1>12, <1>13 DEF CarrierInv

-----------------------------------------------------------------------------
(* The specification.                                                      *)

LEMMA CarrierInitial == Init => CarrierInv
<1> SUFFICES ASSUME Init PROVE CarrierInv
  OBVIOUS
<1>1. N \in Nat \ {0} /\ MaxCalls \in Nat /\ MaxSignals \in Nat /\ QLen \in Nat \ {0}
  BY CarrierAssumption
<1>2. 1 \in Subject /\ 1 \in Chan /\ Chan \subseteq Nat \ {0} /\ Subject \subseteq Nat \ {0}
  <2>1. N * MaxCalls \in Nat
    BY <1>1
  <2>. QED  BY <1>1, <2>1 DEF Subject, Chan, MaxChans
<1>3. /\ \A p \in Subject : /\ st[p] = IF p = 1 THEN "user" ELSE "unborn"
                            /\ evt[p] = "none" /\ chan[p] = IF p = 1 THEN 1 ELSE 0
                            /\ nCalls[p] = 0
      /\ \A c \in Chan : req[c] = <<>> /\ rep[c] = <<>>
      /\ nChans = 1 /\ traced = {} /\ pc = "sigaction" /\ batch = {}
  BY DEF Init, First
<1>4. Types
  <2>1. req \in [Chan -> Seq(Message)] /\ rep \in [Chan -> Seq(Message)]
    BY DEF Init
  <2>2. carrierq \in Seq(0 .. nChans)
    BY DEF Init
  <2>3. \A c \in Chan : Len(req[c]) <= QLen
    BY <1>1, <1>3
  <2>4. sigchld \in [who : 0 .. N, status : 0 .. 255]
    BY <1>1 DEF Init, NoSignal
  <2>5. nCalls \in [Subject -> 0 .. MaxCalls] /\ nSignals \in 0 .. MaxSignals
    BY <1>1 DEF Init
  <2>6. TypeOK
    <3>1. /\ st \in [Subject -> {"unborn", "user", "wait", "execing", "image", "vfork", "dead"}]
          /\ evt \in [Subject -> {"none", "stopping", "stop", "signal", "exec", "trap"}]
          /\ call \in [Subject -> {"none", "file", "open", "execve"}]
      BY DEF Init
    <3>2. chan \in [Subject -> 0 .. nChans] /\ parent \in [Subject -> 0 .. N]
      BY <1>1 DEF Init
    <3>3. nChans \in Chan /\ tracee \in Subject /\ sock \in 1 .. nChans
      BY <1>2 DEF Init, First
    <3>4. DOMAIN req = Chan /\ DOMAIN rep = Chan
      BY DEF Init
    <3>5. /\ fate = "alive" /\ pc = "sigaction"
          /\ batch \subseteq scoutfds \cup {CarrierSock} /\ scoutfds \subseteq 1 .. nChans
          /\ traced \subseteq Subject
      BY DEF Init
    <3>6. sigchld_ignore \in BOOLEAN /\ stopping_message \in BOOLEAN /\ exitval \in 0 .. 255
      <4>1. sigchld_ignore \in BOOLEAN /\ stopping_message \in BOOLEAN
        BY Zenon DEF Init
      <4>2. exitval \in 0 .. 255
        BY DEF Init
      <4>. QED  BY <4>1, <4>2
    <3>. QED  BY <2>2, <2>3, <3>1, <3>2, <3>3, <3>4, <3>5, <3>6 DEF TypeOK
  <2>. QED  BY <1>3, <2>1, <2>4, <2>5, <2>6 DEF Types, BatchReady
<1>5. ChannelsOwned /\ PrivateReply /\ ReplyTraced /\ Drained /\ Attaching /\ Requests
  BY <1>2, <1>3 DEF ChannelsOwned, PrivateReply, ReplyTraced, Drained, Attaching, Requests
<1>6. Tracing
  BY <1>3 DEF Tracing, Stopped, Pending, InExec
<1>7. ChansCounted
  <2> DEFINE zero == [p \in 1 .. N |-> 0]
             f == Mades
  <2>1. zero \in [1 .. N -> Int] /\ f \in [1 .. N -> Int] /\ 1 \in 1 .. N
    <3>1. f = [p \in Subject |-> IF p = 1 THEN 1 ELSE 0]
      BY <1>3 DEF Mades, Made, Pending
    <3>. QED  BY <1>1, <3>1 DEF Subject
  <2>2. \A p \in 1 .. N : zero[p] <= f[p] /\ zero[p] >= 0
    BY <1>3 DEF Mades, Made, Pending, Subject
  <2>3. zero[1] < f[1]
    BY <1>2, <1>3, <2>1 DEF Mades, Made, Pending, Subject
  <2> HIDE DEF zero, f
  <2>4. SumTo(zero, N) \in Nat
    BY <1>1, <2>1, <2>2, SumToNatural
  <2>5. SumTo(f, N) \in Int /\ SumTo(zero, N) < SumTo(f, N)
    BY <1>1, <2>1, <2>2, <2>3, SumToGrows
  <2>. QED  BY <1>3, <2>4, <2>5 DEF ChansCounted, f
<1>. QED  BY <1>4, <1>5, <1>6, <1>7 DEF CarrierInv

LEMMA CarrierStutters == CarrierInv /\ UNCHANGED vars => CarrierInv'
<1> SUFFICES ASSUME CarrierInv, UNCHANGED vars PROVE CarrierInv'
  OBVIOUS
<1>1. /\ Types /\ TypeOK /\ BatchReady /\ ReplyTraced /\ Attaching /\ Tracing
  BY InvParts
<1>2. UNCHANGED <<st, evt, call, chan, parent, fate, req, rep, carrierq, nChans, pc, batch, scoutfds,
                  tracee, sock, traced, sigchld_ignore, stopping_message, exitval, sigchld, nCalls,
                  nSignals>>
  BY DEF vars, subjects, sockets, control, bounds
<1>3. ChannelsOwned' /\ Requests' /\ PrivateReply' /\ Drained' /\ ChansCounted'
  BY <1>2, QuietKeeps
<1>4. Types'
  BY <1>1, <1>2 DEF Types, TypeOK, BatchReady
<1>5. ReplyTraced' /\ Attaching'
  BY <1>1, <1>2 DEF ReplyTraced, CarrierGone, Attaching, Alive, Awaits
<1>6. Tracing'
  BY <1>1, <1>2 DEF Tracing, Stopped, Alive, Pending, CarrierGone, InExec
<1>. QED  BY <1>3, <1>4, <1>5, <1>6 DEF CarrierInv

\* Every step of a subject, of the Carrier and of the signal handler keeps it.
LEMMA CarrierKept == CarrierInv /\ [Next]_vars => CarrierInv'
<1> SUFFICES ASSUME CarrierInv, [Next]_vars PROVE CarrierInv'
  OBVIOUS
<1>1. ASSUME NEW p \in Subject, SubjectStep(p) PROVE CarrierInv'
  <2>1. ASSUME NEW k \in Calls, Call(p, k) PROVE CarrierInv'
    BY <2>1, CallKeeps
  <2>2. ASSUME NEW q \in Subject, Vfork(p, q) PROVE CarrierInv'
    BY <2>2, VforkKeeps
  <2>3. ASSUME NEW code \in ExitCodes, Exit(p, code) PROVE CarrierInv'
    <3>1. Alive(p) /\ Die(p, code, "exited")
      BY <2>3 DEF Exit, Runs
    <3>2. code \in 0 .. 255
      BY CarrierAssumption
    <3>. QED  BY <3>1, <3>2, DieKeeps
  <2>4. ASSUME Kill(p) PROVE CarrierInv'
    <3>1. Alive(p) /\ Die(p, SIGKILL, "killed")
      BY <2>4 DEF Kill
    <3>2. SIGKILL \in 0 .. 255
      BY DEF SIGKILL
    <3>. QED  BY <3>1, <3>2, DieKeeps
  <2>5. ASSUME OtherSignal(p) PROVE CarrierInv'
    BY <2>5, OtherSignalKeeps
  <2>. QED  BY <1>1, <2>1, <2>2, <2>3, <2>4, <2>5 DEF SubjectStep
<1>2. ASSUME NEW p \in Subject, Proceed(p) PROVE CarrierInv'
  BY <1>2, TakeReplyKeeps, ExecveSucceedsKeeps, ExecveFailsKeeps, AttachStopKeeps DEF Proceed
<1>3. ASSUME CarrierStep PROVE CarrierInv'
  BY <1>3, SigactionKeeps, CheckKeeps, EpollWaitKeeps, LoopEndsKeeps, HandleCarrierMsgKeeps,
     HandleCallKeeps, HandleExecKeeps, AttachedKeeps, ExecSeenKeeps, ExecFailedKeeps,
     TakeOffKeeps, AbandonKeeps DEF CarrierStep
<1>4. ASSUME SigchldHandler PROVE CarrierInv'
  BY <1>4, SigchldHandlerKeeps
<1>5. ASSUME UNCHANGED vars PROVE CarrierInv'
  BY <1>5, CarrierStutters
<1>. QED  BY <1>1, <1>2, <1>3, <1>4, <1>5 DEF Next

LEMMA CarrierInvariant == Spec => []CarrierInv
<1>1. Init => CarrierInv
  BY CarrierInitial
<1>2. CarrierInv /\ [Next]_vars => CarrierInv'
  BY CarrierKept
<1>. QED  BY <1>1, <1>2, PTL DEF Spec

\* Every variable of the Carrier and of its subjects keeps its type, and the bound
\* on the channels is never met: a channel is made at a birth and after an
\* execve(), and nowhere else (establish_cc_channel in scout.cpp).
THEOREM CarrierTypes == Spec => []TypeOK
<1>1. CarrierInv => TypeOK
  BY InvParts
<1>. QED  BY <1>1, CarrierInvariant, PTL

\* The answer in the channel of a subject is the one to the call it waits for,
\* however many subjects call, die, are traced and exec meanwhile: bridge.cpp may
\* take whatever comes next for its answer.  Without fork().
THEOREM RepliesArePrivate == Spec => []PrivateReply
<1>1. CarrierInv => PrivateReply
  BY InvParts
<1>. QED  BY <1>1, CarrierInvariant, PTL

\* Without fork() the weaker promise of the docs, which MCCommandCenterFork
\* refutes with it, holds: the next answer is the subject's own.
THEOREM AnswersAreOwn == Spec => []OwnAnswer
<1>1. CarrierInv => OwnAnswer
  <2> SUFFICES ASSUME CarrierInv, NEW p \in Subject, st[p] = "wait", chan[p] # 0, rep[chan[p]] # <<>>
               PROVE  Head(rep[chan[p]]) = [cmd |-> call[p], pid |-> p]
    BY DEF OwnAnswer
  <2>1. rep[chan[p]] = <<[cmd |-> call[p], pid |-> p]>>
    BY InvParts DEF PrivateReply
  <2>. QED  BY <2>1
<1>. QED  BY <1>1, CarrierInvariant, PTL

\* As long as the Carrier lives no image runs before its scout is in it
\* (handle_exec in cmdcenter.cpp), whoever is killed or signalled meanwhile.
THEOREM ImagesHaveScouts == Spec => []ExecInstrumented
<1>1. CarrierInv => ExecInstrumented
  BY InvParts DEF ExecInstrumented, Tracing, Stopped
<1>. QED  BY <1>1, CarrierInvariant, PTL

=============================================================================
