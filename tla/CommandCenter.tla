--------------------------- MODULE CommandCenter ---------------------------
(***************************************************************************)
(* The Carrier and the subjects it runs (loader/main.cpp, carrier.cpp,     *)
(* cmdcenter.cpp; sandbox/scout.cpp, bridge.cpp, seccomp.cpp).             *)
(*                                                                         *)
(* The Carrier is one thread: main() launches the first subject, installs  *)
(* a SIGCHLD handler and runs the message loop of the Command Center.      *)
(* Every subject talks to it over a private datagram channel its scout     *)
(* created and announced on CARRIER_SOCK.  An execve() takes both sides:   *)
(* the Command Center attaches to the subject, tells it to go on, waits    *)
(* for the trap and injects a new scout into the new image.  Meanwhile     *)
(* every other subject goes on and signals arrive.                         *)
(*                                                                         *)
(* The model starts when start_mission() has returned: the scout of the    *)
(* first subject has taken off and announced its channel.                  *)
(*                                                                         *)
(* A definition X_Y is a wrong variant of the definition X that follows    *)
(* it: with it in the place of X one of the properties below fails.        *)
(***************************************************************************)
EXTENDS Integers, Sequences

CONSTANTS
    N,          \* the subjects are 1 .. N
    MaxCalls,   \* bound on the trapped system calls of a subject
    MaxSignals, \* bound on the signals that hit a traced subject
    ExitCodes,  \* what a subject may pass to exit()
    QLen        \* net.unix.max_dgram_qlen: a longer queue blocks its sender

ASSUME CarrierAssumption ==
    /\ N \in Nat \ {0} /\ MaxCalls \in Nat /\ MaxSignals \in Nat
    /\ ExitCodes \subseteq 0 .. 255 /\ QLen \in Nat \ {0}

VARIABLES
    st,         \* what each subject is doing
    evt,        \* the ptrace stop each subject is in, or "none"
    call,       \* the last trapped call of each subject
    chan,       \* the channel of each subject, 0 when it has none
    parent,     \* who is suspended until this subject execs or exits, or 0
    fate,       \* how the first subject ended
    req, rep,   \* requests and replies on every channel, in order
    carrierq,   \* CARRIER_SOCK: announced channels, and 0 for STOP_MSG_LOOP_CMD
    nChans,     \* channels created so far
    pc,         \* where the Carrier is
    batch,      \* the sockets epoll_wait returned, still to be handled
    scoutfds,   \* the channels of the Command Center
    tracee,     \* the subject handle_exec works on
    sock,       \* the channel handle_exec answers on
    traced,     \* the subjects the Carrier is attached to
    sigchld_ignore, stopping_message, exitval,
    sigchld,    \* the pending SIGCHLD: who and si_status
    nCalls, nSignals

subjects == <<st, evt, call, chan, parent, fate>>
sockets == <<req, rep, carrierq, nChans>>
control == <<pc, batch, scoutfds, tracee, sock, traced,
             sigchld_ignore, stopping_message, exitval>>
bounds == <<nCalls, nSignals>>
vars == <<subjects, sockets, control, sigchld, bounds>>

Subject == 1 .. N
First == 1              \* childpid of main.cpp
MaxChans == 1 + N + N * MaxCalls
Chan == 1 .. MaxChans
CarrierSock == 0        \* carrierfd among the sockets of epoll
STOP == 0               \* STOP_MSG_LOOP_CMD among the messages of CARRIER_SOCK

SIGKILL == 9
SIGALRM == 14           \* stands for any signal but SIGTRAP and SIGSTOP
SIGTRAP == 5
SIGSTOP == 19
SIGSYS == 31

\* The macros of <sys/wait.h>.
WTERMSIG(s) == s % 128
WIFEXITED(s) == WTERMSIG(s) = 0
WIFSTOPPED(s) == s % 256 = 127
WIFSIGNALED(s) == WTERMSIG(s) \notin {0, 127}
WEXITSTATUS(s) == (s \div 256) % 256

NoSignal == [who |-> 0, status |-> 0]

Init ==
    /\ st = [p \in Subject |-> IF p = First THEN "user" ELSE "unborn"]
    /\ evt = [p \in Subject |-> "none"]
    /\ call = [p \in Subject |-> "none"]
    /\ chan = [p \in Subject |-> IF p = First THEN 1 ELSE 0]
    /\ parent = [p \in Subject |-> 0]
    /\ fate = "alive"
    /\ req = [c \in Chan |-> <<>>] /\ rep = [c \in Chan |-> <<>>]
    /\ carrierq = <<1>> /\ nChans = 1
    /\ pc = "sigaction" /\ batch = {} /\ scoutfds = {}
    /\ tracee = First /\ sock = 1 /\ traced = {}
    /\ sigchld_ignore = FALSE /\ stopping_message = FALSE /\ exitval = 255
    /\ sigchld = NoSignal
    /\ nCalls = [p \in Subject |-> 0] /\ nSignals = 0

Alive(p) == st[p] \notin {"unborn", "dead"}
Runs(p) == Alive(p) /\ evt[p] = "none"
CarrierGone == pc = "done"

\* A SIGCHLD about p for the Carrier.  It is the parent of the first subject and
\* the tracer of the others; SIGCHLD is ignored before main() installs the
\* handler, and one that arrives while another is pending is dropped.
Post(p, status) ==
    sigchld' = IF /\ sigchld = NoSignal /\ pc \notin {"sigaction", "done"}
                  /\ p = First \/ p \in traced
               THEN [who |-> p, status |-> status] ELSE sigchld

\* The parent of a vfork()ed p goes on.
Resumed(p, s) == [q \in Subject |-> IF q = parent[p] /\ s[q] = "vfork" THEN "user" ELSE s[q]]

-----------------------------------------------------------------------------
(* Subjects: seccomp.cpp traps a call, bridge.cpp talks to the Carrier.    *)

\* The calls handle_syscall() passes on, by what they do with the answer: "file"
\* stands for the calls that wait for an answer (openat,
\* access, fstat, stat, lstat, readlink, unlink), "open" for cmd_open, which
\* does not, "execve" for the first half of an execve().  dup, dup2 and
\* rt_sigaction are handled in the scout and do not reach the Carrier.
Calls == {"file", "open", "execve"}

\* send_msg: one more message in channel c of the channels q.
send_msg(q, c, msg) == [q EXCEPT ![c] = Append(@, msg)]

\* A call is trapped and sent.  Once the Carrier is gone the message is lost, and
\* the answer never comes.
Call(p, k) ==
    /\ Runs(p) /\ st[p] = "user" /\ nCalls[p] < MaxCalls
    /\ CarrierGone \/ Len(req[chan[p]]) < QLen
    /\ req' = IF CarrierGone THEN req
              ELSE send_msg(req, chan[p], [cmd |-> k, pid |-> p])
    /\ st' = [st EXCEPT ![p] = IF k = "open" THEN "user" ELSE "wait"]
    /\ call' = [call EXCEPT ![p] = k]
    /\ nCalls' = [nCalls EXCEPT ![p] = @ + 1]
    /\ UNCHANGED <<evt, chan, parent, fate, rep, carrierq, nChans, control, sigchld, nSignals>>

\* receive_one() in the scout.  An execve() goes on to the fake frame.
TakeReply(p) ==
    /\ Runs(p) /\ st[p] = "wait" /\ rep[chan[p]] # <<>>
    /\ rep' = [rep EXCEPT ![chan[p]] = Tail(@)]
    /\ st' = [st EXCEPT ![p] = IF call[p] = "execve" THEN "execing" ELSE "user"]
    /\ UNCHANGED <<evt, call, chan, parent, fate, req, carrierq, nChans, control, sigchld, bounds>>

\* execve_handler: the call succeeds.  FD_CLOEXEC closes the channel, the SIGSYS
\* handler is gone, and a tracer sees the new image stopped.
ExecveSucceeds(p) ==
    /\ Runs(p) /\ st[p] = "execing"
    /\ st' = Resumed(p, [st EXCEPT ![p] = "image"])
    /\ evt' = [evt EXCEPT ![p] = IF p \in traced THEN "exec" ELSE "none"]
    /\ chan' = [chan EXCEPT ![p] = 0]
    /\ parent' = [parent EXCEPT ![p] = 0]
    /\ IF p \in traced THEN Post(p, SIGTRAP) ELSE UNCHANGED sigchld
    /\ UNCHANGED <<call, fate, sockets, control, bounds>>

\* p is dead: its parent goes on, its channel is closed, the Carrier is told.
Die(p, status, how) ==
    /\ st' = Resumed(p, [st EXCEPT ![p] = "dead"])
    /\ evt' = [evt EXCEPT ![p] = "none"]
    /\ chan' = [chan EXCEPT ![p] = 0]
    /\ parent' = [parent EXCEPT ![p] = 0]
    /\ fate' = IF p = First THEN how ELSE fate
    /\ traced' = traced \ {p}
    /\ Post(p, status)
    /\ UNCHANGED <<call, sockets, pc, batch, scoutfds, tracee, sock,
                   sigchld_ignore, stopping_message, exitval, bounds>>

ExecveFails_Silent(p) ==
    /\ Runs(p) /\ st[p] = "execing"
    /\ st' = [st EXCEPT ![p] = "user"]
    /\ UNCHANGED <<evt, call, chan, parent, fate, sockets, control, sigchld, bounds>>

\* execve_handler: the call fails, and the scout sends itself a SIGTRAP, which
\* kills it when no one traces it.
ExecveFails(p) ==
    /\ Runs(p) /\ st[p] = "execing"
    /\ \/ /\ p \in traced
          /\ st' = [st EXCEPT ![p] = "user"]
          /\ evt' = [evt EXCEPT ![p] = "trap"]
          /\ Post(p, SIGTRAP)
          /\ UNCHANGED <<call, chan, parent, fate, sockets, control, bounds>>
       \/ /\ p \notin traced
          /\ Die(p, SIGTRAP, "killed")

\* establish_cc_channel: q makes a new channel and sends the Carrier its end.
establish_cc_channel(q) ==
    /\ Len(carrierq) < QLen
    /\ chan' = [chan EXCEPT ![q] = nChans + 1]
    /\ nChans' = nChans + 1
    /\ carrierq' = Append(carrierq, nChans + 1)

\* vfork_handler: the child makes a channel of its own and announces it, the
\* parent is suspended.
Vfork(p, q) ==
    /\ Runs(p) /\ st[p] = "user" /\ st[q] = "unborn"
    /\ ~ CarrierGone /\ establish_cc_channel(q)
    /\ st' = [st EXCEPT ![p] = "vfork", ![q] = "user"]
    /\ parent' = [parent EXCEPT ![q] = p]
    /\ UNCHANGED <<evt, call, fate, req, rep, control, sigchld, bounds>>

\* fork() is not trapped by the filter: the child inherits the socket of its
\* parent.
Fork(p, q) ==
    /\ Runs(p) /\ st[p] = "user" /\ st[q] = "unborn"
    /\ st' = [st EXCEPT ![q] = "user"]
    /\ chan' = [chan EXCEPT ![q] = chan[p]]
    /\ UNCHANGED <<evt, call, parent, fate, sockets, control, sigchld, bounds>>

Exit(p, code) == Runs(p) /\ st[p] \in {"user", "image"} /\ Die(p, code, "exited")
Kill(p) == Alive(p) /\ Die(p, SIGKILL, "killed")

\* The SIGSTOP of PTRACE_ATTACH takes effect.
AttachStop(p) ==
    /\ Alive(p) /\ evt[p] = "stopping"
    /\ evt' = [evt EXCEPT ![p] = "stop"]
    /\ Post(p, SIGSTOP)
    /\ UNCHANGED <<st, call, chan, parent, fate, sockets, control, bounds>>

\* Any other signal stops a traced subject before it is delivered.
OtherSignal(p) ==
    /\ p \in traced /\ st[p] \in {"wait", "execing"} /\ evt[p] \in {"none", "stopping"}
    /\ nSignals < MaxSignals
    /\ evt' = [evt EXCEPT ![p] = "signal"]
    /\ Post(p, SIGALRM)
    /\ nSignals' = nSignals + 1
    /\ UNCHANGED <<st, call, chan, parent, fate, sockets, control, nCalls>>

-----------------------------------------------------------------------------
(* The Carrier.                                                            *)

\* The Carrier is at l.  A pending SIGCHLD is delivered when it returns from a
\* system call, and every step of it makes one: the handler always runs first.
At(l) == pc = l /\ sigchld = NoSignal

\* main(): the handler is ready.
Sigaction ==
    /\ At("sigaction") /\ pc' = "waitpid"
    /\ UNCHANGED <<subjects, sockets, batch, scoutfds, tracee, sock, traced,
                   sigchld_ignore, stopping_message, exitval, sigchld, bounds>>

\* main(): waitpid(WNOHANG).  Its status is only written when the first subject
\* is dead; otherwise WIFEXITED reads an uninitialized variable.
Check ==
    /\ At("waitpid")
    /\ \/ fate = "exited" /\ pc' = "done"
       \/ fate = "killed" /\ pc' = "loop"
       \/ fate = "alive" /\ pc' \in {"done", "loop"}
    /\ UNCHANGED <<subjects, sockets, batch, scoutfds, tracee, sock, traced,
                   sigchld_ignore, stopping_message, exitval, sigchld, bounds>>

Ready ==
    {c \in scoutfds : req[c] # <<>>} \cup (IF carrierq # <<>> THEN {CarrierSock} ELSE {})

\* handle_message: epoll_wait.
EpollWait ==
    /\ At("loop") /\ batch = {} /\ ~ stopping_message /\ Ready # {}
    /\ batch' = Ready
    /\ UNCHANGED <<subjects, sockets, pc, scoutfds, tracee, sock, traced,
                   sigchld_ignore, stopping_message, exitval, sigchld, bounds>>

LoopEnds_WhenQuiet ==
    /\ At("loop") /\ batch = {} /\ stopping_message /\ carrierq = <<>>
    /\ pc' = "done" /\ stopping_message' = FALSE
    /\ traced' = {} /\ evt' = [p \in Subject |-> "none"]
    /\ UNCHANGED <<st, call, chan, parent, fate, sockets, batch, scoutfds, tracee, sock,
                   sigchld_ignore, exitval, sigchld, bounds>>

\* handle_messages returns and so does main(); the kernel detaches the tracees.
LoopEnds ==
    /\ At("loop") /\ batch = {} /\ stopping_message
    /\ pc' = "done" /\ stopping_message' = FALSE
    /\ traced' = {} /\ evt' = [p \in Subject |-> "none"]
    /\ UNCHANGED <<st, call, chan, parent, fate, sockets, batch, scoutfds, tracee, sock,
                   sigchld_ignore, exitval, sigchld, bounds>>

HandleCarrierMsg_AddsAny ==
    /\ At("loop") /\ CarrierSock \in batch
    /\ batch' = batch \ {CarrierSock} /\ carrierq' = Tail(carrierq)
    /\ scoutfds' = scoutfds \cup {Head(carrierq)}
    /\ UNCHANGED <<subjects, req, rep, nChans, pc, tracee, sock, traced, sigchld_ignore,
                   stopping_message, exitval, sigchld, bounds>>

HandleCarrierMsg_OneScout ==
    /\ At("loop") /\ CarrierSock \in batch
    /\ batch' = batch \ {CarrierSock} /\ carrierq' = Tail(carrierq)
    /\ stopping_message' = (stopping_message \/ Head(carrierq) = STOP)
    /\ scoutfds' = IF scoutfds = {} THEN {Head(carrierq)} \ {STOP} ELSE scoutfds
    /\ UNCHANGED <<subjects, req, rep, nChans, pc, tracee, sock, traced, sigchld_ignore,
                   exitval, sigchld, bounds>>

add_scout(c) == scoutfds' = scoutfds \cup {c}

\* handle_carrier_msg.
HandleCarrierMsg ==
    /\ At("loop") /\ CarrierSock \in batch
    /\ batch' = batch \ {CarrierSock}
    /\ carrierq' = Tail(carrierq)
    /\ IF Head(carrierq) = STOP
       THEN stopping_message' = TRUE /\ UNCHANGED scoutfds
       ELSE add_scout(Head(carrierq)) /\ UNCHANGED stopping_message
    /\ UNCHANGED <<subjects, req, rep, nChans, pc, tracee, sock, traced,
                   sigchld_ignore, exitval, sigchld, bounds>>

HandleCall_AnswersOpen(c) ==
    /\ At("loop") /\ c \in batch \ {CarrierSock} /\ Head(req[c]).cmd # "execve"
    /\ batch' = batch \ {c}
    /\ req' = [req EXCEPT ![c] = Tail(@)]
    /\ rep' = send_msg(rep, c, Head(req[c]))
    /\ UNCHANGED <<subjects, carrierq, nChans, pc, scoutfds, tracee, sock, traced,
                   sigchld_ignore, stopping_message, exitval, sigchld, bounds>>

\* The cases of handle_scout_msg end with an answer; cmd_open is unknown to it
\* and gets none.
Answered(c) ==
    IF Head(req[c]).cmd = "open" THEN rep ELSE send_msg(rep, c, Head(req[c]))

\* handle_scout_msg of a call that is done at once.
HandleCall(c) ==
    /\ At("loop") /\ c \in batch \ {CarrierSock} /\ Head(req[c]).cmd # "execve"
    /\ batch' = batch \ {c}
    /\ req' = [req EXCEPT ![c] = Tail(@)]
    /\ rep' = Answered(c)
    /\ UNCHANGED <<subjects, carrierq, nChans, pc, scoutfds, tracee, sock, traced,
                   sigchld_ignore, stopping_message, exitval, sigchld, bounds>>

\* ptrace_attach, up to its wait for the stop.
ptrace_attach(p) ==
    /\ traced' = traced \cup {p}
    /\ evt' = [evt EXCEPT ![p] = "stopping"]

\* handle_scout_msg of cmd_execve up to PTRACE_ATTACH, which fails when the
\* subject is dead or already traced.
HandleExec(c) ==
    /\ At("loop") /\ c \in batch \ {CarrierSock} /\ Head(req[c]).cmd = "execve"
    /\ batch' = batch \ {c}
    /\ req' = [req EXCEPT ![c] = Tail(@)]
    /\ LET p == Head(req[c]).pid IN
       IF Alive(p) /\ p \notin traced
       THEN /\ pc' = "waitstop" /\ sigchld_ignore' = TRUE
            /\ tracee' = p /\ sock' = c /\ ptrace_attach(p)
       ELSE UNCHANGED <<pc, sigchld_ignore, tracee, sock, traced, evt>>
    /\ UNCHANGED <<st, call, chan, parent, fate, rep, carrierq, nChans, scoutfds,
                   stopping_message, exitval, sigchld, bounds>>

\* ptrace_waitstop sees the stop: PTRACE_SETOPTIONS, ptrace_cont, send_msg(ok).
Attached ==
    /\ At("waitstop") /\ evt[tracee] = "stop"
    /\ pc' = "waittrap"
    /\ evt' = [evt EXCEPT ![tracee] = "none"]
    /\ rep' = send_msg(rep, sock, [cmd |-> "execve", pid |-> tracee])
    /\ UNCHANGED <<st, call, chan, parent, fate, req, carrierq, nChans, batch, scoutfds,
                   tracee, sock, traced, sigchld_ignore, stopping_message, exitval,
                   sigchld, bounds>>

\* ptrace_waittrap sees PTRACE_EVENT_EXEC: ptrace_stepi and scout_takeoff follow.
ExecSeen ==
    /\ At("waittrap") /\ evt[tracee] = "exec" /\ pc' = "takeoff"
    /\ UNCHANGED <<subjects, sockets, batch, scoutfds, tracee, sock, traced,
                   sigchld_ignore, stopping_message, exitval, sigchld, bounds>>

\* PTRACE_DETACH at the end of handle_exec, sigchld_ignore being reset first.
Detach ==
    /\ pc' = "loop" /\ sigchld_ignore' = FALSE
    /\ traced' = traced \ {tracee}
    /\ evt' = [evt EXCEPT ![tracee] = "none"]

\* ptrace_waittrap sees the SIGTRAP of a failed execve().
ExecFailed ==
    /\ At("waittrap") /\ evt[tracee] = "trap"
    /\ Detach
    /\ UNCHANGED <<st, call, chan, parent, fate, sockets, batch, scoutfds, tracee, sock,
                   stopping_message, exitval, sigchld, bounds>>

\* scout_takeoff: the injected scout makes a new channel, announces it and
\* installs the SIGSYS handler.
TakeOff ==
    /\ At("takeoff") /\ Alive(tracee)
    /\ establish_cc_channel(tracee) /\ Detach
    /\ st' = [st EXCEPT ![tracee] = "user"]
    /\ UNCHANGED <<call, parent, fate, req, rep, batch, scoutfds, tracee, sock,
                   stopping_message, exitval, sigchld, bounds>>

Abandon_Detaches ==
    /\ At("waitstop") \/ At("waittrap") \/ At("takeoff")
    /\ st[tracee] = "dead" \/ evt[tracee] = "signal"
    /\ Detach
    /\ UNCHANGED <<st, call, chan, parent, fate, sockets, batch, scoutfds, tracee, sock,
                   stopping_message, exitval, sigchld, bounds>>

\* handle_exec returns false: the tracee has died, or another signal stopped it.
\* It stays attached.
Abandon ==
    /\ At("waitstop") \/ At("waittrap") \/ At("takeoff")
    /\ st[tracee] = "dead" \/ evt[tracee] = "signal"
    /\ pc' = "loop" /\ sigchld_ignore' = FALSE
    /\ UNCHANGED <<subjects, sockets, batch, scoutfds, tracee, sock, traced,
                   stopping_message, exitval, sigchld, bounds>>

\* waitpid() in handle_exec has nothing to return.
Waiting ==
    /\ pc \in {"waitstop", "waittrap", "takeoff"}
    /\ Alive(tracee)
    /\ pc # "takeoff" => evt[tracee] \in {"none", "stopping"}

\* What sigchld_handler makes of si_status: it applies the macros for wait
\* statuses to it.
Stops(status) ==
    /\ ~ WIFSTOPPED(status)
    /\ \/ WIFEXITED(status)
       \/ WIFSIGNALED(status) /\ WTERMSIG(status) \notin {SIGSYS, SIGSTOP}

\* sigchld_handler.  The handler is installed without SA_RESTART: a wait of
\* handle_exec it interrupts fails with EINTR, and handle_exec with it.  When
\* CARRIER_SOCK is full, stop_msg_loop() blocks the one thread that empties it.
SigchldHandler ==
    /\ sigchld # NoSignal /\ pc \notin {"done", "blocked"} /\ sigchld' = NoSignal
    /\ LET heard == sigchld.who = First /\ ~ sigchld_ignore /\ Stops(sigchld.status)
           full == heard /\ Len(carrierq) >= QLen IN
       /\ carrierq' = IF heard /\ ~ full THEN Append(carrierq, STOP) ELSE carrierq
       /\ exitval' = IF heard /\ WIFEXITED(sigchld.status) THEN WEXITSTATUS(sigchld.status) ELSE exitval
       /\ \/ pc' = (IF full THEN "blocked" ELSE pc) /\ UNCHANGED sigchld_ignore
          \/ Waiting /\ ~ full /\ pc' = "loop" /\ sigchld_ignore' = FALSE
    /\ UNCHANGED <<subjects, req, rep, nChans, batch, scoutfds, tracee, sock, traced,
                   stopping_message, bounds>>

-----------------------------------------------------------------------------
SubjectStep(p) ==
    \/ \E k \in Calls : Call(p, k)
    \/ \E q \in Subject : Vfork(p, q)
    \/ \E code \in ExitCodes : Exit(p, code)
    \/ Kill(p) \/ OtherSignal(p)

\* What the kernel and the scout do without the subject's program.
Proceed(p) == TakeReply(p) \/ ExecveSucceeds(p) \/ ExecveFails(p) \/ AttachStop(p)

CarrierStep ==
    \/ Sigaction \/ Check \/ EpollWait \/ LoopEnds \/ HandleCarrierMsg
    \/ \E c \in scoutfds : HandleCall(c) \/ HandleExec(c)
    \/ Attached \/ ExecSeen \/ ExecFailed \/ TakeOff \/ Abandon

Next ==
    \/ \E p \in Subject : SubjectStep(p) \/ Proceed(p)
    \/ CarrierStep
    \/ SigchldHandler

Spec == Init /\ [][Next]_vars

\* The kernel runs the Carrier, delivers its signals and lets a scout finish
\* what it has begun.  A program may stop calling, forking or exiting.
FairSpec ==
    /\ Spec /\ WF_vars(CarrierStep) /\ WF_vars(SigchldHandler)
    /\ \A p \in Subject : WF_vars(Proceed(p))

\* With subjects that call fork() too.
ForkSpec == Init /\ [][Next \/ \E p, q \in Subject : Fork(p, q)]_vars

-----------------------------------------------------------------------------
(* Properties.                                                             *)

InExec == pc \in {"waitstop", "waittrap", "takeoff"}

\* The type of every variable.
TypeOK ==
    /\ st \in [Subject -> {"unborn", "user", "wait", "execing", "image", "vfork", "dead"}]
    /\ evt \in [Subject -> {"none", "stopping", "stop", "signal", "exec", "trap"}]
    /\ call \in [Subject -> {"none", "file", "open", "execve"}]
    /\ chan \in [Subject -> 0 .. nChans] /\ parent \in [Subject -> 0 .. N]
    /\ fate \in {"alive", "exited", "killed"}
    /\ DOMAIN req = Chan /\ DOMAIN rep = Chan
    /\ \A c \in Chan : Len(req[c]) <= QLen
    /\ carrierq \in Seq(0 .. nChans) /\ nChans \in Chan
    /\ pc \in {"sigaction", "waitpid", "loop", "waitstop", "waittrap", "takeoff", "blocked", "done"}
    /\ scoutfds \subseteq 1 .. nChans /\ batch \subseteq scoutfds \cup {CarrierSock}
    /\ tracee \in Subject /\ sock \in 1 .. nChans /\ traced \subseteq Subject
    /\ sigchld_ignore \in BOOLEAN /\ stopping_message \in BOOLEAN /\ exitval \in 0 .. 255

\* "A private communication channel": the answer in the channel of a subject is
\* the one to the call it waits for (send_xxx in bridge.cpp takes whatever comes
\* next for its answer), and none is left over for its next call.
PrivateReply ==
    \A p \in Subject :
        (chan[p] # 0 /\ rep[chan[p]] # <<>>) =>
            st[p] = "wait" /\ rep[chan[p]] = <<[cmd |-> call[p], pid |-> p]>>

\* "The Command Center talk with the scout privately": the next answer in the
\* channel a subject waits on is the one to its own call.
OwnAnswer ==
    \A p \in Subject :
        (st[p] = "wait" /\ chan[p] # 0 /\ rep[chan[p]] # <<>>) =>
            Head(rep[chan[p]]) = [cmd |-> call[p], pid |-> p]

\* No program runs without a scout: after an execve() the new image has no SIGSYS
\* handler, and as long as the Carrier lives it is kept stopped until
\* handle_exec() has injected one, whatever kills, interrupts or fails meanwhile.
ExecInstrumented ==
    ~ CarrierGone => \A p \in Subject : st[p] = "image" => evt[p] # "none"

\* CARRIER_SOCK is full, and so is never emptied again if the Carrier itself
\* waits for a place in it.
CarrierSockFull == Len(carrierq) >= QLen

\* The Command Center answers every call that waits for an answer, unless the
\* Carrier ends or blocks.
CallsAnswered ==
    \A p \in Subject :
        (st[p] = "wait" /\ call[p] = "file") ~>
            (st[p] # "wait" \/ pc \in {"done", "blocked"} \/ CarrierSockFull)

\* handle_exec() ends and sigchld_handler() hears again: the waits for the stop,
\* the trap and the injected scout are all met, also when the execve() fails or
\* the subject is killed.  No other subject is served before.
ExecEnds == (InExec \/ sigchld_ignore) ~> ((~ InExec /\ ~ sigchld_ignore) \/ CarrierSockFull)

\* When the handler is told of the end of the first subject and makes a stop of
\* it, the loop takes the STOP_MSG_LOOP_CMD out of CARRIER_SOCK and main()
\* returns, however much the other subjects ask for meanwhile.
StopHeeded ==
    (sigchld.who = First /\ ~ sigchld_ignore /\ Stops(sigchld.status)) ~>
        (CarrierGone \/ CarrierSockFull)

\* "Install a SIGCHLD handler to terminate the Carrier when the mission is
\* completed": once the first subject has exited, main() returns.
CarrierStops == fate = "exited" ~> CarrierGone

=============================================================================
