------------------------------- MODULE Bridge -------------------------------
(***************************************************************************)
(* One subject's calls through the bridge of its scout: the request packed *)
(* (sandbox/bridge.cpp), sent with a descriptor (toolkits/msghelper.cpp),  *)
(* unpacked and carried out by the Command Center (handle_scout_msg of     *)
(* loader/cmdcenter.cpp), and the answer on its way back.                  *)
(*                                                                         *)
(* The kernel's part is modelled from how it is used: a table of           *)
(* descriptors with room for few, datagrams that carry one, and a file     *)
(* system in which a path exists or not.  Paths are absolute, or relative  *)
(* to the descriptor of a directory.                                       *)
(*                                                                         *)
(* A definition X_Y is a wrong variant of the definition X that follows    *)
(* it: with it in the place of X a property at the end fails.              *)
(***************************************************************************)
EXTENDS TinyPack, FiniteSets

CONSTANTS
    NPaths,         \* number of paths
    MaxFd,          \* the highest descriptor of a process
    BufSizes,       \* sizes of readlink's buffer
    data_buf_size,  \* cells a msg_receiver has room for
    QueueMax        \* datagrams a socket holds

ASSUME BridgeAssumption ==
    /\ NPaths \in Nat \ {0} /\ MaxFd \in Nat /\ data_buf_size \in Nat /\ QueueMax \in Nat \ {0}
    /\ BufSizes \subseteq Nat

VARIABLES
    scoutFds,   \* descriptor -> file, of the subject
    carrierFds, \* descriptor -> file, of the Carrier
    fs,         \* the files that exist
    request,    \* datagrams to the Carrier
    reply,      \* datagrams to the scout
    pc,         \* the subject: "run", "wait", "returned" or "aborted"
    carrier,    \* the Carrier: "loop" or "aborted"
    rcvr,       \* the scout's msg_receiver: fd_rcvd_num and fd_rcvd[0]
    call,       \* the call under way, or NoCall
    result,     \* its result
    want,       \* history: what the call should give
    dropped     \* history: a descriptor of this call found no place

vars == <<scoutFds, carrierFds, fs, request, reply, pc, carrier, rcvr, call, result, want, dropped>>

-----------------------------------------------------------------------------
(* Files and descriptors (the kernel's).                                   *)

Fds == 0 .. MaxFd
PathIds == 1 .. NPaths
Path(i) == [k \in 1 .. i |-> i]             \* path i is i cells long
AtDir(i) == NPaths + i                      \* path i relative to the directory
Dir == 2 * NPaths + 1                       \* the directory, and any file in use elsewhere
Free == 0
Files == {Dir} \cup 1 .. (2 * NPaths)

EBADF == -9
ENOENT == -2
ENOTDIR == -20
EMFILE == -24

FreeFds(table) == {fd \in Fds : table[fd] = Free}
Lowest(fds) == CHOOSE fd \in fds : \A k \in fds : fd <= k

\* A datagram: cells and the file of the descriptor it carries, or Free.
Datagram(data, file) == [data |-> data, file |-> file]

\* send_msg's array of descriptors when sendfd2 is -1: a descriptor 0 is counted but
\* not copied, and sendfd2 takes its place.
WireFd(fd) == IF fd = 0 THEN -1 ELSE fd

\* send_msg and sendmsg: nothing is sent when the descriptor is not open.
Sendable(table, fd) == fd < 0 \/ (WireFd(fd) \in Fds /\ table[WireFd(fd)] # Free)
Sent(table, data, fd) == Datagram(data, IF fd < 0 THEN Free ELSE table[WireFd(fd)])

\* recvmsg: the descriptor gets the lowest free number, or is dropped.
Lands(table, msg) == msg.file # Free /\ FreeFds(table) # {}
Installed(table, msg) ==
    IF Lands(table, msg) THEN [table EXCEPT ![Lowest(FreeFds(table))] = msg.file] ELSE table

\* receive_one: fd_rcvd_num and fd_rcvd change only with a descriptor.
Receiver(num, fd) == [num |-> num, fd |-> fd]
NewReceiver == Receiver(0, 0)
Receives(r, table, msg) == IF Lands(table, msg) THEN Receiver(1, Lowest(FreeFds(table))) ELSE r

-----------------------------------------------------------------------------
(* The calls.                                                              *)

Cmds == <<"hello", "open", "openat", "access", "fstat", "stat", "lstat", "execve",
          "readlink", "unlink", "vfork">>
Cmd(op) == CHOOSE i \in 1 .. Len(Cmds) : Cmds[i] = op
Flags == 5      \* flags, modes and pids, which nothing here depends on

Call(op, path, fd, bufsize) == [op |-> op, path |-> path, fd |-> fd, bufsize |-> bufsize]
NoCall == Call("none", 1, -1, 0)
Calls ==
    {Call(op, i, -1, 0) : op \in {"access", "stat", "lstat", "unlink"}, i \in PathIds}
    \cup {Call("openat", i, fd, 0) : i \in PathIds, fd \in Fds \cup {-1}}
    \cup {Call("fstat", 1, fd, 0) : fd \in Fds \cup {-1}}
    \cup {Call("readlink", i, -1, n) : i \in PathIds, n \in BufSizes}
    \cup {Call("open", 1, -1, 0)}

\* send_open waits for no answer and returns 0.  (send_vfork is not compiled in.)
Unanswered == {"open"}

\* What the bridge packs for a call.
Fields(c) ==
    LET int(v) == Field(Word, v)
        path == Field(Str, Path(c.path)) IN
    <<int(Cmd(c.op))>> \o
    CASE c.op = "open" -> <<path, int(Flags), int(Flags)>>
      [] c.op = "openat" -> <<int(c.fd), path, int(Flags), int(Flags)>>
      [] c.op = "access" -> <<path, int(Flags)>>
      [] c.op = "fstat" -> <<int(c.fd)>>
      [] c.op \in {"stat", "lstat", "unlink"} -> <<path>>
      [] c.op = "readlink" -> <<path, Field(Long, c.bufsize)>>

\* What the Command Center unpacks for a command.
RequestTypes_LongFd(op) ==
    CASE op = "openat" -> <<Word, Str, Word, Word>>
      [] op = "access" -> <<Str, Word>>
      [] op = "fstat" -> <<Long>>
      [] op \in {"stat", "lstat", "unlink"} -> <<Str>>
      [] op = "readlink" -> <<Str, Long>>

RequestTypes(op) ==
    CASE op = "openat" -> <<Word, Str, Word, Word>>
      [] op = "access" -> <<Str, Word>>
      [] op = "fstat" -> <<Word>>
      [] op \in {"stat", "lstat", "unlink"} -> <<Str>>
      [] op = "readlink" -> <<Str, Long>>

\* The types of the answer, after its size.
ReplyTypes(c) ==
    CASE c.op \in {"openat", "access", "unlink"} -> <<Word>>
      [] c.op \in {"fstat", "stat", "lstat"} -> <<Word, Struct>>
      [] c.op = "readlink" -> <<Word, Buf(c.bufsize)>>

\* A result: the return value, and the file it tells of (a stat, a link's target or
\* an opened descriptor).
Result(r, file) == [r |-> r, file |-> file]
NoResult == Result(0, Free)

\* The file of openat(dirfd, path), where dirfd is -1 or refers to the file dir.
OpenedFile(dir, path) == IF dir = Free THEN path ELSE AtDir(path)
OpenError(dir, path) ==
    IF dir \notin {Free, Dir} THEN ENOTDIR
    ELSE IF OpenedFile(dir, path) \notin fs THEN ENOENT ELSE 0

PathResult(file, r) == IF file \in fs THEN Result(r, file) ELSE Result(ENOENT, Free)
Least(a, b) == IF a < b THEN a ELSE b

\* What the kernel would give the subject itself.  The target of link i is i cells
\* long, all of them i.
Wanted(c) ==
    LET file == IF c.fd \in Fds THEN scoutFds[c.fd] ELSE Free IN
    CASE c.op \in Unanswered -> NoResult
      [] c.op = "openat" -> IF OpenError(file, c.path) < 0 THEN Result(OpenError(file, c.path), Free)
                            ELSE Result(0, OpenedFile(file, c.path))
      [] c.op = "fstat" -> IF file = Free THEN Result(EBADF, Free) ELSE Result(0, file)
      [] c.op = "readlink" -> PathResult(c.path, Least(c.path, c.bufsize))
      [] OTHER -> PathResult(c.path, 0)

-----------------------------------------------------------------------------
(* The subject.                                                            *)

\* Other work of the Carrier holds all, some or none of its descriptors.
Init ==
    /\ scoutFds = [fd \in Fds |-> Dir]
    /\ \E n \in 0 .. (MaxFd + 1) : carrierFds = [fd \in Fds |-> IF fd < n THEN Dir ELSE Free]
    /\ fs = Files \ {NPaths, AtDir(1)}
    /\ request = <<>> /\ reply = <<>>
    /\ pc = "run" /\ carrier = "loop"
    /\ rcvr = NewReceiver
    /\ call = NoCall /\ result = NoResult /\ want = NoResult /\ dropped = FALSE

\* A call of sandbox_bridge up to its receive_one; what send_msg returns is not
\* looked at.
SendCall(c) ==
    /\ pc = "run" /\ Len(request) < QueueMax
    /\ call' = c /\ want' = Wanted(c)
    /\ request' = IF Sendable(scoutFds, c.fd)
                  THEN Append(request, Sent(scoutFds, pack_size_prefix(Fields(c)), c.fd))
                  ELSE request
    /\ pc' = IF c.op \in Unanswered THEN "returned" ELSE "wait"
    /\ UNCHANGED <<scoutFds, carrierFds, fs, reply, carrier, rcvr, result, dropped>>

\* The assertions on an answer: its length, its prefix, its fields, its descriptor.
ReplyAccepted(msg, r) ==
    LET types == <<Word>> \o ReplyTypes(call) IN
    /\ Len(msg.data) <= data_buf_size
    /\ check_completed(types, msg.data) /\ get_size(types, msg.data) = Len(msg.data)
    /\ msg.data[1] + 1 = Len(msg.data)
    /\ call.op = "openat" /\ msg.data[2] >= 0 => r.num = 1

\* receive_one and the rest of the call.
TakeReply ==
    /\ pc = "wait" /\ reply # <<>>
    /\ LET msg == Head(reply)
           r == Receives(rcvr, scoutFds, msg)
           table == Installed(scoutFds, msg)
           answer == unpack(<<Word>> \o ReplyTypes(call), msg.data)
           file == IF answer[2] < 0 THEN Free
                   ELSE CASE call.op = "openat" -> table[r.fd]
                          [] call.op \in {"fstat", "stat", "lstat"} -> answer[3]
                          [] call.op = "readlink" -> IF answer[2] > 0 THEN answer[3][1] ELSE call.path
                          [] OTHER -> call.path
       IN
        /\ scoutFds' = table /\ rcvr' = r
        /\ dropped' = (dropped \/ (msg.file # Free /\ ~ Lands(scoutFds, msg)))
        /\ IF ReplyAccepted(msg, r)
           THEN /\ pc' = "returned"
                /\ result' = Result(IF call.op = "openat" /\ answer[2] >= 0 THEN 0 ELSE answer[2], file)
           ELSE pc' = "aborted" /\ UNCHANGED result
    /\ reply' = Tail(reply)
    /\ UNCHANGED <<carrierFds, fs, request, carrier, call, want>>

\* The subject goes on with the result.
Return ==
    /\ pc = "returned"
    /\ pc' = "run" /\ call' = NoCall /\ result' = NoResult /\ want' = NoResult /\ dropped' = FALSE
    /\ UNCHANGED <<scoutFds, carrierFds, fs, request, reply, carrier, rcvr>>

\* Descriptors of the subject also change without the Carrier: close, and
\* send_dup and send_dup2, which are carried out in place.
notFds == <<carrierFds, fs, request, reply, pc, carrier, rcvr, call, result, want, dropped>>

Close(fd) ==
    /\ pc = "run"
    /\ scoutFds' = [scoutFds EXCEPT ![fd] = Free]
    /\ UNCHANGED notFds

send_dup(fd) ==
    /\ pc = "run" /\ scoutFds[fd] # Free /\ FreeFds(scoutFds) # {}
    /\ scoutFds' = [scoutFds EXCEPT ![Lowest(FreeFds(scoutFds))] = scoutFds[fd]]
    /\ UNCHANGED notFds

send_dup2(old, new) ==
    /\ pc = "run" /\ scoutFds[old] # Free
    /\ scoutFds' = [scoutFds EXCEPT ![new] = scoutFds[old]]
    /\ UNCHANGED notFds

-----------------------------------------------------------------------------
(* The Carrier: handle_scout_msg.                                          *)

Msg == Head(request)
\* The request received, its command and its fields.
Rcvd == Receives(NewReceiver, carrierFds, Msg)
Op == Cmds[Msg.data[2]]
Arg == unpack(RequestTypes(Op), SubSeq(Msg.data, 3, Len(Msg.data)))
PathArg(i) == Arg[i][1]

Handles(ops) == carrier = "loop" /\ request # <<>> /\ Op \in ops

\* The assertions on a request.
Accepted ==
    /\ Len(Msg.data) <= data_buf_size /\ Len(Msg.data) = Msg.data[1] + 1
    /\ check_completed(RequestTypes(Op), SubSeq(Msg.data, 3, Len(Msg.data)))
    /\ Op \in {"openat", "fstat"} => Rcvd.num = 1 \/ Arg[1] < 0

Ends(table) ==
    /\ carrierFds' = table /\ request' = Tail(request)
    /\ dropped' = (dropped \/ (Msg.file # Free /\ ~ Lands(carrierFds, Msg)))
    /\ UNCHANGED <<scoutFds, pc, rcvr, call, result, want>>

HandleAborts ==
    /\ Handles({"openat", "access", "fstat", "stat", "lstat", "readlink", "unlink"}) /\ ~ Accepted
    /\ carrier' = "aborted"
    /\ Ends(Installed(carrierFds, Msg))
    /\ UNCHANGED <<fs, reply>>

Closed_NotZero(table, fd) == IF fd > 0 THEN [table EXCEPT ![fd] = Free] ELSE table

\* close, of a descriptor or of a negative number
Closed(table, fd) == IF fd \in Fds THEN [table EXCEPT ![fd] = Free] ELSE table

\* The received descriptor is used, then closed.
HandleOpenat ==
    /\ Handles({"openat"}) /\ Accepted
    /\ LET table == Installed(carrierFds, Msg)
           dirfd == IF Arg[1] >= 0 THEN Rcvd.fd ELSE Arg[1]
           dir == IF dirfd >= 0 THEN table[dirfd] ELSE Free
           path == PathArg(2)
           err == IF FreeFds(table) = {} THEN EMFILE ELSE OpenError(dir, path)
           fd == IF err < 0 THEN err ELSE Lowest(FreeFds(table))
           opened == IF err < 0 THEN table ELSE [table EXCEPT ![fd] = OpenedFile(dir, path)]
           kept == Closed(opened, dirfd)
       IN
        /\ reply' = IF Sendable(kept, fd)
                    THEN Append(reply, Sent(kept, pack_size_prefix(<<Field(Word, fd)>>), fd))
                    ELSE reply
        /\ Ends(Closed(kept, fd))
    /\ UNCHANGED <<fs, carrier>>

Answers(fields) == reply' = Append(reply, Datagram(pack_size_prefix(fields), Free))

\* statbuf is not set when the call fails.
StatFields(r) == <<Field(Word, r.r), Field(Struct, r.file)>>

HandleFstat_SentNumber ==
    /\ Handles({"fstat"}) /\ Accepted
    /\ LET table == Installed(carrierFds, Msg)
           file == IF Arg[1] >= 0 THEN table[Arg[1]] ELSE Free IN
        /\ Answers(StatFields(IF file = Free THEN Result(EBADF, Free) ELSE Result(0, file)))
        /\ Ends(Closed(table, Rcvd.fd))
    /\ UNCHANGED <<fs, carrier>>

HandleFstat ==
    /\ Handles({"fstat"}) /\ Accepted
    /\ LET table == Installed(carrierFds, Msg)
           fd == IF Arg[1] >= 0 THEN Rcvd.fd ELSE Arg[1]
           file == IF fd >= 0 THEN table[fd] ELSE Free IN
        /\ Answers(StatFields(IF file = Free THEN Result(EBADF, Free) ELSE Result(0, file)))
        /\ Ends(Closed(table, fd))
    /\ UNCHANGED <<fs, carrier>>

HandleStat ==
    /\ Handles({"stat", "lstat"}) /\ Accepted
    /\ Answers(StatFields(PathResult(PathArg(1), 0)))
    /\ Ends(Installed(carrierFds, Msg))
    /\ UNCHANGED <<fs, carrier>>

HandleAccess ==
    /\ Handles({"access"}) /\ Accepted
    /\ Answers(<<Field(Word, PathResult(PathArg(1), 0).r)>>)
    /\ Ends(Installed(carrierFds, Msg))
    /\ UNCHANGED <<fs, carrier>>

HandleUnlink_SilentError ==
    /\ Handles({"unlink"}) /\ Accepted
    /\ IF PathArg(1) \in fs THEN Answers(<<Field(Word, 0)>>) ELSE UNCHANGED reply
    /\ fs' = fs \ {PathArg(1)}
    /\ Ends(Installed(carrierFds, Msg))
    /\ UNCHANGED carrier

HandleUnlink ==
    /\ Handles({"unlink"}) /\ Accepted
    /\ Answers(<<Field(Word, PathResult(PathArg(1), 0).r)>>)
    /\ fs' = fs \ {PathArg(1)}
    /\ Ends(Installed(carrierFds, Msg))
    /\ UNCHANGED carrier

\* The whole buffer goes back, the part readlink did not write with it.
HandleReadlink ==
    /\ Handles({"readlink"}) /\ Accepted
    /\ LET bufsize == Arg[2]
           r == PathResult(PathArg(1), Least(PathArg(1), bufsize)).r
           buf == [k \in 1 .. bufsize |-> IF k <= r THEN PathArg(1) ELSE Terminator] IN
        Answers(<<Field(Word, r), Field(Buf(bufsize), buf)>>)
    /\ Ends(Installed(carrierFds, Msg))
    /\ UNCHANGED <<fs, carrier>>

HandleUnknown_Answers ==
    /\ Handles(Unanswered)
    /\ Answers(<<Field(Word, -1)>>)
    /\ Ends(Installed(carrierFds, Msg))
    /\ UNCHANGED <<fs, carrier>>

\* "Unknown cmd": no answer.
HandleUnknown ==
    /\ Handles(Unanswered)
    /\ Ends(Installed(carrierFds, Msg))
    /\ UNCHANGED <<fs, reply, carrier>>

CarrierStep ==
    \/ HandleAborts \/ HandleOpenat \/ HandleFstat \/ HandleStat \/ HandleAccess
    \/ HandleUnlink \/ HandleReadlink \/ HandleUnknown

-----------------------------------------------------------------------------

Next ==
    \/ \E c \in Calls : SendCall(c)
    \/ TakeReply \/ Return
    \/ \E fd \in Fds : Close(fd) \/ send_dup(fd)
    \/ \E old, new \in Fds : send_dup2(old, new)
    \/ CarrierStep

\* The Carrier's loop and a subject that waits for a datagram go on.
Fairness == WF_vars(CarrierStep) /\ WF_vars(TakeReply)

Spec == Init /\ [][Next]_vars /\ Fairness

-----------------------------------------------------------------------------
(* Properties.                                                             *)

\* Descriptors and files have their types, and there is never more than one answer
\* under way.
TypeOK ==
    /\ scoutFds \in [Fds -> Files \cup {Free}] /\ carrierFds \in [Fds -> Files \cup {Free}]
    /\ fs \subseteq Files
    /\ Len(request) <= QueueMax /\ Len(reply) <= 1
    /\ pc \in {"run", "wait", "returned", "aborted"} /\ carrier \in {"loop", "aborted"}
    /\ rcvr.num \in 0 .. 1 /\ rcvr.fd \in Fds
    /\ dropped \in BOOLEAN

\* A call that waits for its answer and returns gives what it would have given in the
\* subject: the return value, the file of a stat or a link, the file behind an opened
\* descriptor.  Two exceptions: the Carrier has no descriptor left (EMFILE), and the
\* subject has none left, when openat returns the number of an earlier one
\* (receive_one does not reset fd_rcvd_num).
AnswerMatches ==
    pc = "returned" => \/ result = want
                       \/ call.op = "openat" /\ result.r = EMFILE
                       \/ call.op = "openat" /\ dropped

TooLong(c) == c.op = "readlink" /\ c.bufsize + 3 > data_buf_size

\* The assertions of both sides fail only when a process had no place for a
\* descriptor, or readlink's buffer does not fit into a datagram: what one side packs
\* is what the other unpacks.
AssertionsHold == pc = "aborted" \/ carrier = "aborted" => dropped \/ TooLong(call)

\* Between requests the Carrier holds the descriptors it held before: each one it
\* received or opened for a subject is closed again.
CarrierKeepsNone ==
    [][carrier' = "loop" => carrierFds' = carrierFds]_vars

\* A call that passes a descriptor other than 0 that is open, or none, returns or
\* aborts; the Carrier's descriptor 0 is in use, and the Carrier has not aborted.
AnswerArrives ==
    (pc = "wait" /\ (call.fd < 0 \/ (call.fd > 0 /\ scoutFds[call.fd] # Free)) /\ carrierFds[0] # Free)
        ~> (pc # "wait" \/ carrier = "aborted")
=============================================================================
