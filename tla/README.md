# MoSingAr: specifications, model checking and proofs

MoSingAr runs programs in a seccomp sandbox. A *Carrier* starts the first
program, *Scouts* inside every process trap its system calls and ask the
*Command Center* in the Carrier to do them, and the *Flight Deck* injects a
Scout into every new image. Beside it stand *Mux*, channels multiplexed over one
connection, and *oglfs*, a store of file trees for synchronising machines.

This directory holds TLA+ modules translated from that code, TLC configurations
that check them on small instances, and TLAPS proofs of the results that matter
most for every instance.

## The parts of the system

| part | state | operations | what is hard |
|---|---|---|---|
| Mux (`mux/`) | control channel, `mChannels`, `mNextChanId`, `mWaitingPackets`, two sequence numbers per channel | Open, Write, Close, one handler per packet kind | both ends act at once; packets cross; writes fail; counters wrap; asserts in every handler |
| `Mux::ReceiveRaw` | `mInputBuf`, `mInputBufSize` | one call per piece of the byte stream | pieces end anywhere, sizes come from the peer |
| Carrier, Command Center (`loader/main.cpp`, `carrier`, `cmdcenter`) | epoll set, `scoutfds`, `stopping_message`, `sigchld_ignore`, `exitval` | message loop, one case per call, `handle_exec`, SIGCHLD handler | one thread, signals, ptrace, processes that die at any moment, bounded socket queues |
| Scout, bridge (`sandbox/scout`, `bridge`, `seccomp`) | private channel, receiver | one sender per trapped call, vfork and execve handlers | answers are matched by order only; fork and threads share the channel |
| Flight Deck, ptrace tools (`loader/flightdeck`, `ptracetools`) | registers and memory of the tracee | attach, waits, injection | interrupted waits, other stops than the expected one |
| seccomp filter (`sandbox/filter.cpp`) | none | a BPF program | jump offsets; which calls it misses |
| TinyMalloc (`sandbox/tinymalloc.cpp`) | chunks, size classes, list of large blocks | alloc, free | a block must be found again when it is freed |
| oglfs (`oglfs/`) | tree of lazily loaded entries, object files, root reference | add, remove, commit, merge | unloaded directories, crashes during commit |
| message helper, tinypack (`toolkits/`) | buffers | send, receive, pack, unpack | descriptors with messages, sizes |

Subjects (the processes in the sandbox) and the Carrier interact by datagrams:
one channel per subject, created by its scout and announced on `CARRIER_SOCK`;
by ptrace during an `execve()`; and by SIGCHLD. The signal handler stops the
message loop by sending a message to `CARRIER_SOCK` itself. Mux and oglfs are not
connected to the rest yet.

What makes each part correct:

- Mux: no assert fails; ids never clash; both ends come to agree; opens are
  answered and closes arrive.
- ReceiveRaw: every packet is handled once, whole, in order; the buffer is never
  overrun.
- Carrier: an answer reaches the subject and the call it belongs to; no image
  runs without a scout; every call is answered; the Carrier ends when, and only
  when, the first subject has.
- TinyMalloc: blocks never overlap, and what was allocated can be freed.
- Bridge: a call through the Carrier gives what it would have given in the
  subject, and leaves nothing behind in the Carrier.
- oglfs: what was committed can be read back, also after a crash; a merge keeps
  the changes of both sides or reports a conflict.

`PROJECT.json` lists the hazards of the code line by line, with the properties
that watch them.

## Modules

A definition named `X_Y` is a wrong variant of the definition `X` below it, of
the kind a slip in the code would produce. Replacing `X` by it makes one of the
properties fail, which shows that the property depends on the code.

### Mux.tla

Two sides, 0 (server) and 1 (client), joined by a FIFO wire in each direction.
The variables are the members of `class Mux`, a failed assert (or the `delete` of
the control channel, a member) halts its side and is recorded. `Use(s)` is what
an application asks for (`Open`, `Write`, `AskClose`), `Receive(s)` is
`HandleIncomingPacket`, one action per kind of packet and outcome. A write of the
transport may fail, up to `MaxFails` times: the packet is lost and the channel
invalid, as in `Channel::Send`. `Sizes` is what the listener may answer to a
path: negative refuses, zero makes a stream. Payloads, paths and listener
callbacks are left out; one `Write` is one packet, the step `StreamChannel::Write`
repeats. Sequence numbers are counted modulo `SeqMod`, 2^32 in the code.

Listeners are assumed to be set, and not to close a channel from inside its own
`OnReceive`.

### MuxInvariant.tla and the modules of proofs

`MuxInvariant` holds the inductive invariants of `Mux`. `MuxProofs`,
`MuxFramingProofs`, `CommandCenterProofs`, `BridgeProofs`, `TinyMallocProofs`,
`OglRepoProofs` and `OglMergeProofs` hold invariants, theorems and proofs only, and
`InductionFacts` what they share; see "Proofs" below.

### MuxFraming.tla

`ReceiveRaw`, one iteration of its loop per step. A byte is identified by its
place in the stream, so the buffer is a window of the stream and its length says
all. With `Split = FALSE` a piece ends between packets or inside a header, and
then the next piece is exactly the rest of that packet; the only transport in the
repository, `Mock` in `mux/mux.cpp`, is within this: it hands over one packet
per call. With `Split = TRUE` a piece ends anywhere, as on a real connection.

### CommandCenter.tla

The Carrier as one thread with a program counter, `N` subjects, their channels
and the kernel between them. It starts when `start_mission()` has returned.

- Subjects: `Call` (trap and send), `TakeReply`, `Vfork`, `ExecveSucceeds`,
  `ExecveFails`, `Exit`, `Kill`, `OtherSignal`. The calls are of three kinds: the
  ones that wait for an answer, `open`, which does not wait (and which the
  Command Center does not know), and `execve`.
- The Carrier: `Sigaction` and `Check` of `main()`, `EpollWait` and the handlers
  of `handle_message`, and `handle_exec` cut where it waits: `HandleExec`,
  `Attached`, `ExecSeen`, `TakeOff`, with `ExecFailed` and `Abandon` for the ways
  it fails. `Check` chooses freely where `main()` reads an uninitialised status.
- `SigchldHandler` runs between any two steps, and may interrupt a wait
  (`SA_RESTART` is not set). A pending signal is delivered before the next step of
  the Carrier, because every step makes a system call; a second SIGCHLD while one
  is pending is dropped.
- The kernel's part (what a socket queue holds, when SIGCHLD is sent, what ptrace
  reports, `<sys/wait.h>`) is modelled from how the code uses it.

Abstracted: the files behind the calls, message contents, registers and injected
code. An interrupted take-off leaves its subject where it was. `remove_scout()`
has no action: it waits for EPOLLRDHUP, which a datagram socketpair never
reports. `Fork` is not part of `Next`, since the filter lets it through untrapped;
`ForkSpec` adds it.

### TinyMalloc.tla

One heap and one caller, with two kinds of step, `malloc` and `free`. Each is
atomic: the allocator has no lock and serves one thread; what is hard is the
sequence of calls.
`heap` is the `mem_block_t` with its chunks (numbered, linked through `next` as in
the code), `live` the bag of blocks in use. The operators keep the names of the
code (`put_front`, `make_sure`, `alloc_chunk`, ...) and take a heap to a heap;
`MallocSmall`, `MallocLarge`, `FreeSmall`, `FreeLarge` and `FreeFails` are `alloc()`
and `free()` by the branch they take. `get_type()` is translated with its oddity:
sizes of at most 4 go to the class of 16 bytes.

Where `put_large` and `put_large_free` append a chunk that still points into the
list it came from, the two lists get a common tail. `tangled` records it, and the
model stops there: the lists may become cyclic and no list property holds after
it. The size of the block and the truncation of sizes to 32 bits are left out.
`alloc_free` takes some unused element: in chunks of up to eight elements, as in the
run, TLC takes the first, as the code does; in bigger chunks the code starts at a
rotating place. No proof depends on which one it is.

`MallocAssumption` and `SizesAssumption` say what the constants of the code must
have for the allocator to work at all: every class fits into a small chunk, the
oddity of `get_type()` still names a class, and both kinds of chunks of
`chunkinfo_t`s hold two of them, so that one is left when the chunk has its own. In
the code `LowerPow` is 2, `UpperPow` 8, the chunks have 256 and 1024 bytes and a
`chunkinfo_t` 32, of which they hold 7 and 31.

### TinyPack.tla and Bridge.tla

`TinyPack` is `tinypack.h` as functions: a list of typed fields is packed into a
sequence of cells, `sizes`, `get_size`, `check_completed` and `unpack` read it
back. A type takes a number of cells that sets it apart from the others (an `int`
1, a `size_t` 2, a `struct stat` 3, strings and buffers a length and their cells),
so that reading a field at another type or place shows.

`Bridge` composes it with `send_msg`/`receive_one`, `sandbox_bridge` and
`handle_scout_msg`, for one subject and the Carrier. The state is two tables of
descriptors, the two queues of datagrams, the scout's receiver with its
`fd_rcvd_num`, and the files that exist. `SendCall` and `TakeReply` are the two
halves of every `send_*`, `HandleOpenat`, `HandleFstat`, ... the cases of
`handle_scout_msg`, and `HandleAborts` its assertions. `want` records what the
kernel would have given the subject itself. Descriptor 0 is translated with its
oddity: `send_msg` counts it but puts `sendfd2`, which is -1, in its place, so that
`sendmsg` fails; nobody looks at the result. `CommandCenter` has the same messages
without content and with several subjects, `Bridge` their content with one.

The kernel's part (the lowest free descriptor, a datagram whose descriptor finds no
place, `openat` in a directory) is modelled from how it is used. Files are told
apart by number; flags, modes and the content of a `stat` are not. Paths are
absolute or relative to a descriptor: a path relative to the working directory is
resolved in the Carrier's, which nothing in the code corrects.

### OglTree.tla, OglStore.tla and OglRepo.tla

`OglTree` is the tree an `ogl_repo` holds in memory, as a function from paths to
entries (kind, hash, `modified`, `loaded`), with the operations of `ogl_dir` on it:
`Put`, `mark_modified`, `load`, `find`, and the object `dump()` makes (`DirObj`). A
hash stands for what it is the hash of, so hashes do not collide, and an object is
its own name. `Names` is finite, as the names in a directory are.

`OglRepo` runs on it: lookups and edits through `find`, and `commit()` cut at every
write: `CollectDir`, `HashFile`, `DumpLink` on the way down, `DumpDir` on the way
back, then `TruncateRef` and `WriteRef`. Every `...Fails` action is an error
return: a file that has gone, an object or the root reference that cannot be
written. `Crash` kills the process at any point, with the object in flight cut
short or not; `Open` starts again from what is on the disk. It is the process that
dies, not the machine: what was written stays. With `Careful`, callers have looked
into a directory before they change it; without, they have not, and a commit may
fail its assertion (`CarelessSpec`).

`OglStore` is what this promises: a working tree that is edited, and a stored tree
that changes as a whole at a commit or is gone while its reference is rewritten.
`OglRepo` implements it under the mapping `work <- View(mem)`, which follows
hashes into directories that have not been read, and `stored <- rootRef`. Loading
is a stuttering step, and so is every step of a commit but the hashing of a file or
a link (its content becomes known) and the two writes of `root-ref`.

### OglMerge.tla

`ogl_repo::merge` on three trees, one directory of a pass per step: `CheckDir` and
`CheckFails` for `check_conflictions`, `ApplyDir` for `apply_changes`; `Added`,
`Removed` and `Modified` are `ogl_dir::diff`. The initial states are all triples of
trees over `Slots`. The repositories have been opened after their last commit and
read as a whole: `merge()` compares the hashes of the last commit, and copies
directories as they are in memory, so one that was not read is copied empty.

## Runs

| run | instance | shows |
|---|---|---|
| `mux` | one open each, server sends 5 packets and client 1, numbers modulo 4, one failed write | ids never clash; until a number wraps the sequence asserts hold; the ends agree when all is quiet; a nak never hits a live channel |
| `mux_live` | one open and one packet each, refusals, one failed write | opens are answered, closes arrive; the inductive invariant holds |
| `framing` | four packets of 2 to 5 bytes, header 2, buffer 4 | every packet handled once and whole, no overrun, every call returns |
| `framing_split` (violated) | pieces that end anywhere | a partial packet is handled (`mux.cpp:326`) |
| `carrier` | two subjects, two calls each, one stray signal, exit codes 0 and 1, queues of 2 | answers are private, no image without a scout, calls are answered, the hand-over and the loop end |
| `carrier_lost_sigchld` (violated) | two subjects, exit code 0 | an exit during another subject's exec is missed, the Carrier hangs |
| `carrier_fork` (violated) | two subjects, fork | one subject takes the other's answer |
| `bridge` | two paths, three descriptors in each process, readlink buffers of 1, 3 and 8 in datagrams of 10, queues of 2 | results match, packer and unpacker agree, the Carrier keeps no descriptor, answers arrive |
| `malloc` | classes of 4 to 32 bytes, chunks of 64, five request sizes, three blocks in use, seven chunks | blocks overlap nothing, chunks stay in their lists, a `chunkinfo_t` is in reserve, `free()` finds its block |
| `ogl` | two names, depth 2, two contents, files, links and local entries, three edits or failures, any number of crashes | what is clean is stored, what is referred to was written, `OglStore` is implemented |
| `ogl_unloaded` (violated) | the same, callers not careful | a commit meets a modified directory that was never read (`ogl.cpp:633`) |
| `ogl_merge` | all triples of trees with four places, two directories deep | the merge is the three-way merge, conflicts are exact, changes are marked |

Why the bounds are enough. In `mux` the two opens can cross, every channel can be
written to from both ends and closed by both at once, and five packets wrap a
counter modulo 4 with some to spare; `mux_live` needs no wrap. Packet sizes in
`framing` lie below, at and above the buffer size, and three boundaries fall
inside the stream. In `carrier` the second subject is made by the first, so that
every state of a parent meets every state of a child; two calls let an answer to
the first be taken for the second; queues of two are filled by the announcements
alone, so full queues are reached. In `malloc` the request sizes are one in the
smallest class, one in the class of the `chunkinfo_t`, one in the largest small
class and two large ones, of which the smaller fits where the larger was; a chunk
holds one to seven elements, so that chunks fill up and a second chunk of a class,
also of `chunkinfo_t`s, is made within the bound. In `bridge` three descriptors are
what `openat` needs in the Carrier (descriptor 0, the directory, the file), and the
Carrier starts with none to all of them taken; one path and one name in the
directory are missing; one buffer is shorter than a link, one longer, one does not
fit. A queue of two holds an `open`, which nobody answers, and the call after it.
In `ogl` three events make, for instance, a directory, an entry in it and a failed
write, and then a crash and a second commit, which costs no event; depth 2 is a
directory that must be written before the root. Edits and failures share one bound
(`MaxEvents`) because each multiplies the states alike. In `ogl_merge` depth 3 is
needed for a directory both sides have changed inside one that both have changed.

`CHECK_DEADLOCK FALSE` except in the oglfs runs: the applications may stop asking,
a side that failed an assert stays halted, and the Carrier ends. In `OglRepo` and
`OglMerge` the steps `Aborted` and `Returned` stand for a program that has ended, so
that any other stop is reported.

### Fairness

- Mux: `WF(Receive(s))`. A transport keeps calling `ReceiveRaw` while bytes
  arrive. Nothing is assumed of the applications.
- MuxFraming: a loop that is entered is run on.
- CommandCenter: the Carrier is scheduled, signals are delivered, and a scout goes
  on with what it has begun: taking an answer, the system call `execve()`, the
  stop of an attach. Subjects' programs may stop at any point.

- Bridge: the Carrier's loop goes on, and so does a subject whose answer has
  arrived. The queue of a socket is not assumed to be fair between subjects: there
  is one.

The liveness properties of `carrier` except one case by name: `CARRIER_SOCK` is
full. Then the signal handler, or the scout the Carrier itself is waiting for,
waits for a place in a queue that only the Carrier empties.

## What the properties leave out by name

A property that holds with an exception names it, and the exception is what the
code does:

- `OpenAssertionsHold`: a refused `Open` names channel 0, which every side has, so
  each refusal fails `assert(GetChannel(...) == nullptr)` (`mux.cpp:161`) and the
  branch that would report the error is not reached.
- `SequenceHolds`, until a number wraps: after UINT_MAX the sender stamps 1 twice
  (`mux.cpp:20-23`), the reader goes on to 2 (`mux.cpp:41-42`).
- `StopHeeded`, for signals the handler takes for an end: it applies the macros for
  wait statuses to `si_status`, so the exit codes 127 and 255 look like stops, 19 and
  31 like signals it ignores, and the Carrier does not end.
- `FreeFinds`: blocks of the largest small class (129 to 256 bytes), which
  `find_chunk()` does not look through (`tinymalloc.cpp:377`).
- `AnswerMatches`: EMFILE of the Carrier; and a subject without a free descriptor, to
  which `openat` returns the number of an earlier one (`msghelper.cpp:95`).
- `AssertionsHold`: a process without a free descriptor, and `readlink` with a buffer
  that does not fit into a datagram.
- `AnswerArrives`: descriptor 0 and descriptors that are not open, for which nothing
  is sent (`msghelper.cpp:52`), and descriptor 0 of the Carrier.
- `CleanIsStored`: `root-ref` could not be written; `commit()` still reports success
  (`ogl.cpp:666`).
- `RootComplete`: objects a write of which was cut short. `dump()` does not look at
  the result of `store_obj()`, and a file cut short is taken for the object ever
  after (`ogl.cpp:840`).
- `ConflictsExact`: what dst did inside a directory that src has replaced by
  something else is lost without a conflict (`ogl.cpp:1109`).
- `MergeMarks`: a cloned directory has no hash and is not modified, so the next
  commit of dst writes a hash that was never set (`ogl.h:189-197`), against the
  comment at `ogl.cpp:976`.

## Findings

Four runs end in violations of what a comment, a document or an assert says; the
details and the lines are in `PROJECT.json`.

1. The test for an incomplete packet is the wrong way round.
2. The Carrier hangs when the first subject exits during another subject's exec.
3. `fork()` makes two subjects share a channel.
4. `add_file()` and its kind modify directories that were never read, and the
   commit that follows fails an assert.

## Proofs

Every theorem holds for every value of the constants: any number of channels,
packets, subjects, paths and names, any bounds and any queue lengths. What a
theorem assumes beyond the named assumptions of the modules (`SeqModAssumption`,
`SizesAssumption`, `BoundsAssumption`, `FramingAssumption`, `CarrierAssumption`,
`BridgeAssumption`, `TreeAssumption`, `RepoAssumption`, `SlotsAssumption`,
`MallocAssumption`, which TLC evaluates in the runs of these modules) is in its
statement.

An invariant proof has the same shape everywhere: the property is a part of an
inductive invariant, there is one lemma per action that it is kept, and the last
theorem puts them together.

**Induction.** The library's induction theorems take an operator as a parameter,
which the provers cannot instantiate. `InductionFacts` states induction for a *set*
of numbers instead (a set of numbers that has 0 and with each number the next has
all of them), and derives from it that a nonempty set of numbers has a least
member, and sums over a range. With it recursive functions can be proved about: one
shows by induction that a function with the defining equations exists up to every
*n*, so that the `CHOOSE` behind the definition has a witness.

### Mux

- `MuxProofs`: `TypeCorrect`, `IdsCorrect` and `OpenAssertionsCorrect`. Ids with the
  parity of side *s* are handed out by *s* alone, below `mNextChanId[s]`; a reply on
  the wire names an id no other reply names and its reader does not have.
  `OpenAssertionsHold` is not inductive by itself: that a reply is new to its reader
  depends on where its id came from and on what else is in flight. `IdInv` adds the
  ids in packets (`PacketsOK`), fresh replies (`Fresh`, `RepliesFresh`) and the
  ranges of ids. It does not need the sequence numbers and survives their wrap.
- `SequenceCorrect` (`Spec => []SequenceHolds`) from `Inv`, which is
  `StreamsCorrect`, also in `MuxProofs`. Per channel and direction, the packets on the wire carry
  consecutive numbers from the reader's `mSeqPeer` to the writer's `mSeq`, and a
  writer whose write failed has stopped. A packet that is taken from the front, put
  at the end, or lost at the end keeps this; so does a close in the middle of a
  stream, because the reader forgets the channel and ids are not used again.
- `NakCorrect` (`NakHitsNoLiveChannel`) and `EndsAgreeCorrect` (`EndsAgree`), also in
  `MuxProofs`, from `UndisturbedInv`: until a write fails, whatever one end has
  given up, or not heard of yet, is announced by a packet on its way to the other.
  A `CloseChan` was sent by an end that has given the channel up (`CloseSent`), a
  channel one end has given up is gone at the other or about to be closed
  (`Forgotten`), a nak travels behind such a close (`NakLate`), a waiting open has
  its request or its reply in flight (`Answered`). With empty wires only agreement
  is left. `BoundedCorrect` is the whole of `BoundedInv`, the invariant that TLC
  evaluates in `mux_live`.
- `MuxFramingProofs`: `BufferFitsCorrect` and `FramingTypeCorrect` hold wherever the
  stream is cut. The invariant adds that the handled packets, the buffer and the
  rest of the piece lie inside the stream (`InStream`): without it the packet at
  the start of the buffer might not exist. `FramesWholeCorrect` and
  `HandledExactlyCorrect` assume `~ Split`, the condition under which the run
  `framing` checks them and without which `framing_split` refutes the first. Their
  invariant `WholeInv` adds that between pieces the buffer starts at a packet, and
  holds at most its header (`Aligned`), until a packet is too big.

### The Carrier

`CommandCenterProofs` proves `CarrierTypes` (`TypeOK`), `RepliesArePrivate`
(`PrivateReply`), `AnswersAreOwn` (`OwnAnswer`) and `ImagesHaveScouts`
(`ExecInstrumented`) for any number of subjects. `CarrierInv` ties three things
together. A channel belongs to one subject (`ChannelsOwned`), and a request that is
to be answered is the last in it while its sender waits (`Requests`, `Drained`), so
that an answer finds the channel empty. `handle_exec()` works on a subject that waits
for that answer and nothing else (`Attaching`, `ReplyTraced`). And what a subject is
stopped at fits what it is doing (`Tracing`), which is why a new image is always
stopped until the scout is in. `ChansCounted` bounds the channels by what subjects
have made, and is what keeps `nChans` in its range. `OwnAnswer` is what
`carrier_fork` refutes for `ForkSpec`; without `fork()` it holds.

### The bridge

`BridgeProofs` first proves `RoundTrip`: for every list of well-formed fields,
`check_completed` accepts what `pack` made of it, `get_size` is its length and
`unpack` gives the fields back. The cells of field *i* start where the sizes of the
fields before it end, in the packed buffer and in what `sizes` computes of it; both
are recursive, hence the induction.

On that rest `BridgeTypes` (`TypeOK`), `AnswersMatch` (`AnswerMatches`),
`AssertionsCorrect` (`AssertionsHold`) and `CarrierKeepsNoneCorrect`
(`CarrierKeepsNone`). `BridgeInv` says that the queue holds requests nobody waits for
(`open`) and behind them at most the one of the call under way, packed from it
(`QueueOK`); that an answer is what the call should give, packed (`ReplyOK`); and that
the Carrier stops only with no answer under way (`AbortOK`). What a handler borrows,
the file of the call at a descriptor that was free (`Borrowed`), it gives back.
`AssertionsCorrect` assumes that the longest path and seven cells fit into a
receiver's buffer; in the code the buffer has 8192 bytes and a path at most 4096.

The proof found one fault of the model: in `TakeReply` the file of a result was a
`CASE` whose guards overlapped for negative answers. TLC takes the first that holds,
TLA+ any of them; the negative case is now told apart first.

### oglfs

`OglRepoProofs` proves `RepoTypes`, `CleanDirectories` (`CleanMatches`),
`NothingToCommit` (`CleanIsStored`), `RootIsComplete` (`RootComplete`) and
`RepoImplements` (`Implements`, that is `OglStore!Spec` under the mapping). All assume
`Careful`, the condition of the run `ogl`; without it a commit may fail its assertion,
which `ogl_unloaded` shows.

`RepoInv` has a part for each place a tree is in. On the disk: `root-ref` names the
object of a directory all the way down (`DirAt`), every object of which was written
or had its write cut short (`DiskInv`). In memory (`TreeOK`): whatever stands above a
modified entry is modified, up to the root, and a clean directory has the hash of its
entries. During a commit
(`CommitInv`): what is modified is in `dirs` or below something in `todumps`, `dirs`
lists a directory before those below it and is emptied from its end, and the root
becomes clean last. `DirAt` is stated with a set of pairs that is closed under going
down, not by recursion.

For the refinement, the view of a tree (`View`) does not change when a directory is
read, since what is read is what its hash said; an edit changes it at one path; a
dump does not, since the hash becomes what the entries already were; and when the root
is clean the view is that of its hash, so that the write of `root-ref` stores the
whole of it.

`OglMergeProofs` proves `MergeTypes`, `MergeIsThreeWay` (`MergeCorrect`),
`ConflictsAreExact` (`ConflictsExact`) and `ChangesAreMarked` (`MergeMarks`) for any
three trees of any width and depth. The reference definitions of these properties
speak of whole trees (`ThreeWay`, `Clash`), the code of one directory at a time, so
the proof first brings both to the same terms: `Clean` is what `check_conflictions`
wants of one entry, `Joint` says that a directory is one both passes enter, and a
first group of lemmas shows, with no program in sight, that there is no clash (but
for the excused ones) exactly when every entry of every joint directory is clean, and
that then `ThreeWay` takes from src what is at or below an entry that src changed in a
joint directory (`Taken`). These rest on the hash of a directory being equal exactly
when all that is below it is, which is an induction over the depth.

`MergeInv` then follows the queue. No two directories in it lie above each other
(`QueueInv`). While checking, each joint directory has passed or waits at or below one
in the queue (`CheckInv`). While applying, the entries below what is in the queue are
still those of before, and all others have their final value (`ValueAt`); a directory
in which something was replaced is marked (`MarkedAt`). When the queue is empty the
properties are what is left.

### The allocator

`TinyMallocProofs` proves `HeapStaysWhole` (the inductive invariant `MallocInv`),
`InfoReserved` (`InfoInReserve`), `MallocTypes` (`TypeOK`), `BlocksStayApart`
(`BlocksApart`), `ChunksAreKept` (`ChunksKept`) and `FreeFindsBlocks` (`FreeFinds`),
for all sizes of chunks and blocks and sequences of calls of any length.

`MallocInv` says of the heap between two calls: a chunk counts its free elements and
has the size of its class (`Shaped`); chunks lie behind each other (`Laid`); `nfrees` is
the sum over the class (`Counted`); each `chunkinfo_t` has an element to itself
(`Informed`); each bucket runs through the chunks of its class, once each (`Listed`),
and so do `large` and `large_free` through the large chunks in use and not in use
(`Larges`), until they get a common tail; and each block has an element or a large
chunk to itself (`Owned`). None of the five properties is inductive by itself:
`InfoInReserve` needs the sum, since `make_sure()` looks at `nfrees` and not at the
chunks; `BlocksApart` needs that the element an allocation takes was not the
`chunkinfo_t` of a chunk; `FreeFinds` needs the lists.

A list is a `Chain`: a numbering of its members from the end to the head. The lemmas
about it (a chunk put in front, taken out, moved to the front, put in its place) speak of
`next` as a function and of sets, so that they serve all the lists; one more says that
`Walk` runs through a chain, and so what `Seek` finds. Every operator of the code has
a lemma for what it does to a whole heap (`Gave`, `Joined`, `LargeMade`, `GaveBack`), and
the lemmas of the actions are put together from these. That blocks do not overlap comes
last, from the arithmetic of a chunk: elements lie behind the map and one element
apart.

### Only model-checked

- All liveness: `OpenAnswered`, `CloseReachesPeer`, `CallReturns`, `CallsAnswered`,
  `ExecEnds`, `StopHeeded`, `AnswerArrives`. Fairness and ENABLED are out of the
  prover's reach.
- What `carrier_lost_sigchld`, `carrier_fork`, `framing_split` and `ogl_unloaded`
  refute is shown by the counterexamples of these runs alone.

Every safety invariant and every action property that a passing run checks is also a
theorem.

Before they were proved, `RepoInv`, `BridgeInv`, `MergeInv` and `MallocInv` were
evaluated by TLC on the instances of `ogl`, `bridge`, `ogl_merge` and `malloc`. They are
not part of the runs: `DirAt`, `AnswerOK`, `TreeOK` and `Chain` quantify over sets TLC
cannot enumerate and had to be cut for it.

## Plan

Modelled first was what carries the most interleavings, then each component was
proved about. What is left:

1. The BPF program of the filter against the set of calls it should trap, as a pure
   function.
2. Two threads on one bridge: the race that `carrier_fork` shows between processes,
   inside one.
3. The allocator after two lists of large chunks got a common tail, and the end of its
   block.

Not modelled: the machine level of Flight Deck, loader and trampolines (registers,
relocation, assembly), `tinylibc`, the log and error macros (their early returns are
part of the actions), the playground and the third-party SHA-2. In oglfs: modes and
owners (which `load()` does not restore), the 16-bit sizes of objects, the dangling
`c_str()` of `get_obj_path()` (`ogl.cpp:838`, `851`), two programs on one
repository, and `make_temp()`, which nothing calls. In Mux: listeners that close a
channel from inside their callback.
