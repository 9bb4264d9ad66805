------------------------------ MODULE OglRepo ------------------------------
(***************************************************************************)
(* An ogl_repo (oglfs/ogl.cpp): a tree of entries in memory, edited and    *)
(* read lazily from a store of objects, and the commit that writes what    *)
(* changed.  Between any two writes the process may be killed; it is then  *)
(* started again on what it finds on the disk.  A write may also fail, and *)
(* files of the directory the repository describes may have gone.          *)
(*                                                                         *)
(* The process is killed, the machine is not: what was written stays.      *)
(*                                                                         *)
(* A definition X_Y is a wrong variant of the definition X that follows    *)
(* it: with it in the place of X a property at the end fails.              *)
(***************************************************************************)
EXTENDS OglTree

CONSTANTS
    Careful,        \* callers look below a directory before they change it
    MaxEvents       \* bound on edits and on failures of the file system, together

ASSUME RepoAssumption ==
    /\ Careful \in BOOLEAN /\ MaxEvents \in Nat

VARIABLES
    mem,        \* the tree below root_dir
    pc,         \* "idle", a phase of commit, "down", or the reason of an abort
    todumps,    \* of commit: the stack of entries to visit
    dirs,       \* of commit: the directories to dump
    objects,    \* the complete files of objects/
    cut,        \* the files of objects/ that are shorter than their object
    rootRef,    \* the hash in root-ref; NoHash: the file is not complete
    unwritten,  \* history: the objects some write of which did not complete
    refFailed,  \* history: root-ref could not be written
    nEvents     \* edits and failures so far

commitVars == <<todumps, dirs>>
disk == <<objects, cut, rootRef, unwritten, refFailed>>
vars == <<mem, pc, commitVars, disk, nEvents>>

Committing == {"collect", "dump", "truncate", "write"}
Aborts == {"no object", "not loaded", "no link", "no root-ref"}

EmptyDir == Hash("DIR", [n \in Names |-> NoDentry], 0)

\* After ogl_repo::init and the constructor.
Init ==
    /\ mem = load(Opened(EmptyDir), Root)
    /\ pc = "idle"
    /\ todumps = <<>> /\ dirs = <<>>
    /\ objects = {EmptyDir} /\ cut = {} /\ rootRef = EmptyDir
    /\ unwritten = {} /\ refFailed = FALSE
    /\ nEvents = 0

abort(reason) == pc' = reason /\ UNCHANGED <<mem, commitVars, disk, nEvents>>

-----------------------------------------------------------------------------
(* Looking up and editing.                                                 *)

Readable(p) == Loads(mem, p) \subseteq objects

Find(p) ==
    /\ pc = "idle" /\ Readable(p)
    /\ mem' = find(mem, p)
    /\ UNCHANGED <<pc, commitVars, disk, nEvents>>

\* load_obj gives no object, or its assertion on the length fails.
FindAborts(p) == pc = "idle" /\ ~ Readable(p) /\ abort("no object")

\* get_parent_dir found a directory, in which the change is made.  (When it does
\* not, or the directory refuses, all that is left of the call is Find's effect.)
Edit(p) ==
    /\ pc = "idle" /\ nEvents < MaxEvents
    /\ Readable(Parent(p))
    /\ Is(find(mem, Parent(p)), Parent(p), "dir")
    /\ Careful => find(mem, Parent(p))[Parent(p)].loaded
    /\ nEvents' = nEvents + 1
    /\ UNCHANGED <<pc, commitVars, disk>>

Set(p, entry) == mem' = mark_modified(Put(find(mem, Parent(p)), p, entry), Parent(p))

\* add_file, add_symlink, mark_local, mark_nonexistent
Add(p, kind) ==
    /\ Edit(p)
    /\ ~ lookup(find(mem, Parent(p)), p)
    /\ Set(p, New(kind))

AddDir(p) ==
    /\ Edit(p)
    /\ ~ lookup(find(mem, Parent(p)), p)
    /\ mem' = mark_modified(Put(find(mem, Parent(p)), p, Entry("dir", NoHash, TRUE, TRUE)), p)

Remove(p) ==
    /\ Edit(p)
    /\ lookup(find(mem, Parent(p)), p)
    /\ Set(p, None)

MarkRemoved(p) == Edit(p) /\ Set(p, New("removed"))

\* A file or a link found at p is marked as modified.
MarkModified(p) ==
    /\ pc = "idle" /\ nEvents < MaxEvents
    /\ Readable(p)
    /\ find(mem, p)[p].kind \in {"file", "symlink"}
    /\ mem' = mark_modified([find(mem, p) EXCEPT ![p].modified = TRUE], Parent(p))
    /\ nEvents' = nEvents + 1
    /\ UNCHANGED <<pc, commitVars, disk>>

-----------------------------------------------------------------------------
(* store_obj: a file that exists is taken for the object, whatever is in it. *)

Stores(obj) ==
    /\ objects' = IF obj \in cut THEN objects ELSE objects \cup {obj}
    /\ UNCHANGED <<cut, rootRef, unwritten, refFailed, nEvents>>

\* The file cannot be created, or not all of it can be written.
StoreFails(obj) ==
    /\ obj \notin objects \cup cut /\ nEvents < MaxEvents
    /\ cut' \in {cut, cut \cup {obj}}
    /\ unwritten' = unwritten \cup {obj}
    /\ nEvents' = nEvents + 1
    /\ UNCHANGED <<objects, rootRef, refFailed>>

\* lstat, open, read or readlink fails.
Fails == nEvents < MaxEvents /\ nEvents' = nEvents + 1 /\ UNCHANGED disk

-----------------------------------------------------------------------------
(* commit: collect the modified entries from the root down, hash the files *)
(* and store the links on the way, then dump the directories bottom up.    *)

Return == pc' = "idle" /\ todumps' = <<>> /\ dirs' = <<>>

CommitBegin ==
    /\ pc = "idle" /\ mem[Root].modified
    /\ pc' = "collect" /\ todumps' = <<Root>> /\ dirs' = <<>>
    /\ UNCHANGED <<mem, disk, nEvents>>

Top == todumps[Len(todumps)]
Pop == Prefix(todumps, Len(todumps) - 1)
Collecting(kinds) == pc = "collect" /\ todumps # <<>> /\ mem[Top].kind \in kinds

\* The entry needs no work.
Skip ==
    /\ \/ Collecting({"nonexistent", "local", "removed"})
       \/ Collecting({"file", "symlink", "dir"}) /\ ~ mem[Top].modified
    /\ todumps' = Pop
    /\ UNCHANGED <<mem, pc, dirs, disk, nEvents>>

\* The names in a directory, and the one way to list some names in their order.
ChildNames(p) == IF Len(p) = Depth THEN {} ELSE {n \in Names : lookup(mem, Append(p, n))}
InOrder(names) ==
    {s \in [1 .. Cardinality(names) -> names] :
        /\ \A i, j \in DOMAIN s : i < j => s[i] < s[j]
        /\ \A n \in names : \E i \in DOMAIN s : s[i] = n}

CollectDir ==
    /\ Collecting({"dir"}) /\ mem[Top].modified
    /\ mem[Top].loaded
    /\ dirs' = Append(dirs, Top)
    /\ \E s \in InOrder(ChildNames(Top)) :
        todumps' = Pop \o [i \in 1 .. Len(s) |-> Append(Top, s[i])]
    /\ UNCHANGED <<mem, pc, disk, nEvents>>

\* assert(dir->has_loaded())
CollectAborts ==
    /\ Collecting({"dir"}) /\ mem[Top].modified
    /\ ~ mem[Top].loaded
    /\ abort("not loaded")

SetHash(p, hash) == mem' = [mem EXCEPT ![p].hash = hash, ![p].modified = FALSE]

HashFile(c) ==
    /\ Collecting({"file"}) /\ mem[Top].modified
    /\ SetHash(Top, FileHash(c))
    /\ todumps' = Pop
    /\ UNCHANGED <<pc, dirs, disk, nEvents>>

\* The file cannot be read; or it can, and then its lstat fails.
HashFileFails(c) ==
    /\ Collecting({"file"}) /\ mem[Top].modified
    /\ UNCHANGED mem \/ SetHash(Top, FileHash(c))
    /\ Fails /\ Return

DumpLink(c) ==
    /\ Collecting({"symlink"}) /\ mem[Top].modified
    /\ Stores(LinkObj(c))
    /\ SetHash(Top, LinkObj(c))
    /\ todumps' = Pop
    /\ UNCHANGED <<pc, dirs>>

\* The object cannot be stored; or the link has gone before readlink (an
\* assertion), or between it and lstat.
DumpLinkFails(c) ==
    /\ Collecting({"symlink"}) /\ mem[Top].modified
    /\ \/ StoreFails(LinkObj(c)) /\ Return /\ UNCHANGED mem
       \/ Fails /\ pc' = "no link" /\ UNCHANGED <<mem, commitVars>>
       \/ /\ nEvents < MaxEvents /\ nEvents' = nEvents + 1
          /\ objects' = IF LinkObj(c) \in cut THEN objects ELSE objects \cup {LinkObj(c)}
          /\ SetHash(Top, LinkObj(c)) /\ Return
          /\ UNCHANGED <<cut, rootRef, unwritten, refFailed>>

CollectEnd ==
    /\ pc = "collect" /\ todumps = <<>>
    /\ pc' = "dump"
    /\ UNCHANGED <<mem, commitVars, disk, nEvents>>

NextDir_Front == dirs[1]
NextDir == dirs[Len(dirs)]
Dumping == pc = "dump" /\ dirs # <<>>

\* ogl_dir::dump: the hash is set whether or not the object could be stored.
DumpDir ==
    /\ Dumping
    /\ LET obj == DirObj(mem, NextDir) IN
        /\ Stores(obj) \/ StoreFails(obj)
        /\ mem' = [mem EXCEPT ![NextDir].hash = obj, ![NextDir].modified = FALSE]
    /\ dirs' = Prefix(dirs, Len(dirs) - 1)
    /\ UNCHANGED <<pc, todumps>>

DumpDirFails_Clean ==
    /\ Dumping /\ nEvents < MaxEvents
    /\ LET obj == DirObj(mem, NextDir) IN
        /\ objects' = IF obj \in cut THEN objects ELSE objects \cup {obj}
        /\ mem' = [mem EXCEPT ![NextDir].hash = obj, ![NextDir].modified = FALSE]
    /\ nEvents' = nEvents + 1
    /\ Return
    /\ UNCHANGED <<cut, rootRef, unwritten, refFailed>>

\* The directory's lstat fails: its hash is set and it stays modified.
DumpDirFails ==
    /\ Dumping /\ nEvents < MaxEvents
    /\ LET obj == DirObj(mem, NextDir) IN
        /\ objects' = IF obj \in cut THEN objects ELSE objects \cup {obj}
        /\ mem' = [mem EXCEPT ![NextDir].hash = obj]
    /\ nEvents' = nEvents + 1
    /\ Return
    /\ UNCHANGED <<cut, rootRef, unwritten, refFailed>>

DumpEnd ==
    /\ pc = "dump" /\ dirs = <<>>
    /\ pc' = "truncate"
    /\ UNCHANGED <<mem, commitVars, disk, nEvents>>

-----------------------------------------------------------------------------
(* write_root_ref; its result is not looked at.                            *)

TruncateRef ==
    /\ pc = "truncate"
    /\ pc' = "write" /\ rootRef' = NoHash
    /\ UNCHANGED <<mem, commitVars, objects, cut, unwritten, refFailed, nEvents>>

WriteRef ==
    /\ pc = "write"
    /\ rootRef' = mem[Root].hash /\ refFailed' = FALSE
    /\ Return
    /\ UNCHANGED <<mem, objects, cut, unwritten, nEvents>>

\* root-ref cannot be opened, or not be written after it was truncated.
RefFails ==
    /\ pc \in {"truncate", "write"}
    /\ nEvents < MaxEvents /\ nEvents' = nEvents + 1
    /\ refFailed' = TRUE
    /\ Return
    /\ UNCHANGED <<mem, objects, cut, rootRef, unwritten>>

-----------------------------------------------------------------------------
(* Crash and restart.                                                      *)

\* The object that is being written.
InFlight ==
    IF Dumping THEN {DirObj(mem, NextDir)}
    ELSE IF Collecting({"symlink"}) /\ mem[Top].modified THEN {LinkObj(c) : c \in Contents}
    ELSE {}

Crash ==
    /\ pc \in {"idle"} \cup Committing
    /\ mem' = Opened(rootRef)
    /\ pc' = "down" /\ todumps' = <<>> /\ dirs' = <<>>
    /\ \/ UNCHANGED <<cut, unwritten>>
       \/ \E obj \in InFlight \ (objects \cup cut) :
            cut' = cut \cup {obj} /\ unwritten' = unwritten \cup {obj}
    /\ UNCHANGED <<objects, rootRef, refFailed, nEvents>>

\* The constructor reads root-ref and loads the root.
Open ==
    /\ pc = "down" /\ rootRef \in objects
    /\ mem' = load(mem, Root) /\ pc' = "idle" /\ refFailed' = FALSE
    /\ UNCHANGED <<commitVars, objects, cut, rootRef, unwritten, nEvents>>

OpenAborts ==
    /\ pc = "down" /\ rootRef \notin objects
    /\ abort(IF rootRef = NoHash THEN "no root-ref" ELSE "no object")

Aborted == pc \in Aborts /\ UNCHANGED vars

CommitStep ==
    \/ Skip \/ CollectDir \/ CollectEnd
    \/ \E c \in Contents : HashFile(c) \/ HashFileFails(c) \/ DumpLink(c) \/ DumpLinkFails(c)
    \/ DumpDir \/ DumpDirFails \/ DumpEnd
    \/ TruncateRef \/ WriteRef \/ RefFails

Next ==
    \/ \E p \in Paths : Find(p) \/ FindAborts(p)
    \/ \E p \in Paths \ {Root} :
        \/ \E kind \in Leaves : Add(p, kind)
        \/ AddDir(p) \/ Remove(p) \/ MarkRemoved(p) \/ MarkModified(p)
    \/ CommitBegin \/ CommitStep
    \/ Crash \/ Open \/ OpenAborts
    \/ Aborted

Spec == Init /\ [][Next]_vars

\* With Careful a commit that met a directory that was never read would have no next
\* step, a deadlock to TLC; without, it fails its assertion.
CarelessSpec == Init /\ [][Next \/ CollectAborts]_vars

-----------------------------------------------------------------------------
(* Properties.                                                             *)

\* Every variable has its type, and what lies below a path is below a directory.
TypeOK ==
    /\ DOMAIN mem = Paths
    /\ \A p \in Paths :
        /\ mem[p].kind \in Kinds /\ mem[p].modified \in BOOLEAN /\ mem[p].loaded \in BOOLEAN
        /\ p # Root /\ lookup(mem, p) => Is(mem, Parent(p), "dir")
    /\ pc \in {"idle", "down"} \cup Committing \cup Aborts
    /\ todumps \in Seq(Paths) /\ dirs \in Seq(Paths)
    /\ objects \cap cut = {}
    /\ refFailed \in BOOLEAN
    /\ nEvents \in 0 .. MaxEvents

\* A directory that is loaded and not modified has the hash of its entries, and
\* none of them is modified: a commit may skip it with all that is below it
\* (ogl_dir::mark_modified, dump, commit's `continue').
CleanMatches ==
    \A p \in Paths :
        Is(mem, p, "dir") /\ mem[p].loaded /\ ~ mem[p].modified =>
            /\ mem[p].hash = DirObj(mem, p)
            /\ \A q \in Under(p) : ~ mem[q].modified

\* When commit has nothing to do, the tree that root-ref names is the one in
\* memory, unless root-ref could not be written (commit's first test, and its
\* result).  Edits, failed commits, crashes and restarts come before.
CleanIsStored ==
    pc = "idle" /\ ~ mem[Root].modified /\ ~ refFailed =>
        rootRef # NoHash /\ Kept(View(mem)) = TreeOf(rootRef)

\* The objects that can be reached from a hash.
Reached(hash) ==
    {Follow(hash, p).hash : p \in {q \in Paths : Follow(hash, q).kind \in {"dir", "symlink"}}}

\* Every object that can be reached from root-ref has been stored, save those a
\* write of which was cut short: the children of a directory are dumped before it
\* (commit's rbegin), root-ref is written last, and nothing a stored tree needs is
\* overwritten.
RootComplete == rootRef # NoHash => Reached(rootRef) \subseteq objects \cup unwritten

\* commit's comment: "All modified ogl_dir should be loaded."
ModifiedLoaded == pc # "not loaded"

\* The repository does what OglStore says: the stored tree changes only as a
\* whole, to the tree that was committed, and a restart gives it back.
Store == INSTANCE OglStore WITH work <- View(mem), stored <- rootRef
Implements == Store!Spec
=============================================================================
