------------------------------ MODULE OglTree ------------------------------
(***************************************************************************)
(* The tree of entries an ogl_repo holds in memory (oglfs/ogl.h, ogl.cpp), *)
(* as a function from paths to entries, and the objects it is read from    *)
(* and written to.                                                         *)
(*                                                                         *)
(* A hash code stands for what it is the hash of: equal contents have      *)
(* equal hashes and different ones do not collide.  Permissions and owners *)
(* are left out.                                                           *)
(*                                                                         *)
(* A definition X_Y is a wrong variant of the definition X that follows    *)
(* it: with it in the place of X a property of OglRepo or OglMerge fails.  *)
(***************************************************************************)
EXTENDS Integers, Sequences, FiniteSets

CONSTANTS
    Names,      \* the names of entries, numbers in the order of std::map
    Depth,      \* bound on the length of a path
    Contents,   \* contents of files and targets of symbolic links
    Leaves      \* the kinds of entries callers add, directories aside

ASSUME TreeAssumption ==
    /\ Names \subseteq Nat \ {0} /\ IsFiniteSet(Names) /\ Depth \in Nat /\ Contents \subseteq Nat \ {0}
    /\ Leaves \subseteq {"nonexistent", "file", "symlink", "local"}

Paths == UNION {[1 .. d -> Names] : d \in 0 .. Depth}
Root == <<>>
Prefix(p, i) == SubSeq(p, 1, i)
Parent(p) == Prefix(p, Len(p) - 1)
Below(q, p) == Len(q) > Len(p) /\ Prefix(q, Len(p)) = p
Under(p) == {q \in Paths : Below(q, p)}

-----------------------------------------------------------------------------
(* Hash codes and objects.                                                 *)

Hash(type, ents, data) == [type |-> type, ents |-> ents, data |-> data]
NoHash == Hash("INVALID", <<>>, 0)      \* a hash that was never set
FileHash(c) == Hash("FILE", <<>>, c)    \* of a file on the disk: not an object
LinkObj(c) == Hash("SYMLINK", <<>>, c)

\* An entry of a directory object.
Dentry(kind, hash) == [kind |-> kind, hash |-> hash]
NoDentry == Dentry("none", NoHash)

-----------------------------------------------------------------------------
(* Entries.  `modified' of a file is ~ valid_hash.                         *)

Kinds == {"none", "removed", "nonexistent", "file", "dir", "symlink", "local"}

Entry(kind, hash, modified, loaded) ==
    [kind |-> kind, hash |-> hash, modified |-> modified, loaded |-> loaded]
None == Entry("none", NoHash, FALSE, FALSE)

\* The constructors.
New(kind) == Entry(kind, NoHash, kind \in {"file", "symlink"}, FALSE)

Is(m, p, kind) == m[p].kind = kind
lookup(m, p) == m[p].kind # "none"

Put_KeepsBelow(m, p, e) == [m EXCEPT ![p] = e]

\* entries[name] = entry: whatever was there goes, with all that is below it.
Put(m, p, e) == [q \in Paths |-> IF q = p THEN e ELSE IF Below(q, p) THEN None ELSE m[q]]

mark_modified_One(m, p) == [m EXCEPT ![p].modified = TRUE]

\* ogl_dir::mark_modified, from directory p up to the root.
mark_modified(m, p) ==
    [q \in Paths |-> IF q = p \/ Below(p, q) THEN [m[q] EXCEPT !.modified = TRUE] ELSE m[q]]

DirObj_KeepsRemoved(m, p) ==
    Hash("DIR",
         [n \in Names |->
            IF Len(p) = Depth \/ ~ lookup(m, Append(p, n)) THEN NoDentry
            ELSE LET e == m[Append(p, n)] IN Dentry(IF e.kind = "removed" THEN "local" ELSE e.kind, e.hash)],
         0)

\* The object dump() makes of directory p: the entries that are not `removed',
\* and the hash codes they have now.
DirObj(m, p) ==
    Hash("DIR",
         [n \in Names |->
            IF Len(p) = Depth \/ m[Append(p, n)].kind \in {"none", "removed"} THEN NoDentry
            ELSE LET e == m[Append(p, n)] IN
                 Dentry(e.kind, IF e.kind \in {"local", "nonexistent"} THEN NoHash ELSE e.hash)],
         0)

\* ogl_dir::load: the entries of the object replace those of the same name, and
\* the directory counts as unmodified.
load(m, p) ==
    LET ents == m[p].hash.ents
        \* the child of p that q is or lies under is read again
        Reread(q) == Below(q, p) /\ ents[q[Len(p) + 1]].kind # "none"
        FromDentry(d) == Entry(d.kind, d.hash, FALSE, FALSE) IN
    [q \in Paths |->
        IF q = p THEN [m[p] EXCEPT !.modified = FALSE, !.loaded = TRUE]
        ELSE IF ~ Reread(q) THEN m[q]
        ELSE IF Len(q) = Len(p) + 1 THEN FromDentry(ents[q[Len(q)]]) ELSE None]

-----------------------------------------------------------------------------
(* ogl_repo::find walks down a path and loads the directories it goes      *)
(* through, but not the one it ends at.                                    *)

NeedsLoad(m, p) == Is(m, p, "dir") /\ ~ m[p].loaded

walk(m, p) ==
    LET w[i \in 0 .. Len(p)] ==
            IF i = 0 THEN m
            ELSE IF NeedsLoad(w[i - 1], Prefix(p, i - 1)) THEN load(w[i - 1], Prefix(p, i - 1))
            ELSE w[i - 1]
    IN  w

find(m, p) == walk(m, p)[Len(p)]

\* The objects find has to read.
Loads(m, p) ==
    {walk(m, p)[i][Prefix(p, i)].hash :
        i \in {j \in 0 .. (Len(p) - 1) : NeedsLoad(walk(m, p)[j], Prefix(p, j))}}

-----------------------------------------------------------------------------
(* A tree as its user sees it, loaded or not.                              *)

Seen(kind, data, dirty) == [kind |-> kind, data |-> data, dirty |-> dirty]
Nothing == Seen("none", 0, FALSE)
EmptyTree == [p \in Paths |-> IF p = Root THEN Seen("dir", 0, FALSE) ELSE Nothing]

\* The entry at path p below the directory with this hash.
Follow(hash, p) ==
    LET Ents(h) == IF h.type = "DIR" THEN h.ents ELSE [n \in Names |-> NoDentry]
        f[i \in 0 .. Len(p)] == IF i = 0 THEN Dentry("dir", hash) ELSE Ents(f[i - 1].hash)[p[i]]
    IN  f[Len(p)]

\* Where the way down to p meets a directory that has not been read: at most once,
\* if nothing is added to such a directory.
Unread(m, p) == {i \in 0 .. (Len(p) - 1) : NeedsLoad(m, Prefix(p, i))}

View(m) ==
    [p \in Paths |->
        IF Unread(m, p) # {}
        THEN LET i == CHOOSE i \in Unread(m, p) : TRUE
                 d == Follow(m[Prefix(p, i)].hash, SubSeq(p, i + 1, Len(p))) IN
             Seen(d.kind, d.hash.data, FALSE)
        ELSE IF m[p].modified /\ m[p].kind # "dir" THEN Seen(m[p].kind, 0, TRUE)
        ELSE Seen(m[p].kind, m[p].hash.data, FALSE)]

\* A repository that has been opened at this root hash and not read yet.
Opened(hash) == [p \in Paths |-> IF p = Root THEN Entry("dir", hash, FALSE, FALSE) ELSE None]
TreeOf(hash) == View(Opened(hash))

\* What a commit keeps: the marks of removed entries are not written.
Kept(tree) == [p \in DOMAIN tree |-> IF tree[p].kind = "removed" THEN Nothing ELSE tree[p]]
=============================================================================
