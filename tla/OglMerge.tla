------------------------------ MODULE OglMerge ------------------------------
(***************************************************************************)
(* ogl_repo::merge (oglfs/ogl.cpp): the changes src has made since common  *)
(* are made in dst too.  A first pass down the trees looks for conflicts,  *)
(* a second one changes dst; each step is one directory of a pass, in      *)
(* which ogl_dir::diff calls its handler for every name that differs.      *)
(*                                                                         *)
(* The three repositories have one root path and were opened after their   *)
(* last commit and read as a whole: merge compares the hash codes of that  *)
(* commit, diff sees the entries in memory, and no entry is `removed'.     *)
(*                                                                         *)
(* A definition X_Y is a wrong variant of the definition X that follows    *)
(* it: with it in the place of X a property at the end fails.              *)
(***************************************************************************)
EXTENDS OglTree

CONSTANT Slots      \* the paths at which the trees may have entries

ASSUME SlotsAssumption ==
    /\ Slots \subseteq Paths \ {Root}
    /\ \A p \in Slots : Parent(p) \in Slots \cup {Root}

VARIABLES
    src, dst, common,   \* the three trees
    before,             \* history: dst when merge was called
    dir_queue,          \* the directories still to visit
    pc                  \* the pass, or the result

vars == <<src, dst, common, before, dir_queue, pc>>

-----------------------------------------------------------------------------
(* The trees merge may be called with.                                     *)

\* Entries of kind `dir' get their hash below.
SlotEntries ==
    {None, Entry("dir", NoHash, FALSE, TRUE)}
    \cup {Entry(k, NoHash, FALSE, FALSE) : k \in Leaves \ {"file", "symlink"}}
    \cup {Entry("file", FileHash(c), FALSE, FALSE) : c \in IF "file" \in Leaves THEN Contents ELSE {}}
    \cup {Entry("symlink", LinkObj(c), FALSE, FALSE) : c \in IF "symlink" \in Leaves THEN Contents ELSE {}}

Committed(shape) ==
    LET at(p) == IF p = Root THEN Entry("dir", NoHash, FALSE, TRUE)
                 ELSE IF p \in Slots THEN shape[p] ELSE None
        ents(h, p) == [n \in Names |->
                        IF Len(p) = Depth \/ at(Append(p, n)).kind = "none" THEN NoDentry
                        ELSE Dentry(at(Append(p, n)).kind, h[Append(p, n)])]
        h[p \in Paths] == IF at(p).kind = "dir" THEN Hash("DIR", ents(h, p), 0) ELSE at(p).hash IN
    [p \in Paths |-> [at(p) EXCEPT !.hash = h[p]]]

Trees ==
    {Committed(shape) : shape \in
        {s \in [Slots -> SlotEntries] :
            \A p \in Slots : s[p].kind # "none" /\ Parent(p) \in Slots => s[Parent(p)].kind = "dir"}}

Init ==
    /\ src \in Trees /\ dst \in Trees /\ common \in Trees
    /\ before = dst
    /\ dir_queue = <<Root>>
    /\ pc = "check"

-----------------------------------------------------------------------------
(* diff: the names that src has added, removed and modified in directory d. *)

Added(d) == {p \in Under(d) : Parent(p) = d /\ lookup(src, p) /\ ~ lookup(common, p)}
Removed(d) == {p \in Under(d) : Parent(p) = d /\ ~ lookup(src, p) /\ lookup(common, p)}

\* Entries of one kind are compared by hash; `local' and `nonexistent' have none.
Modified(d) ==
    {p \in Under(d) :
        /\ Parent(p) = d /\ lookup(src, p) /\ lookup(common, p)
        /\ src[p].kind # common[p].kind \/ src[p].hash # common[p].hash}

Both(p, a, b) == Is(a, p, "dir") /\ Is(b, p, "dir")

\* The one way to list some paths of a directory in the order of their names, as
\* they are queued.
InOrder(paths) ==
    {s \in [1 .. Cardinality(paths) -> paths] :
        /\ \A i, j \in DOMAIN s : i < j => s[i][Len(s[i])] < s[j][Len(s[j])]
        /\ \A p \in paths : \E i \in DOMAIN s : s[i] = p}

-----------------------------------------------------------------------------
(* The first pass: check_conflictions.                                     *)

Unchanged(p) == dst[p].kind = common[p].kind /\ dst[p].hash = common[p].hash

ModifyConflicts_TypeOnly(p) == dst[p].kind # common[p].kind

\* A directory may have been modified in dst as long as it is one.
ModifyConflicts(p) == IF Both(p, dst, common) THEN FALSE ELSE ~ Unchanged(p)

Conflict(d) ==
    \/ \E p \in Added(d) : lookup(dst, p)
    \/ \E p \in Removed(d) : ~ lookup(dst, p) \/ ~ Unchanged(p)
    \/ \E p \in Modified(d) : ~ lookup(dst, p) \/ ModifyConflicts(p)

Top == dir_queue[Len(dir_queue)]
Pop == Prefix(dir_queue, Len(dir_queue) - 1)

CheckDir ==
    /\ pc = "check" /\ dir_queue # <<>> /\ ~ Conflict(Top)
    /\ \E s \in InOrder({p \in Modified(Top) : Both(p, dst, common) /\ Is(src, p, "dir")}) :
        dir_queue' = Pop \o s
    /\ UNCHANGED <<src, dst, common, before, pc>>

CheckFails ==
    /\ pc = "check" /\ dir_queue # <<>> /\ Conflict(Top)
    /\ pc' = "conflict"
    /\ UNCHANGED <<src, dst, common, before, dir_queue>>

CheckEnd ==
    /\ pc = "check" /\ dir_queue = <<>>
    /\ pc' = "apply" /\ dir_queue' = <<Root>>
    /\ UNCHANGED <<src, dst, common, before>>

-----------------------------------------------------------------------------
(* The second pass: apply_changes.                                         *)

\* clone: a directory does not get its hash, a link counts as modified.
clone(e) ==
    Entry(e.kind, IF e.kind = "dir" THEN NoHash ELSE e.hash, e.kind = "symlink" \/ e.modified, e.loaded)

\* copy_to: what src has at and below these names replaces what m has there.
Copied(m, names) ==
    [q \in Paths |-> IF \E p \in names : q = p \/ Below(q, p) THEN clone(src[q]) ELSE m[q]]

Descend_All(d) == Modified(d)

Descend(d) == {p \in Modified(d) : Both(p, src, dst)}

Changed(d) == Added(d) \cup Removed(d) \cup (Modified(d) \ Descend(d))

Applied_Unmarked(d) == Copied(dst, Changed(d))

Applied_Shallow(d) ==
    [q \in Paths |->
        IF q \in Changed(d) THEN clone(src[q])
        ELSE IF Changed(d) # {} /\ (q = d \/ Below(d, q)) THEN [dst[q] EXCEPT !.modified = TRUE]
        ELSE dst[q]]

\* dst after diff has gone through directory d.
Applied(d) == IF Changed(d) = {} THEN dst ELSE Copied(mark_modified(dst, d), Changed(d))

ApplyDir ==
    /\ pc = "apply" /\ dir_queue # <<>>
    /\ dst' = Applied(Top)
    /\ \E s \in InOrder(Descend(Top)) : dir_queue' = Pop \o s
    /\ UNCHANGED <<src, common, before, pc>>

ApplyEnd ==
    /\ pc = "apply" /\ dir_queue = <<>>
    /\ pc' = "merged"
    /\ UNCHANGED <<src, dst, common, before, dir_queue>>

Returned == pc \in {"merged", "conflict"} /\ UNCHANGED vars

Next == CheckDir \/ CheckFails \/ CheckEnd \/ ApplyDir \/ ApplyEnd \/ Returned

Spec == Init /\ [][Next]_vars

-----------------------------------------------------------------------------
(* Properties.                                                             *)

Look(t) == [p \in Paths |-> <<t[p].kind, IF t[p].kind = "dir" THEN 0 ELSE t[p].hash.data>>]
Nowhere == Look([p \in Paths |-> None])

\* The passes visit directories of all three trees, and dst stays a tree.
TypeOK ==
    /\ pc \in {"check", "apply", "merged", "conflict"}
    /\ \A i \in 1 .. Len(dir_queue) :
        \A t \in {src, dst, common} : Is(t, dir_queue[i], "dir")
    /\ \A p \in Paths \ {Root} : lookup(dst, p) => Is(dst, Parent(p), "dir")

\* At every path dst has what src made of it if src changed it, and what it had
\* otherwise; but nothing below what is no directory any more.
ThreeWay ==
    LET pick == [p \in Paths |->
                    IF Look(src)[p] # Look(common)[p] THEN Look(src)[p] ELSE Look(before)[p]] IN
    [p \in Paths |->
        IF \A i \in 0 .. (Len(p) - 1) : pick[Prefix(p, i)][1] = "dir" THEN pick[p] ELSE Nowhere[p]]

\* merge() that returns true has made the three-way merge of the trees, and one
\* that returns false has left dst alone.
MergeCorrect ==
    /\ pc = "merged" => Look(dst) = ThreeWay
    /\ pc = "conflict" => dst = before

Differs(t, p) == Look(t)[p] # Look(common)[p]
DiffersBelow(t, p) == \E q \in {p} \cup Under(p) : Differs(t, q)

\* src put something else in the place of a directory that dst still has.
Replaces(p) == Is(common, p, "dir") /\ Is(before, p, "dir") /\ src[p].kind \notin {"dir", "none"}

\* Both sides have changed the same thing: one of them an entry, the other that
\* entry or something below it.
Clash(p) == \/ Differs(src, p) /\ DiffersBelow(before, p)
            \/ Differs(before, p) /\ DiffersBelow(src, p)

\* merge() reports a conflict exactly when both sides have changed the same thing,
\* except that what dst did in a directory is not looked at when src has replaced
\* that directory by something else (check_conflictions, DIFF_MOD).
ConflictsExact ==
    LET excused(p) == \E i \in 0 .. Len(p) : Replaces(Prefix(p, i)) IN
    /\ pc = "conflict" => \E p \in Paths : Clash(p)
    /\ pc \in {"apply", "merged"} => \A p \in Paths : Clash(p) => excused(p)

\* Every directory of dst that differs from its hash is marked as modified, so
\* that a commit writes it, unless it was cloned: a cloned directory has no hash.
MergeMarks ==
    pc = "merged" =>
        \A p \in Paths :
            Is(dst, p, "dir") /\ ~ dst[p].modified =>
                \/ dst[p].hash = DirObj(dst, p)
                \/ dst[p].hash = NoHash /\ ~ Is(before, p, "dir")
=============================================================================
