------------------------------ MODULE OglStore ------------------------------
(***************************************************************************)
(* What an oglfs repository promises: a working tree that its user edits   *)
(* and a stored tree that changes only at a commit, as a whole.  That      *)
(* directories are read when they are first needed, and that a commit      *)
(* takes many writes, cannot be seen.                                      *)
(***************************************************************************)
EXTENDS OglTree

VARIABLES
    work,       \* the working tree
    stored      \* the hash of the stored tree; NoHash: there is none

vars == <<work, stored>>

Init == work = EmptyTree /\ TreeOf(stored) = EmptyTree /\ stored # NoHash

\* What one call may make of an entry: none, a mark that it was removed, a new one,
\* a file or link that has changed, and one whose content has been read.
Edits(entry) ==
    {Nothing, Seen("removed", 0, FALSE)}
    \cup {Seen(k, 0, k \in {"file", "symlink"}) :
            k \in IF entry.kind = "none" THEN Leaves \cup {"dir"} ELSE {}}
    \cup {Seen(k, 0, TRUE) : k \in {"file", "symlink"} \cap {entry.kind}}
    \cup {Seen(entry.kind, c, FALSE) : c \in IF entry.dirty THEN Contents ELSE {}}

\* One entry of the working tree changes; what was below it goes.
Edit ==
    /\ UNCHANGED stored
    /\ \E p \in Paths \ {Root} :
        /\ work[Parent(p)].kind = "dir"
        /\ work'[p] \in Edits(work[p])
        /\ \A q \in Paths \ {p} : work'[q] = IF Below(q, p) THEN Nothing ELSE work[q]

\* The whole working tree is stored, every file and link in it with its content.
Commit ==
    /\ stored' # NoHash
    /\ UNCHANGED work
    /\ \A p \in Paths : ~ work[p].dirty
    /\ TreeOf(stored') = Kept(work)

Restart ==
    /\ UNCHANGED stored
    /\ work' = TreeOf(stored)

\* While the root reference is rewritten there is no stored tree.
Lose == stored' = NoHash /\ UNCHANGED work

Next ==
    \/ work' # work /\ (Edit \/ Restart)
    \/ stored' # stored /\ (Commit \/ Lose)

Spec == Init /\ [][Next]_vars
=============================================================================
