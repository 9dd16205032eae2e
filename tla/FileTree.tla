------------------------------ MODULE FileTree ------------------------------
(***************************************************************************)
(* FSUtil (src/src/util/util.cc) over a small file system.  A path is a    *)
(* sequence of names; a tree gives every path its kind; paths in `held`    *)
(* cannot be removed, and nothing can be made in them.                     *)
(***************************************************************************)
EXTENDS Integers, Sequences, FiniteSets, SequencesExt

CONSTANTS EntryNames,   \* names in a directory
          MaxDepth,     \* bound on the length of a path
          Matching      \* the names that end in the suffix asked for

Paths == UNION {[1..d -> EntryNames] : d \in 1..MaxDepth}
Kinds == {"none", "file", "sock", "dir"}
Parent(p) == Front(p)
Exists(tree, p) == tree[p] # "none"
IsDir(tree, p) == p = <<>> \/ tree[p] = "dir"
Children(tree, p) == {q \in Paths : Parent(q) = p /\ Exists(tree, q)}

Trees == {tree \in [Paths -> Kinds] :
            \A p \in Paths : Exists(tree, p) => IsDir(tree, Parent(p))}

\* The code tests st_mode & S_IFDIR, which a socket's mode passes too.
DirBit(kind) == kind \in {"dir", "sock"}

\* FSUtil::Unlink and rmdir on one path.
RemoveOne(tree, held, p) ==
    IF p \in held \/ Children(tree, p) # {} THEN [tree |-> tree, ok |-> FALSE]
    ELSE [tree |-> [tree EXCEPT ![p] = "none"], ok |-> TRUE]

\* A fault: see RmDir.
RmDirUnchecked(done, held, p) ==
    [tree |-> RemoveOne(done.tree, held, p).tree, ok |-> done.ok]

\* The end of FSUtil::Rm: the directory itself, after its entries.
RmDir(done, held, p) ==
    LET own == RemoveOne(done.tree, held, p)
    IN  [tree |-> own.tree, ok |-> own.ok /\ done.ok]

\* FSUtil::Rm.  ret holds what the last entry returned, not all of them.
RECURSIVE Rm(_, _, _)
Rm(tree, held, p) ==
    IF ~Exists(tree, p) THEN [tree |-> tree, ok |-> TRUE]
    ELSE IF ~DirBit(tree[p]) THEN RemoveOne(tree, held, p)
    ELSE IF tree[p] = "sock" THEN [tree |-> tree, ok |-> FALSE]
    ELSE RmDir(FoldLeft(LAMBDA done, q : Rm(done.tree, held, q),
                        [tree |-> tree, ok |-> TRUE],
                        SetToSeq(Children(tree, p))),
               held, p)

\* __mkdir: anything that is there already will do.
MkdirOne(tree, held, p) ==
    IF Exists(tree, p) THEN [tree |-> tree, ok |-> TRUE]
    ELSE IF IsDir(tree, Parent(p)) /\ Parent(p) \notin held
    THEN [tree |-> [tree EXCEPT ![p] = "dir"], ok |-> TRUE]
    ELSE [tree |-> tree, ok |-> FALSE]

\* The prefixes FSUtil::Mkdir makes, in this order.
MkdirSteps(p) == [k \in 1..Len(p) |-> SubSeq(p, 1, k)]

\* FSUtil::Mkdir stops at the first prefix it cannot make.
Mkdir(tree, held, p) ==
    IF Exists(tree, p) THEN [tree |-> tree, ok |-> TRUE]
    ELSE FoldLeft(LAMBDA done, q : IF done.ok THEN MkdirOne(done.tree, held, q) ELSE done,
                  [tree |-> tree, ok |-> TRUE], MkdirSteps(p))

MatchingFiles(tree, p) ==
    {q \in Children(tree, p) : tree[q] = "file" /\ Last(q) \in Matching}

\* FSUtil::ListAllFile.
RECURSIVE ListAllFile(_, _)
ListAllFile(tree, p) ==
    IF ~IsDir(tree, p) THEN {}
    ELSE MatchingFiles(tree, p)
         \cup UNION {ListAllFile(tree, q) : q \in {c \in Children(tree, p) : tree[c] = "dir"}}

\* FSUtil::Mv: the target is removed before the rename is tried.
Mv(tree, held, from, to) ==
    LET cleared == Rm(tree, held, to)
        moved(q) == IF q \in {to} \/ (Len(q) > Len(to) /\ IsPrefix(to, q))
                    THEN LET src == from \o SubSeq(q, Len(to) + 1, Len(q))
                         IN  IF src \in Paths THEN tree[src] ELSE "none"
                    ELSE IF IsPrefix(from, q) THEN "none" ELSE cleared.tree[q]
    IN  IF /\ cleared.ok
           /\ Exists(cleared.tree, from)
           /\ IsDir(cleared.tree, Parent(to))
           /\ ~IsPrefix(from, to)
           /\ from \notin held /\ Parent(from) \notin held /\ Parent(to) \notin held
        THEN [tree |-> [q \in Paths |-> moved(q)], ok |-> TRUE]
        ELSE [tree |-> cleared.tree, ok |-> FALSE]
-----------------------------------------------------------------------------
(***************************************************************************)
(* Rm tells the truth: it returns true exactly when nothing is left at the *)
(* path, although it keeps only its last entry's result, whichever entry   *)
(* cannot be removed; and it touches nothing outside (FSUtil::Rm).         *)
(***************************************************************************)
RmHonest(tree, held) ==
    \A p \in Paths :
        LET r == Rm(tree, held, p)
        IN  /\ r.ok <=> ~Exists(r.tree, p)
            /\ \A q \in Paths : ~IsPrefix(p, q) => r.tree[q] = tree[q]

(***************************************************************************)
(* Mkdir returns true exactly when the path is there afterwards, removes   *)
(* nothing, and what it makes are directories on the way (FSUtil::Mkdir).  *)
(***************************************************************************)
MkdirHonest(tree, held) ==
    \A p \in Paths :
        LET r == Mkdir(tree, held, p)
        IN  /\ r.ok <=> Exists(r.tree, p)
            /\ \A q \in Paths :
                  r.tree[q] = tree[q] \/ (~Exists(tree, q) /\ r.tree[q] = "dir" /\ IsPrefix(q, p))

(***************************************************************************)
(* A move keeps the source, with all that is below it: where it was when   *)
(* the move fails, at the target when it succeeds; and it touches nothing  *)
(* but the two (FSUtil::Mv).  This is about paths of which neither lies in *)
(* the other: the target is removed first, so that Mv(a, a/b) loses a/b    *)
(* and Mv(a/b, a) and Mv(a, a) lose all of a, and then fail.               *)
(***************************************************************************)
MvKeepsSource(tree, held) ==
    \A from, to \in Paths :
        LET r == Mv(tree, held, from, to)
            after(q) == IF r.ok THEN to \o SubSeq(q, Len(from) + 1, Len(q)) ELSE q
        IN  (Exists(tree, from) /\ ~IsPrefix(to, from) /\ ~IsPrefix(from, to))
                => /\ \A q \in Paths : IsPrefix(from, q) /\ after(q) \in Paths
                                        => r.tree[after(q)] = tree[q]
                   /\ r.ok => ~Exists(r.tree, from)
                   /\ \A q \in Paths : ~IsPrefix(from, q) /\ ~IsPrefix(to, q)
                                        => r.tree[q] = tree[q]

\* ListAllFile finds every regular file below the path with the suffix, and
\* nothing else, at every depth (FSUtil::ListAllFile).
ListsAll(tree) ==
    \A p \in Paths \cup {<<>>} :
        ListAllFile(tree, p) =
            {q \in Paths : /\ IsPrefix(p, q) /\ q # p
                           /\ tree[q] = "file" /\ Last(q) \in Matching}
=============================================================================
