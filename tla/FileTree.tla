------------------------------ MODULE FileTree ------------------------------
(***************************************************************************)
(* aupe-chapter4/filetree.c: the tree of files below a directory, printed  *)
(* by a recursion that shares one path buffer and one set of counters.     *)
(*                                                                         *)
(* A file system T is a record: the entries are 1..T.num, T.parent[k] the  *)
(* directory of entry k, T.kind[k] what it is (that of 0 is the kind of    *)
(* the path the program is given), and T.to what the symbolic links point  *)
(* to.  readdir returns the entries of a directory in the order of their   *)
(* numbers.  Kinds:                                                        *)
(*   "file", "dir"                                                         *)
(*   "locked"               a directory one may not open                   *)
(*   "lost file", "lost dir" gone by the time its name is looked at        *)
(*   "link"                 a symbolic link to T.to                        *)
(* What a caller sees is a path, <<>> for 0: the entries it goes through.  *)
(***************************************************************************)
EXTENDS Integers, Sequences, SequencesExt, FiniteSets

CONSTANTS
    NAME_MAX,     \* the length of a name; here every name has it
    LinkMax       \* how many links the kernel follows in a path

ASSUME FileTreeAssumption == NAME_MAX \in Nat \ {0} /\ LinkMax \in Nat

Entries(T, d) == {k \in 1..T.num : T.parent[k] = d}

\* What an entry leads to.
Real(T, k) == IF T.kind[k] = "link" THEN T.to ELSE k
Links(T, path) == Cardinality({n \in DOMAIN path : T.kind[path[n]] = "link"})
Here(path) == IF path = <<>> THEN 0 ELSE Last(path)

Kind(T, path) == T.kind[Real(T, Here(path))]

\* access and stat find it.
Exists(T, path) == /\ Kind(T, path) \in {"file", "dir", "locked"}
                   /\ Links(T, path) <= LinkMax
IsDir(T, path)  == Kind(T, path) \in {"dir", "locked"}

\* d_type says directory: of a link it does not.
TypeDir(T, k) == T.kind[k] \in {"dir", "locked", "lost dir"}

\* The walk as it goes: the counters of FILE_INFO, what was printed, with which
\* indentation, the size of the buffer, whether all that was written fits, and a
\* frame for each call of show_tree that is in its loop: the path it was called
\* for, cur_size, and what readdir has still to return.
NewWalk(size) ==
    [file |-> 0, dir |-> 0, max_depth |-> 0, cur_depth |-> 0,
     lines |-> <<>>, size |-> size, fits |-> TRUE, stack |-> <<>>]

Top(st) == Last(st.stack)
LeftByTop(st, left) == [st EXCEPT !.stack[Len(st.stack)].left = left]

GrownShort(st, len) ==
    IF len + NAME_MAX + 1 > st.size THEN [st EXCEPT !.size = len + len + NAME_MAX + 1] ELSE st
Grown(st, len) ==
    IF len + NAME_MAX + 2 > st.size THEN [st EXCEPT !.size = len + len + NAME_MAX + 2] ELSE st

\* strcpy or an append, up to the NUL at position len.
Written(st, len) == [st EXCEPT !.fits = @ /\ len < st.size]

\* What is said of an entry before it is walked.
Listed(T, path, st) ==
    LET deep == IF TypeDir(T, Last(path)) THEN st.cur_depth + 1 ELSE st.cur_depth
    IN  [st EXCEPT !.lines = Append(@, <<path, st.cur_depth>>),
                   !.cur_depth = deep,
                   !.max_depth = IF deep > @ THEN deep ELSE @]

\* A call that answers -1 ends the loop of its caller.
Broken(st) == IF st.stack = <<>> THEN st ELSE LeftByTop(st, {})

\* show_tree up to its loop, len being the length of the path in the buffer and
\* size what it is with the slash that a directory is given.
ShowTree(T, path, len, size, st) ==
    LET open == [Written(Grown(st, len), size) EXCEPT !.dir = @ + 1]
    IN  IF ~Exists(T, path) THEN Broken(st)
        ELSE IF ~IsDir(T, path) THEN [st EXCEPT !.file = @ + 1]
        ELSE IF Kind(T, path) = "locked" THEN Broken(open)
        ELSE [open EXCEPT !.stack = Append(@, [path |-> path, size |-> size,
                                              left |-> Entries(T, Real(T, Here(path)))])]

\* One turn of the loop, and the call it makes.
NextEntry(T, st) ==
    LET k == Min(Top(st).left)
        path == Append(Top(st).path, k)
        len == Top(st).size + NAME_MAX
    IN  ShowTree(T, path, len, len + 1,
                 Written(Listed(T, path, LeftByTop(st, Top(st).left \ {k})), len))

\* The loop is over: show_tree answers 0, and its caller takes cur_depth back.
Returned(T, st) ==
    LET path == Top(st).path
    IN  [st EXCEPT !.stack = Front(@),
                   !.cur_depth = IF path # <<>> /\ TypeDir(T, Last(path)) THEN @ - 1 ELSE @]

\* realloc fails where the buffer had to grow.  The message is printed, and the
\* walk goes on with a buffer that is NULL (here: of no size), which ends it.
NoMemory(st, next) ==
    IF next.size = st.size THEN {} ELSE {[st EXCEPT !.size = 0, !.stack = <<>>]}

\* main, for a path of that length, which ends in a slash or not: "max depth of
\* dir" and the rest.
Walk(T, len, slash) ==
    ShowTree(T, <<>>, len, IF slash THEN len ELSE len + 1, NewWalk(len + 1))
=============================================================================
