---------------------- MODULE SmallProgramsProperties ----------------------
(* What those programs must have done when they end. *)
EXTENDS SmallPrograms

-----------------------------------------------------------------------------
(* filetree *)

\* An entry that ends the loop of its directory.
Fails(T, path) == ~Exists(T, path) \/ Kind(T, path) = "locked"

\* The entries of the directory path that are to be shown: up to the first that
\* fails.
Shown(T, path) ==
    LET entries == Entries(T, Real(T, Here(path)))
    IN  {k \in entries : /\ ~Fails(T, path) /\ IsDir(T, path)
                         /\ \A e \in entries : e < k => ~Fails(T, Append(path, e))}

\* How many directories are on the way down to the entry path.
Above(T, path) == Cardinality({k \in 1..(Len(path) - 1) : TypeDir(T, path[k])})

Paths(lines) == {lines[n][1] : n \in DOMAIN lines}

\* The directories that failed before the n-th line left cur_depth one too high.
Leaked(T, lines, n) ==
    {m \in 1..(n - 1) : LET path == lines[m][1]
                        IN  TypeDir(T, Last(path)) /\ Fails(T, path)}

Depth(T, line) == line[2] + IF TypeDir(T, Last(line[1])) THEN 1 ELSE 0

\* The walk, if no realloc fails, shows every entry it can reach once (what is to
\* be shown of the start and of what is shown, and nothing else), counts each and
\* the start as what it is, indents it by its depth and by what leaked before, and
\* writes nothing past its buffer.
WalkComplete ==
    command = "filetree" /\ work.stack = <<>> /\ work.size # 0 =>
    LET T == input.T
        lines == work.lines
        paths == Paths(lines)
        all == {<<>>} \cup paths
    IN  /\ paths = UNION {{Append(p, k) : k \in Shown(T, p)} : p \in all}
        /\ Len(lines) = Cardinality(paths)
        /\ work.file = Cardinality({p \in all : Exists(T, p) /\ ~IsDir(T, p)})
        /\ work.dir = Cardinality({p \in all : Exists(T, p) /\ IsDir(T, p)})
        /\ \A n \in DOMAIN lines :
               lines[n][2] = Above(T, lines[n][1]) + Cardinality(Leaked(T, lines, n))
        /\ work.max_depth = Max({0} \cup {Depth(T, lines[n]) : n \in DOMAIN lines})
        /\ work.fits

-----------------------------------------------------------------------------
(* global.c *)

\* The arguments that make an entry of the table: an option, and a value that
\* comes after no option.
Heads(args) == {k \in DOMAIN args : args[k].dash \/ k = 1 \/ ~args[k - 1].dash}

\* What global.h wants there: an option with the value after it, if there is one.
Pair(args, k) ==
    IF args[k].dash
    THEN [opt |-> args[k].id,
          val |-> IF k < Len(args) /\ ~args[k + 1].dash THEN args[k + 1].id ELSE NULL]
    ELSE [opt |-> NULL, val |-> args[k].id]

\* The entry of the table that is for the k-th argument.
Rank(args, k) == Cardinality({j \in Heads(args) : j <= k})

\* The table holds every option with its value, in order, whatever mixture the
\* arguments are, and its readers give those back.  What an option with a value
\* leaves unused at the end is as malloc returned it: the readers stop there
\* only if that happened to be zero.
OptionsKept ==
    command = "options" /\ work.end = "done" =>
    LET args == input.args
        got == Iterated(work.opts)
        count == Cardinality(Heads(args))
    IN  /\ count <= Len(got)
        /\ \A k \in Heads(args) : got[Rank(args, k)] = Pair(args, k)
        /\ input.fresh = NULL \/ count = Len(args) => Len(got) = count
        /\ \A index \in 0..Len(work.opts) :
               IF index < Len(got) THEN Item(work.opts, index) = got[index + 1]
               ELSE Empty(Item(work.opts, index))

-----------------------------------------------------------------------------
(* getproc-info *)

Procs(entries) == {k \in DOMAIN entries : entries[k].proc}

\* The first process that has gone ends the list.
Listable(entries) ==
    {k \in Procs(entries) : \A j \in Procs(entries) : j <= k => ~entries[j].gone}

\* A name that contains a key is taken for it.
Plain(e) == ToSet(e.name) \cap Keys = {} /\ Len(Status(e)) <= RdSize

\* Each process is shown once, in order, with what its own status says, whatever
\* the buffers held of the one before; and whatever a name holds that is taken for
\* a key, nothing is written past ret_buff, which is smaller than what is read.
ProcessesShown ==
    command = "getproc-info" =>
    /\ work.fits
    /\ work.end # "running" =>
       LET lines == work.lines
           Entry(n) == input[lines[n].path]
       IN  /\ {lines[n].path : n \in DOMAIN lines} = Listable(input)
           /\ \A m, n \in DOMAIN lines : m < n => lines[m].path < lines[n].path
           /\ work.end = "failed" <=> Listable(input) # Procs(input)
           /\ \A n \in DOMAIN lines :
                  Plain(Entry(n)) => lines[n].pid = Entry(n).pid /\ lines[n].uid = Entry(n).uid

-----------------------------------------------------------------------------
(* copy.c, twice, and cpstd *)

\* A copy that comes to the end of its source holds all of it (in tlpi-chapter13
\* the NUL bytes of its holes too, where the comment at copy.c:65 says that only
\* what is not a hole is copied), or, in aupe-chapter4, all but its NUL bytes; one
\* that stops earlier, for whatever reason, and one that goes on, hold a beginning
\* of that.  A copy of a file onto itself ends with success and
\* has lost it; a path that will not do changes nothing.
CopyFaithful ==
    command = "copy" =>
    LET wanted == Wanted(input.program, input.src)
    IN  CASE input.trouble = "none" ->
                 /\ IsPrefix(work.dest, wanted)
                 /\ work.end = "done" => work.dest = wanted
                 /\ work.end = "quit" => IsPrefix(Append(work.dest, Head(ExitFlag)), wanted)
          [] input.trouble = "same" -> work.dest = <<>> /\ work.end # "failed"
          [] OTHER -> work.dest = <<1>> /\ work.end = "failed"

-----------------------------------------------------------------------------
(* dup2_ex *)

Replaceable(fds, oldfd, newfd) == Open(fds, oldfd) /\ oldfd < newfd /\ newfd < OpenMax

\* The descriptors the second loop comes by, from oldfd to newfd: if newfd is the
\* lower one, up to the greatest, and again from 0.
Between(oldfd, newfd) ==
    IF oldfd < newfd THEN oldfd..(newfd - 1) ELSE oldfd..(OpenMax - 1) \cup 0..(newfd - 1)

\* With two descriptors that differ dup2_ex returns only where the kernel's dup2
\* would have replaced newfd, and answers and leaves newfd as that does.  It has
\* however closed what Between says, oldfd too, and, with newfd the greater, has
\* opened what was free below oldfd.
ReplacedAsTold ==
    command = "dup2" /\ work.end = "returned" =>
    LET fds == input.fds  oldfd == input.oldfd  newfd == input.newfd
        told == KernelDup2(fds, oldfd, newfd)
    IN  IF oldfd < 0 \/ newfd < 0 \/ oldfd = newfd
        THEN work.fds = fds /\ work.ret = IF oldfd = newfd THEN oldfd ELSE -1
        ELSE /\ told.ret = newfd /\ work.ret = newfd
             /\ work.fds = [fd \in DOMAIN fds |->
                    CASE fd = newfd -> told.fds[fd]
                      [] fd \in Between(oldfd, newfd) -> NoFile
                      [] fd < oldfd /\ oldfd < newfd /\ fds[fd] = NoFile -> fds[oldfd]
                      [] OTHER -> fds[fd]]

\* dup2.c:4 has dup2_ex do what dup2 does.  With an oldfd that is open, and if it
\* returns at all, it would answer the same and leave the same table.
SameAsDup2 ==
    command = "dup2" /\ work.end = "returned" /\ Open(input.fds, input.oldfd) =>
    LET told == KernelDup2(input.fds, input.oldfd, input.newfd)
    IN  work.ret = told.ret /\ work.fds = told.fds

-----------------------------------------------------------------------------
\* Every walk ends, whatever the links lead back to, and dup2_ex returns whenever
\* it can replace the descriptor.
LoopsEnd ==
    /\ command = "filetree" ~> command = "filetree" /\ work.stack = <<>>
    /\ command = "dup2" /\ Replaceable(input.fds, input.oldfd, input.newfd) ~>
           command = "dup2" /\ work.end = "returned"
=============================================================================
