-------------------------------- MODULE Dup2 --------------------------------
(***************************************************************************)
(* aupe-chapter3/dup2.c: dup2_ex, a dup2 made of dup and close.            *)
(*                                                                         *)
(* fds is the table of descriptors of the process: the file each is open   *)
(* on, or NoFile.                                                          *)
(***************************************************************************)
EXTENDS Integers, FiniteSetsExt

CONSTANTS OpenMax, Files

ASSUME Dup2Assumption == OpenMax \in Nat \ {0}

NoFile == "no file"
Fds == 0..(OpenMax - 1)
FdTables == [Fds -> Files \cup {NoFile}]

Open(fds, fd) == fd \in DOMAIN fds /\ fds[fd] # NoFile
Free(fds) == {fd \in DOMAIN fds : fds[fd] = NoFile}

CloseFdLeft(fds, fd) == fds
CloseFd(fds, fd) == [f \in DOMAIN fds |-> IF f = fd THEN NoFile ELSE fds[f]]

\* dup2_ex up to its loops.
Dup2Ex(fds, oldfd, newfd) ==
    LET st == [fds |-> fds, cur_fd |-> oldfd, begin_fd |-> oldfd, ret |-> -1, end |-> "running"]
    IN  IF oldfd < 0 \/ newfd < 0 THEN [st EXCEPT !.end = "returned"]
        ELSE IF oldfd = newfd THEN [st EXCEPT !.ret = newfd, !.end = "returned"]
        ELSE [st EXCEPT !.fds = CloseFd(@, newfd)]

\* One turn of the first: dup answers the lowest free descriptor, or -1 if oldfd
\* is closed or none is free.
Dupped(st, oldfd) ==
    LET cur == Min(Free(st.fds))
    IN  IF Open(st.fds, oldfd) /\ Free(st.fds) # {}
        THEN [st EXCEPT !.cur_fd = cur, !.fds = [@ EXCEPT ![cur] = st.fds[oldfd]]]
        ELSE [st EXCEPT !.cur_fd = -1]

\* The second loop ends.
ReachedBeyond(st) == st.begin_fd > st.cur_fd
Reached(st) == st.begin_fd = st.cur_fd

\* begin_fd++ leaves the int, which C does not define: it may wrap around and come
\* back, with nothing to close among the negative numbers, to 0, or the loop was
\* compiled never to end.
Overflowed(st) == {[st EXCEPT !.begin_fd = 0], [st EXCEPT !.end = "endless"]}

\* One turn of it.  From OpenMax on there is nothing to close, and OpenMax stands
\* for all the numbers up to the greatest int.
ClosedNext(st) ==
    IF st.begin_fd = OpenMax THEN Overflowed(st)
    ELSE {[st EXCEPT !.fds = CloseFd(@, st.begin_fd), !.begin_fd = @ + 1]}

\* What the kernel's dup2 answers, and makes of the table.
KernelDup2(fds, oldfd, newfd) ==
    IF Open(fds, oldfd) /\ newfd \in DOMAIN fds
    THEN [ret |-> newfd, fds |-> [fds EXCEPT ![newfd] = fds[oldfd]]]
    ELSE [ret |-> -1, fds |-> fds]
=============================================================================
