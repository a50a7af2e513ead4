--------------------------- MODULE SmallPrograms ---------------------------
(***************************************************************************)
(* The programs that wait for nobody: a behaviour is one run of one of     *)
(* them, on one of the inputs below, a step being one turn of a loop.      *)
(***************************************************************************)
EXTENDS FileTree, Options, ProcessList, FileCopy, Dup2

CONSTANTS Trees, Lengths, ArgLists, Directories, Sources

\* The file systems of the walk: entries with a directory each, and one target of
\* links; whether they form a tree is not asked.  A start that is a link is what
\* the link points to.
IsTree(T) ==
    /\ T.num \in Nat /\ T.to \in 0..T.num
    /\ T.parent \in [1..T.num -> 0..T.num]
    /\ T.kind \in [0..T.num -> {"file", "dir", "locked", "lost file", "lost dir", "link"}]
    /\ T.kind[0] # "link"

ASSUME SmallAssumption ==
    /\ \A T \in Trees : IsTree(T)
    /\ Lengths \subseteq Nat \ {0}
    /\ ArgLists \subseteq Seq([dash : BOOLEAN, id : Nat \ {NULL}]) \ {<<>>}
    /\ Directories \subseteq Seq(ProcEntries)
    /\ Sources \subseteq Seq(Nat)

VARIABLES
    command,      \* the program
    input,        \* what it is given
    work          \* its variables, and what it has done

smallVars == <<command, input, work>>

Begins(p, in, st) == command = p /\ input = in /\ work = st
Does(st) == work' = st /\ UNCHANGED <<command, input>>
Runs(p)  == command = p /\ work.end = "running"

-----------------------------------------------------------------------------
(* filetree *)

WalkBegins ==
    \E T \in Trees, len \in Lengths, slash \in BOOLEAN :
        LET st == Walk(T, len, slash)
        IN  /\ slash => T.kind[0] # "file"
            /\ \E first \in {st} \cup NoMemory(NewWalk(len + 1), st) :
                Begins("filetree", [T |-> T, len |-> len], first)

InLoop == command = "filetree" /\ work.stack # <<>>
WalkTurn    == InLoop /\ Top(work).left # {} /\ Does(NextEntry(input.T, work))
WalkReturns == InLoop /\ Top(work).left = {} /\ Does(Returned(input.T, work))
WalkCrashes ==
    /\ InLoop /\ Top(work).left # {}
    /\ \E st \in NoMemory(work, NextEntry(input.T, work)) : Does(st)
WalkGoesOn  == WalkTurn \/ WalkReturns \/ WalkCrashes

-----------------------------------------------------------------------------
(* option_new *)

OptionsBegin ==
    \E args \in ArgLists, fresh \in {NULL, -1} :
        Begins("options", [args |-> args, fresh |-> fresh], Raw(args, fresh))

OptionTurn == Runs("options") /\ More(work, input.args) /\ Does(Turn(work, input.args))
OptionsEnd == Runs("options") /\ ~More(work, input.args) /\ Does(Closed(work))
OptionsGoOn == OptionTurn \/ OptionsEnd

-----------------------------------------------------------------------------
(* getproc-info *)

ListBegins == \E d \in Directories : Begins("getproc-info", d, NothingShown)

ListTurn == Runs("getproc-info") /\ work.at < Len(input) /\ Does(ShowProc(work, input))
ListEnds ==
    Runs("getproc-info") /\ work.at = Len(input) /\ Does([work EXCEPT !.end = "done"])
ListGoesOn == ListTurn \/ ListEnds

-----------------------------------------------------------------------------
(* copy.c, twice, and cpstd, which has one path only *)

Troubles(p) == IF p = "cpstd" THEN {"none", "destination"}
               ELSE {"none", "type", "source", "destination", "same"}

CopyBegins ==
    \E p \in {"aupe", "tlpi", "cpstd"}, src \in Sources :
    \E trouble \in Troubles(p) :
        Begins("copy", [program |-> p, src |-> src, trouble |-> trouble],
               Opened(src, <<1>>, trouble))

CopyGoesOn == Runs("copy") /\ \E a \in Answers : Does(Turned(input.program, work, a))

-----------------------------------------------------------------------------
(* dup2_ex *)

Dup2Begins ==
    \E fds \in FdTables, oldfd \in -1..OpenMax, newfd \in -1..OpenMax :
        Begins("dup2", [fds |-> fds, oldfd |-> oldfd, newfd |-> newfd],
               Dup2Ex(fds, oldfd, newfd))

DupTurn ==
    Runs("dup2") /\ work.cur_fd # input.newfd /\ Does(Dupped(work, input.oldfd))

CloseTurn ==
    /\ Runs("dup2") /\ work.cur_fd = input.newfd /\ ~Reached(work)
    /\ \E st \in ClosedNext(work) : Does(st)

Dup2Returns ==
    /\ Runs("dup2") /\ work.cur_fd = input.newfd /\ Reached(work)
    /\ Does([work EXCEPT !.ret = work.cur_fd, !.end = "returned"])

Dup2GoesOn == DupTurn \/ CloseTurn \/ Dup2Returns

-----------------------------------------------------------------------------
SmallInit == WalkBegins \/ OptionsBegin \/ ListBegins \/ CopyBegins \/ Dup2Begins

SmallNext == WalkGoesOn \/ OptionsGoOn \/ ListGoesOn \/ CopyGoesOn \/ Dup2GoesOn

SmallSpec == SmallInit /\ [][SmallNext]_smallVars

\* A program that can take a step does.
SmallFairness == WF_smallVars(WalkGoesOn) /\ WF_smallVars(Dup2GoesOn)
=============================================================================
