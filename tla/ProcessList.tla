----------------------------- MODULE ProcessList -----------------------------
(***************************************************************************)
(* tlpi-chapter12/getproc-info.c: the pid and the user of every process,   *)
(* read from /proc into two static buffers that are never cleared.         *)
(*                                                                         *)
(* A cell of a buffer holds a key, a digit or letter, "blank", "newline"   *)
(* or NUL.  A directory entry is [proc |-> its name is all digits, gone |-> *)
(* the process ends before its status is read, name, pid, uid |-> what the *)
(* status says].                                                           *)
(***************************************************************************)
EXTENDS Integers, Sequences, SequencesExt

CONSTANTS
    RdSize,      \* how much read_file reads, the size of its rd_buff: 256
    RetSize,     \* the size of the ret_buff of show_info: 128
    Chars        \* digits and letters

NUL == "NUL"
Keys == {"Pid:", "Uid:"}

ASSUME ProcessListAssumption ==
    /\ RdSize \in Nat \ {0} /\ RetSize \in Nat \ {0}
    /\ Chars \cap (Keys \cup {NUL, "blank", "newline"}) = {}

\* The kernel writes a pid and a uid as digits; a name may hold anything.  It
\* keeps each of their lines shorter than ret_buff, which the code relies on.
Short(S) == {s \in Seq(S) : Len(s) + 2 < RetSize}
ProcEntries ==
    [proc : BOOLEAN, gone : BOOLEAN, name : Short(Chars \cup Keys \cup {"blank", "newline"}),
     pid : Short(Chars) \ {<<>>}, uid : Short(Chars) \ {<<>>}]

\* /proc/<pid>/status: the name comes first, and may hold anything.
Status(e) == e.name \o <<"newline", "Pid:", "blank">> \o e.pid
                    \o <<"newline", "Uid:", "blank">> \o e.uid \o <<"newline">>

\* A string ends at the first NUL.
Text(cells) == LET end == SelectInSeq(cells, LAMBDA c : c = NUL)
               IN  IF end = 0 THEN cells ELSE SubSeq(cells, 1, end - 1)

\* cells, after s was copied to their beginning.
Over(cells, s) == [k \in 1..Len(cells) |-> IF k <= Len(s) THEN s[k] ELSE cells[k]]

\* strstr: the rest of the text from key on, <<>> if it is not there.
StrStr(cells, key) ==
    LET t == Text(cells)
        k == SelectInSeq(t, LAMBDA c : c = key)
    IN  IF k = 0 THEN <<>> ELSE SubSeq(t, k, Len(t))

\* What follows the key on its line, without the blanks before it.
Skipped(t) == LET k == SelectInSeq(t, LAMBDA c : c # "blank")
              IN  IF k = 0 THEN <<>> ELSE SubSeq(t, k, Len(t))
LineOf(t) == LET k == SelectInSeq(t, LAMBDA c : c = "newline")
           IN  IF k = 0 THEN t ELSE SubSeq(t, 1, k - 1)

\* ret_buff after the copy of s into it.
CopiedOpen(ret, s) == Over(ret, s)
Copied(ret, s) == Over(ret, Append(s, NUL))

\* show_info: what ret_buff holds after it, what the caller prints, and whether the
\* line and its NUL fit: no test in the code sees to it.
ShowInfo(ret, found) ==
    LET line  == LineOf(Skipped(Tail(found)))
        after == Copied(ret, line)
    IN  IF Len(found) <= 1 THEN [ret |-> ret, text |-> <<>>, fits |-> TRUE]
        ELSE [ret |-> after, text |-> Text(after), fits |-> Len(line) < Len(ret)]

\* read_file of the k-th entry; the last byte read makes room for the NUL.
ReadFile(st, k, e) ==
    LET status == Status(e)
        got == IF Len(status) < RdSize THEN Len(status) ELSE RdSize
        rd  == [Over(st.rd, SubSeq(status, 1, got)) EXCEPT ![got] = NUL]
        pid == ShowInfo(st.ret, StrStr(rd, "Pid:"))
        uid == ShowInfo(pid.ret, StrStr(rd, "Uid:"))
    IN  [st EXCEPT !.rd = rd, !.ret = uid.ret, !.fits = @ /\ pid.fits /\ uid.fits,
                   !.lines = Append(@, [path |-> k, pid |-> pid.text, uid |-> uid.text])]

\* show_proc_list before its loop, and a turn of it: a process that is gone ends
\* the program.
NothingShown ==
    LET Zeros(size) == [k \in 1..size |-> NUL]
    IN  [at |-> 0, rd |-> Zeros(RdSize), ret |-> Zeros(RetSize), fits |-> TRUE,
         lines |-> <<>>, end |-> "running"]

ShowProc(st, entries) ==
    LET k == st.at + 1
        next == [st EXCEPT !.at = k]
    IN  IF ~entries[k].proc THEN next
        ELSE IF entries[k].gone THEN [next EXCEPT !.end = "failed"]
        ELSE ReadFile(next, k, entries[k])
=============================================================================
