------------------------------ MODULE FileCopy ------------------------------
(***************************************************************************)
(* Three copies of a file: aupe-chapter4/copy.c leaves out the NUL bytes,  *)
(* the holes; tlpi-chapter13/copy.c copies everything; aupe-chapter3/      *)
(* cpstd.c copies standard input, up to a line "exit".                     *)
(*                                                                         *)
(* A turn of the loop meets one answer of the system: [got |-> how much a  *)
(* read may return, -1 if it fails, put |-> "all", "some" or "none" of what *)
(* is written].  end is "running", "done", "failed" (exit -1), "crashed",  *)
(* or, of cpstd, "quit" (at "exit") and "stopped" (an error, but exit 0).  *)
(***************************************************************************)
EXTENDS Integers, Sequences, SequencesExt

CONSTANT BufferSize      \* 128, in all three

ExitFlag == <<1, 2>>

ASSUME FileCopyAssumption == BufferSize \in Nat /\ BufferSize >= Len(ExitFlag)

Answers == [got : {-1} \cup 1..BufferSize, put : {"all", "some", "none"}]

NulByte == 0
NonZero(bytes) ==
    LET kept[n \in 0..Len(bytes)] ==
            IF n = 0 THEN <<>>
            ELSE IF bytes[n] = NulByte THEN kept[n - 1] ELSE Append(kept[n - 1], bytes[n])
    IN  kept[Len(bytes)]

\* What the copy of src is to hold.
Wanted(program, src) == IF program = "aupe" THEN NonZero(src) ELSE src

\* write: what reaches the file, and whether it was all of it.
Write(program, st, put) ==
    LET failed == IF program = "cpstd" THEN "stopped" ELSE "failed"
    IN  CASE put = "all"  -> [st EXCEPT !.dest = @ \o st.wr_buff]
          [] put = "some" -> [st EXCEPT !.dest = @ \o Front(st.wr_buff), !.end = failed]
          [] put = "none" -> [st EXCEPT !.end = failed]

\* j = 0 after each turn.
ResetNot(st) == st
Reset(st) == [st EXCEPT !.wr_buff = <<>>]

\* The answer -1 of read becomes the greatest size_t, but in cpstd.  In
\* aupe-chapter4 the scan of the buffer then runs on to the end of the stack; in
\* tlpi-chapter13 write answers -1 too, which equals it, and the loop goes on.
ReadFailed(program, st) ==
    CASE program = "aupe"  -> [st EXCEPT !.end = "crashed"]
      [] program = "tlpi"  -> st
      [] program = "cpstd" -> [st EXCEPT !.end = "stopped"]

\* cpstd compares as much as "exit" has, read now or before.
Quits(program, buff) == program = "cpstd" /\ IsPrefix(ExitFlag, buff)

\* One turn of the loop.
Turned(program, st, answer) ==
    LET got  == IF answer.got < Len(st.rest) THEN answer.got ELSE Len(st.rest)
        took == SubSeq(st.rest, 1, got)
        read == [st EXCEPT !.rest = SubSeq(@, got + 1, Len(@)),
                           !.buff = took \o SubSeq(@, got + 1, Len(@)),
                           !.wr_buff = @ \o Wanted(program, took)]
    IN  IF answer.got = -1 THEN ReadFailed(program, st)
        ELSE IF got = 0 THEN [st EXCEPT !.end = "done"]
        ELSE IF Quits(program, read.buff) THEN [read EXCEPT !.end = "quit"]
        ELSE Reset(IF read.wr_buff = <<>> THEN read ELSE Write(program, read, answer.put))

\* main, up to the loop.  trouble: what is wrong with the two paths; "same": both
\* name one file, which O_TRUNC empties before it is read.
Opened(src, before, trouble) ==
    LET st == [rest |-> IF trouble = "same" THEN <<>> ELSE src,
               buff |-> [k \in 1..BufferSize |-> NulByte],
               wr_buff |-> <<>>, dest |-> <<>>, end |-> "running"]
    IN  IF trouble \in {"type", "source", "destination"}
        THEN [st EXCEPT !.dest = before, !.end = "failed"] ELSE st
=============================================================================
