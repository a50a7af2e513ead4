--------------------------- MODULE SignalPrograms ---------------------------
(***************************************************************************)
(* The programs that live by one signal:                                   *)
(*   create-daemon   tlpi-chapter37-38 and 41-42: SIGALRM paces its log    *)
(*   sleep1          aupe-chapter10/alarm.c: SIGALRM ends a pause          *)
(*   time-limit      aupe-chapter10: SIGALRM ends a read, by longjmp       *)
(*   create-zombie   tlpi-chapter24-26: SIGCHLD, blocked, then sigsuspend  *)
(*   client-factory  socket-chapter26: children, waited for without signal *)
(*   abort_like      tlpi-chapter21/abort-demo.c: SIGABRT, against all odds *)
(* A behaviour is a run of one of them.  A signal that is not blocked is   *)
(* delivered between any two steps; one that is blocked stays pending.     *)
(***************************************************************************)
EXTENDS Integers

CONSTANTS
    Num,        \* how many children client-factory starts
    Strays      \* how many SIGALRM others send

ASSUME SignalAssumption == Num \in Nat \ {0} /\ Strays \in Nat

VARIABLES
    program, place,
    armed,        \* the alarm clock runs
    early,        \* it went off before the program came to its pause
    counter, written,      \* create-daemon: signals counted, number last written
    blocked, pending,      \* SIGCHLD or SIGABRT
    kid,          \* the children
    i,            \* how many client-factory has started, then waited for
    disposition, dirty,    \* abort_like: what SIGABRT does; stdio holds output
    strays

clockVars == <<armed, early, counter, written, strays>>
maskVars  == <<blocked, pending>>
kidVars   == <<kid, i>>
abortVars == <<disposition, dirty>>
signalVars == <<program, place, clockVars, maskVars, kidVars, abortVars>>

Paced == {"create-daemon", "sleep1", "time-limit"}
Kids  == 1..Num

SignalInit ==
    /\ \/ program \in Paced \cup {"create-zombie"} /\ place = "install"
       \/ program = "client-factory" /\ place = "fork"
       \/ program = "abort_like" /\ place = "query"
    /\ armed = FALSE /\ early = FALSE /\ counter = 0 /\ written = -1 /\ strays = 0
    /\ blocked \in (IF program = "abort_like" THEN BOOLEAN ELSE {FALSE}) /\ pending = FALSE
    /\ kid = [k \in Kids |-> "none"] /\ i = 0
    /\ disposition \in (IF program = "abort_like"
                        THEN {"default", "ignore", "handler", "longjmp"} ELSE {"handler"})
    /\ dirty = (program = "abort_like")

Step(p, from, to) == program = p /\ place = from /\ place' = to /\ UNCHANGED program

-----------------------------------------------------------------------------
(* SIGALRM *)

Install ==
    /\ \/ Step("create-daemon", "install", "open") \/ Step("create-daemon", "open", "alarm")
       \/ Step("sleep1", "install", "alarm")
       \/ Step("time-limit", "install", "setjmp") \/ Step("time-limit", "setjmp", "alarm")
    /\ UNCHANGED <<clockVars, maskVars, kidVars, abortVars>>

Alarm ==
    /\ \/ Step("create-daemon", "alarm", "write") \/ Step("sleep1", "alarm", "pause")
       \/ Step("time-limit", "alarm", "read")
    /\ armed' = TRUE /\ early' = FALSE
    /\ UNCHANGED <<counter, written, strays, maskVars, kidVars, abortVars>>

\* A handler that returns ends the pause it finds; the daemon then writes its
\* next line, on a new alarm.
Wakes == "alarm"

\* sig_alrm, sig_handle, or the default action before one is installed.
Handle ==
    /\ place' = IF place = "install" THEN "killed"
             ELSE IF program = "time-limit" THEN IF place = "setjmp" THEN "undefined" ELSE "ended"
             ELSE IF place = "pause" THEN IF program = "sleep1" THEN "cancel" ELSE Wakes
             ELSE place
    /\ counter' = IF program = "create-daemon" /\ place # "install" THEN counter + 1 ELSE counter
    /\ UNCHANGED <<program, written, maskVars, kidVars, abortVars>>

Alive == place \notin {"ended", "failed", "killed", "undefined", "aborted", "escaped"}

Tick  == /\ Alive /\ armed /\ Handle
         /\ armed' = FALSE /\ early' = (place # "pause") /\ UNCHANGED strays
Stray == /\ Alive /\ program \in Paced /\ strays < Strays /\ Handle
         /\ strays' = strays + 1 /\ UNCHANGED <<armed, early>>

WriteLine ==
    /\ Step("create-daemon", "write", "test")
    /\ written' = counter
    /\ UNCHANGED <<armed, early, counter, strays, maskVars, kidVars, abortVars>>

Test ==
    /\ Step("create-daemon", "test", IF counter >= 10 THEN "ended" ELSE "pause")
    /\ UNCHANGED <<clockVars, maskVars, kidVars, abortVars>>

\* alarm(0) once pause has returned.
Cancel ==
    /\ Step("sleep1", "cancel", "ended")
    /\ armed' = FALSE
    /\ UNCHANGED <<early, counter, written, strays, maskVars, kidVars, abortVars>>

\* Lines are echoed as long as they come, until the input ends.
InputEnd ==
    /\ Step("time-limit", "read", "ended")
    /\ UNCHANGED <<clockVars, maskVars, kidVars, abortVars>>

-----------------------------------------------------------------------------
(* SIGCHLD *)

BlocksNothing == FALSE
Blocks == TRUE

Block ==
    /\ \/ Step("create-zombie", "install", "block") /\ UNCHANGED blocked
       \/ Step("create-zombie", "block", "fork") /\ blocked' = Blocks
    /\ UNCHANGED <<clockVars, pending, kidVars, abortVars>>

Reaped(f) == [k \in Kids |-> IF f[k] = "zombie" THEN "reaped" ELSE f[k]]

\* The handler proc_end waits for every zombie there is.
Sigchld(f) ==
    IF program = "create-zombie" /\ ~blocked
    THEN kid' = Reaped(f) /\ UNCHANGED pending
    ELSE kid' = f /\ pending' = (program = "create-zombie")

Fork ==
    /\ \/ Step("create-zombie", "fork", "look") /\ kid' = [kid EXCEPT ![1] = "running"]
          /\ UNCHANGED i
       \/ /\ Step("client-factory", "fork", IF i + 1 = Num THEN "wait" ELSE "fork")
          /\ kid' = [kid EXCEPT ![i + 1] = "running"]
          /\ i' = (i + 1) % Num
    /\ UNCHANGED <<clockVars, maskVars, abortVars>>

\* A child ends of itself (the clients once the server has answered or is
\* not there), or by SIGKILL.
KidEnds(k) ==
    /\ kid[k] = "running"
    /\ IF Alive THEN Sigchld([kid EXCEPT ![k] = "zombie"])
                ELSE kid' = [kid EXCEPT ![k] = "reaped"] /\ UNCHANGED pending  \* by init
    /\ UNCHANGED <<program, place, blocked, i, clockVars, abortVars>>

\* sleep, then system, whose shell is a child too: its SIGCHLD may stay pending.
Look ==
    /\ Step("create-zombie", "look", "kill") \/ Step("create-zombie", "look again", "suspend")
    /\ Sigchld(kid) \/ UNCHANGED <<kid, pending>>
    /\ UNCHANGED <<blocked, i, clockVars, abortVars>>

\* kill(zb_pid) fails once the child was waited for: its pid is nobody's, or
\* by now somebody else's.
KillChild ==
    /\ Step("create-zombie", "kill", IF kid[1] = "reaped" THEN "failed" ELSE "look again")
    /\ UNCHANGED <<clockVars, maskVars, kidVars, abortVars>>

LeavesBlocked == FALSE
Unblocks == TRUE

\* sigsuspend(&mask) with an empty mask: returns after the handler has run.
Suspend ==
    /\ Step("create-zombie", "suspend", "ended") /\ pending /\ Unblocks
    /\ kid' = Reaped(kid) /\ pending' = FALSE
    /\ UNCHANGED <<blocked, i, clockVars, abortVars>>

\* wait(NULL), num times.
Wait ==
    /\ Step("client-factory", "wait", IF i + 1 = Num THEN "ended" ELSE "wait")
    /\ \E k \in Kids : kid[k] = "zombie" /\ kid' = [kid EXCEPT ![k] = "reaped"]
    /\ i' = (i + 1) % Num
    /\ UNCHANGED <<clockVars, maskVars, abortVars>>

-----------------------------------------------------------------------------
(* SIGABRT *)

\* SIGABRT is no longer ignored nor blocked; stdio is flushed if it will kill.
Query ==
    /\ Step("abort_like", "query", "kill")
    /\ disposition' = IF disposition = "ignore" THEN "default" ELSE disposition
    /\ dirty' = (disposition \notin {"ignore", "default"})
    /\ blocked' = FALSE
    /\ UNCHANGED <<pending, clockVars, kidVars>>

\* kill(getpid(), SIGABRT): the default action, or a handler, which may print,
\* and which may not return.
Raise ==
    /\ \/ disposition = "default" /\ Step("abort_like", "kill", "aborted")
       \/ disposition = "handler" /\ Step("abort_like", "kill", "again")
       \/ disposition = "longjmp" /\ Step("abort_like", "kill", "escaped")
    /\ UNCHANGED <<clockVars, maskVars, kidVars, abortVars>>

Insist ==
    /\ Step("abort_like", "again", "kill")
    /\ dirty' = FALSE /\ disposition' = "default"
    /\ UNCHANGED <<clockVars, maskVars, kidVars>>

-----------------------------------------------------------------------------
\* sigaction, open, write, sigprocmask or fork fails, and the program ends.
Fail ==
    /\ \/ \E p \in Paced \cup {"create-zombie"} : Step(p, "install", "failed")
       \/ \E l \in {"open", "write"} : Step("create-daemon", l, "failed")
       \/ \E l \in {"block", "fork"} : Step("create-zombie", l, "failed")
       \/ Step("client-factory", "fork", "failed")
    /\ UNCHANGED <<clockVars, maskVars, kidVars, abortVars>>

Proceed ==
    \/ Install \/ Alarm \/ WriteLine \/ Test \/ Cancel
    \/ Block \/ Fork \/ Look \/ KillChild \/ Suspend \/ Wait
    \/ Query \/ Raise \/ Insist

SignalNext == Proceed \/ InputEnd \/ Fail \/ Tick \/ Stray \/ \E k \in Kids : KidEnds(k)

SignalSpec == SignalInit /\ [][SignalNext]_signalVars

\* The process runs, the clock goes off, and every child ends.
SignalFairness ==
    /\ WF_signalVars(Proceed) /\ WF_signalVars(Tick)
    /\ \A k \in Kids : WF_signalVars(KidEnds(k))
=============================================================================
