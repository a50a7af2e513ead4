---------------------- MODULE SignalProgramsProperties ----------------------
(* What the programs that live by one signal must guarantee. *)
EXTENDS SignalPrograms

\* When create-zombie sends SIGKILL, the pid is still its child's: whatever
\* moment the child or the shell of system ends at, nobody has waited for it.
KillHitsChild == program = "create-zombie" /\ place = "kill" => kid[1] \in {"running", "zombie"}

\* client-factory ends when all its children were waited for, abort_like with
\* its output flushed and by SIGABRT (unless a handler leaves it by longjmp); the
\* others end, but for one chance: an alarm that goes off between alarm and
\* pause is not waited for, and no other comes.
Done ==
    CASE program = "client-factory" ->
             place = "failed" \/ (place = "ended" /\ \A k \in Kids : kid[k] = "reaped")
      [] program = "abort_like" -> (place = "aborted" /\ ~dirty) \/ place = "escaped"
      [] OTHER -> ~Alive \/ (place = "pause" /\ early)

\* No signal that ends a wait is lost, and every program ends.
ComesToItsEnd == <>Done
=============================================================================
