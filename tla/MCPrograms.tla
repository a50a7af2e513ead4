----------------------------- MODULE MCPrograms -----------------------------
(* The programs that talk to nobody: a behaviour is one run of one of those of *)
(* SmallPrograms or of SignalPrograms, while the other module does nothing.    *)
EXTENDS MCSmallPrograms, SignalProgramsProperties

NoSmall == command = "none" /\ input = <<>> /\ work = <<>>

NoSignal ==
    /\ program = "none" /\ place = "ended"
    /\ armed = FALSE /\ early = FALSE /\ counter = 0 /\ written = -1 /\ strays = 0
    /\ blocked = FALSE /\ pending = FALSE
    /\ kid = [k \in Kids |-> "none"] /\ i = 0
    /\ disposition = "default" /\ dirty = FALSE

ProgramsInit == (SmallInit /\ NoSignal) \/ (SignalInit /\ NoSmall)

ProgramsNext ==
    \/ SmallNext  /\ UNCHANGED signalVars
    \/ SignalNext /\ UNCHANGED smallVars

ProgramsSpec ==
    /\ ProgramsInit /\ [][ProgramsNext]_<<smallVars, signalVars>>
    /\ SmallFairness /\ SignalFairness
=============================================================================
