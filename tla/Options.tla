------------------------------- MODULE Options -------------------------------
(***************************************************************************)
(* global.c: the table of options and values made of argv, and its         *)
(* readers.  An argument is [dash |-> whether it begins with '-', id |->   *)
(* which one it is]; an entry of the table holds ids, NULL, or what malloc *)
(* left there, fresh, which may be NULL too.                               *)
(***************************************************************************)
EXTENDS Integers, Sequences, SequencesExt

NULL == 0

Advanced(s) == s.i
Started(s) == IF s.next THEN s.i ELSE s.i + 1

\* The table of option_new for at least one argument, as malloc returned it.
Raw(args, fresh) ==
    [i |-> 0, j |-> 1, next |-> TRUE, end |-> "running",
     opts |-> [k \in 1..(Len(args) + 1) |-> [opt |-> fresh, val |-> fresh]]]

\* The loop goes on.
More(s, args) == s.i < Len(args) /\ s.j <= Len(args)

\* One turn of it: an option stays open for the value that may follow it.
Turn(s, args) ==
    LET arg == args[s.j]
    IN  IF arg.dash
        THEN [s EXCEPT !.j = @ + 1, !.i = Started(s), !.next = FALSE,
                       !.opts = [@ EXCEPT ![Started(s) + 1] = [opt |-> arg.id, val |-> NULL]]]
        ELSE [s EXCEPT !.j = @ + 1, !.i = @ + 1, !.next = TRUE,
                       !.opts = [@ EXCEPT ![s.i + 1] =
                           [opt |-> IF s.next THEN NULL ELSE s.opts[s.i + 1].opt, val |-> arg.id]]]

\* The last entry is cleared.
Closed(s) ==
    [s EXCEPT !.opts = [@ EXCEPT ![Len(s.opts)] = [opt |-> NULL, val |-> NULL]], !.end = "done"]

Empty(e) == e.opt = NULL /\ e.val = NULL

\* option_iterator: the entries before the first empty one.
Iterated(opts) ==
    LET end == CHOOSE k \in 1..Len(opts) : Empty(opts[k]) /\ \A j \in 1..(k - 1) : ~Empty(opts[j])
    IN  SubSeq(opts, 1, end - 1)

\* option_item, option_get_opt, option_get_val: the index-th, or the empty one.
Item(opts, index) ==
    LET n == Len(Iterated(opts)) IN IF index < n THEN opts[index + 1] ELSE opts[n + 1]

=============================================================================
