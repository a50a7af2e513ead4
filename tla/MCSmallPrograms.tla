-------------------------- MODULE MCSmallPrograms --------------------------
(* All small inputs of the programs of SmallPrograms. *)
EXTENDS SmallProgramsProperties

MCKinds == {"file", "dir", "locked", "lost file", "lost dir", "link"}

\* Four entries, each in the start or in a directory before it, and what the
\* links among them point to; and what else the start may be.
MCTrees ==
    {T \in [num : {4}, parent : [1..4 -> 0..3], to : 0..4,
            kind : {[f EXCEPT ![0] = "dir"] : f \in [0..4 -> MCKinds]}] :
        /\ \A k \in 1..4 : T.parent[k] < k /\ T.kind[T.parent[k]] = "dir"
        /\ (\A k \in 1..4 : T.kind[k] # "link") => T.to = 0}
    \cup [num : {0}, parent : {<<>>}, to : {0}, kind : [0..0 -> MCKinds \ {"link"}]]

\* Distinct arguments, with and without a dash.
MCArgLists ==
    UNION {{[k \in 1..n |-> [dash |-> d[k], id |-> k]] : d \in [1..n -> BOOLEAN]} : n \in 1..6}

MCEntries ==
    [proc : {TRUE}, gone : {FALSE}, name : {<<"x">>, <<"Pid:">>, <<"Uid:", "2">>},
     pid : {<<"1">>, <<"1", "2">>}, uid : {<<"1">>, <<"1", "2">>}]
    \cup {[proc |-> p, gone |-> g, name |-> <<"x">>, pid |-> <<"3">>, uid |-> <<"3">>] :
          p \in BOOLEAN, g \in {TRUE}}
MCDirectories == UNION {[1..n -> MCEntries] : n \in 0..3}

MCSources == UNION {[1..n -> {NulByte, 1, 2}] : n \in 0..3}
=============================================================================
