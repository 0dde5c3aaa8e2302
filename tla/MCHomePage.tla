----------------------------- MODULE MCHomePage -----------------------------
(***************************************************************************)
(* Small instances of HomePage: a master, a mod with that master, and a    *)
(* second file with the master's name.                                     *)
(***************************************************************************)
EXTENDS HomePage

CONSTANTS master, mod, copy, home1, home2, call

MCSources == [id : 1..MaxFiles, file : {master, mod, copy}]

TwoPages == <<home1, home2>>
MCTasks == {home1, home2, call}

MCSelections == {<<master, mod>>, <<copy>>, <<mod>>}

MCNameOf == [s \in MCSources |-> IF s.file = mod THEN "mod" ELSE "master"]
MCMastersOf == [s \in MCSources |-> IF s.file = mod THEN <<"master">> ELSE <<>>]

Form(index, object) == [index |-> index, object |-> object]

\* The master has object 1; the mod overrides it, and adds object 2.
MCRecordsOf ==
  [s \in MCSources |-> IF s.file = mod THEN {Form(0, 1), Form(1, 2)} ELSE {Form(0, 1)}]

\* In the mod, the master's record.
MCReferences == {[context |-> s, id |-> Form(0, 1)] : s \in {s \in MCSources : s.file = mod}}
=============================================================================
