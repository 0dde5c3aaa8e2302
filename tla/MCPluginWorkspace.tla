------------------------- MODULE MCPluginWorkspace --------------------------
(***************************************************************************)
(* Small instances of PluginWorkspace: a master, a mod with that master,   *)
(* and a second file with the master's name.                               *)
(***************************************************************************)
EXTENDS PluginWorkspace

CONSTANTS master, mod, copy, t1, t2

AllSources == {master, mod, copy}
MasterAndMod == {master, mod}
TwoTasks == {t1, t2}

Names(s) == IF s = mod THEN "mod" ELSE "master"
MCNameOf == [s \in Sources |-> Names(s)]
MCMastersOf == [s \in Sources |-> IF s = mod THEN <<"master">> ELSE <<>>]

Form(index, object) == [index |-> index, object |-> object]

\* The master has object 1; the mod overrides it, and adds object 2.
MCRecordsOf ==
  [s \in Sources |-> IF s = mod THEN {Form(0, 1), Form(1, 2)} ELSE {Form(0, 1)}]

Ref(context, index, object) == [context |-> context, id |-> Form(index, object)]

\* In the mod: null, the master's record, its own record; in the master: an id
\* that no record has.
MCReferences ==
  {Ref(mod, 0, 0), Ref(mod, 0, 1), Ref(mod, 1, 2), Ref(master, 0, 2)}

\* The theorem about ResolvesRight is about workspaces like this one.
ASSUME MCWellFormed == WellFormed
=============================================================================
