-------------------------- MODULE MCExplorerState ---------------------------
(***************************************************************************)
(* Small instances of ExplorerState: two plugins whose groups are at the   *)
(* same offsets, and references to records inside that group.              *)
(***************************************************************************)
EXTENDS ExplorerState

CONSTANTS first, second, t1, t2, g

TwoPlugins == {first, second}
TwoTasks == {t1, t2}
OneGroup == {g}
GroupPath == <<g>>
OneGroupOfSecond == {<<second, g>>}
=============================================================================
