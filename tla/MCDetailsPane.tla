---------------------------- MODULE MCDetailsPane ----------------------------
(***************************************************************************)
(* An instance of DetailsPane: a group of three pages, the last one short, *)
(* a record in it, and of another plugin a record and a group that stands  *)
(* where the first one does.                                               *)
(***************************************************************************)
EXTENDS DetailsPane

CONSTANTS g, twin, r, other, p, q

MCWindowOf ==
  (g :> [start |-> 0, length |-> 5]) @@ (twin :> [start |-> 0, length |-> 5])
    @@ (r :> [start |-> 2, length |-> 3]) @@ (other :> [start |-> 0, length |-> 2])

MCPluginOf == [n \in PaneNodes |-> IF n \in {other, twin} THEN q ELSE p]
=============================================================================
