--------------------------- MODULE MCModelViewer ----------------------------
(***************************************************************************)
(* An instance of ModelViewer: a model that the first folder has twice,    *)
(* among its meshes and elsewhere, and the second only elsewhere, and one  *)
(* that the first folder has in an archive.                                *)
(***************************************************************************)
EXTENDS ModelViewer

CONSTANTS page1, page2, r1, r2

TwoPages == <<page1, page2>>
MCCalls == {page1, page2} \X {"init", "work"}

Armor == <<"armor">>
MeshesArmor == <<"meshes", "armor">>
Tree == <<"meshes", "tree">>

MCLinked == {Armor}
MCTyped == {Tree}
MCPaths == {Armor, MeshesArmor, Tree}

Bytes(r, path) == [root |-> r, path |-> path]

\* Loose files are found or cannot be read; archived ones may also be missed.
MCAnswers(r, path) ==
  IF r = None THEN {None}
  ELSE IF <<r, path>> \in {<<r1, MeshesArmor>>, <<r1, Armor>>, <<r2, Armor>>} THEN {Bytes(r, path), Failed}
  ELSE {None, Failed} \cup (IF <<r, path>> = <<r1, Tree>> THEN {Bytes(r, path)} ELSE {})
=============================================================================
