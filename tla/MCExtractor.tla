---------------------------- MODULE MCExtractor -----------------------------
(***************************************************************************)
(* A small instance of Extractor: two good archives that share a path; one *)
(* alone; a good one between one with a refused path and one with the same *)
(* path twice.                                                             *)
(***************************************************************************)
EXTENDS Extractor

CONSTANTS x, y, z, bad

MCPaths == {x, y, z, bad}
MCSelections ==
  {<< <<x, y>>, <<y, z>> >>, << <<x, y>> >>, << <<y, bad>>, <<x, y>>, <<z, z>> >>}
MCExisting == {{}, {y}, {z}}
=============================================================================
