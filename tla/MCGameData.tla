----------------------------- MODULE MCGameData -----------------------------
(***************************************************************************)
(* An instance of GameData.  The first folder has a good archive whose     *)
(* blocks do not stand in the order of its folder records, one with two    *)
(* equal hashes, one with embedded names that repeats a path of the first, *)
(* a loose file, and a file named as a folder.  The second has an archive  *)
(* with a damaged file, one of a kind that is not supported, and two       *)
(* folders that differ only in case.                                       *)
(***************************************************************************)
EXTENDS GameData, TLC

CONSTANTS c1, c2, r1, r2

MCLowerOf == [s \in {"", "..", "data", "Data", "m", "M", "x", "X", "y", "Y",
                     "a.bsa", "b.bsa", "c.bsa", "A.bsa", "B.bsa"} |->
  CASE s = "Data" -> "data" [] s = "M" -> "m" [] s = "X" -> "x" [] s = "Y" -> "y"
    [] s = "A.bsa" -> "a.bsa" [] s = "B.bsa" -> "b.bsa" [] OTHER -> s]

Model == <<"m", "x">>
Texture == <<"y">>

MCRequests == {<<"Data", "M", "x">>, <<"", "", "data", "data", "y">>, <<"m", "..", "y">>}

Packed(path, hash, from, length, toggle, name, expands) ==
  [is |-> path, hash |-> hash, offset |-> from, size |-> length, toggled |-> toggle,
   prefix |-> name, declared |-> expands, inflated |-> expands,
   at |-> from + (IF name > 0 THEN name + 1 ELSE 0) + (IF expands > 0 THEN 2 ELSE 0)]

Block(name, records) == [folder |-> name, files |-> records]

Good ==
  [supported |-> TRUE, valid |-> TRUE, version |-> "fallout3", embedded |-> FALSE, compressed |-> TRUE,
   fileCount |-> 2, length |-> 30, names |-> <<"X", "y", "rest">>,
   folders |-> <<[offset |-> 6, count |-> 1], [offset |-> 2, count |-> 1]>>,
   blocks |-> (2 :> Block(<<"M">>, <<Packed(Model, 1, 10, 5, FALSE, 0, 7)>>))
                @@ (6 :> Block(<<>>, <<Packed(Texture, 1, 15, 4, TRUE, 0, 0)>>))]

Embedded ==
  [supported |-> TRUE, valid |-> TRUE, version |-> "skyrimSE", embedded |-> TRUE, compressed |-> FALSE,
   fileCount |-> 2, length |-> 30, names |-> <<"x", "..">>,
   folders |-> <<[offset |-> 1, count |-> 2]>>,
   blocks |-> (1 :> Block(<<"data", "m">>,
     <<Packed(Model, 1, 8, 9, TRUE, 3, 6), Packed(<<"m", "..">>, 2, 17, 6, FALSE, 3, 0)>>))]

EqualHashes ==
  [Good EXCEPT !.blocks = (1 :> Block(<<"m">>, <<Packed(Model, 1, 10, 5, FALSE, 0, 7), Packed(Texture, 1, 15, 4, TRUE, 0, 0)>>)),
               !.folders = <<[offset |-> 1, count |-> 2]>>]

Damaged == [Good EXCEPT !.blocks[2].files[1].inflated = 8]

Xbox == [Good EXCEPT !.supported = FALSE]

MCContent == ("good" :> Good) @@ ("equal" :> EqualHashes) @@ ("embedded" :> Embedded)
               @@ ("damaged" :> Damaged) @@ ("xbox" :> Xbox)

MCRankOf == ("A.bsa" :> 1) @@ ("b.bsa" :> 2) @@ ("B.bsa" :> 2) @@ ("c.bsa" :> 3)

File(name, file) == [name |-> name, kind |-> "file", item |-> file]
Folder(name, folder) == [name |-> name, kind |-> "directory", item |-> folder]

MCListing ==
  (r1 :> <<File("c.bsa", "embedded"), File("m", "text"), File("A.bsa", "good"), Folder("M", "models"),
           File("b.bsa", "equal"), File("Y", "texture")>>)
    @@ (r2 :> <<Folder("M", "other"), Folder("m", "empty"), File("B.bsa", "xbox"), File("A.bsa", "damaged")>>)
    @@ ("models" :> <<Folder("x", "empty")>>) @@ ("other" :> <<File("X", "loose model")>>) @@ ("empty" :> <<>>)

\* What theorems about the service assume of folders and archives holds of these.
ASSUME MCAssumption == ArchivesDiffer /\ ArchivesReadRight
=============================================================================
