---------------------------- MODULE MCPluginFile ----------------------------
(***************************************************************************)
(* An instance of PluginFile, on a small scale: headers of two bytes, a    *)
(* window of two headers, files with room for three nodes behind the       *)
(* shortest TES4 record, sizes that fit, that are too long and too short,  *)
(* and one above MaxInt.                                                   *)
(***************************************************************************)
EXTENDS PluginFile

MCRecordHeaders ==
  [kind : {"record"}, size : {0, 1}, id : {1, 2}]
    \cup [kind : {"record"}, size : {3, 4, 8}, id : {1}]
    \cup [kind : {"compressed"}, size : {1, 2}, id : {1}]

MCGroupHeaders == [kind : {"group"}, size : {0, 1, 2, 4, 5, 6}]
=============================================================================
