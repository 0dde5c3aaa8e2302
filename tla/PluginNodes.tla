---------------------------- MODULE PluginNodes -----------------------------
(***************************************************************************)
(* The bytes of one plugin file, as far as its structure goes, and the     *)
(* nodes found in it (PluginNode, RecordNode, GroupNode).                  *)
(*                                                                         *)
(* A header is what the 24 bytes at an offset say when they are read as a  *)
(* RecordHeader or a GroupHeader.  The bytes never change, but most are    *)
(* never read: a header is chosen when it is first looked at and kept in   *)
(* `file', so that a later look finds the same.                            *)
(***************************************************************************)
EXTENDS Integers, Sequences, SequencesExt, FiniteSets

CONSTANTS
  HeaderSize,   \* RecordHeader.Size and GroupHeader.Size
  Word,         \* the bytes of a 32-bit integer
  MaxInt,       \* int.MaxValue
  Lengths,      \* the lengths of a file
  RecordHeaders, GroupHeaders,   \* the headers a file may hold, true or not
  None          \* null

\* size: DataSize of a record, TotalSize of a group.
Headers == RecordHeaders \cup GroupHeaders

\* The nodes there can be.
NodeSet == [offset : Nat, depth : Nat, header : Headers]

ASSUME PluginNodesAssumption ==
  /\ HeaderSize \in Nat \ {0} /\ Word \in Nat \ {0} /\ MaxInt \in Nat
  /\ Lengths \subseteq Nat
  /\ RecordHeaders \subseteq [kind : {"record", "compressed"}, size : Nat, id : Nat]
  /\ GroupHeaders \subseteq [kind : {"group"}, size : Nat]
  /\ None \notin Nat /\ None \notin NodeSet

VARIABLES
  length,   \* PluginFile.Length
  file      \* offset -> header, for the offsets looked at so far

bytes == <<length, file>>

FormIds == {h.id : h \in RecordHeaders}

Node(o, depth, header) == [offset |-> o, depth |-> depth, header |-> header]

IsGroup(n) == n.header.kind = "group"
DataOffset(n) == n.offset + HeaderSize
DataSize(n) == IF IsGroup(n) THEN n.header.size - HeaderSize ELSE n.header.size
EndOffset(n) == DataOffset(n) + DataSize(n)

\* The nodes there can be in this file: they end in it.
FileNodes == {n \in NodeSet : DataSize(n) >= 0 /\ EndOffset(n) <= length}

\* What is read at offset o is header.
Holds(o, header) ==
  /\ o \in DOMAIN file => header = file[o]
  /\ file' = [p \in DOMAIN file \cup {o} |-> IF p = o THEN header ELSE file[p]]
  /\ UNCHANGED length

BytesInit == length \in Lengths /\ file = <<>>

BytesTypeOK ==
  /\ length \in Lengths
  /\ file \in [DOMAIN file -> Headers]
  /\ \A o \in DOMAIN file : o \in Nat /\ o + HeaderSize <= length
=============================================================================
