----------------------------- MODULE FileAccess -----------------------------
(***************************************************************************)
(* fileAccess.ts: the files the user selected, registered under numbers so *)
(* that slices of them can be read from the other side of the interop      *)
(* boundary.  Functions of this script run without interruption.           *)
(***************************************************************************)
EXTENDS Integers, Sequences

VARIABLES
  files,        \* files: id -> the File
  nextId        \* nextId: the last id given

fileAccess == <<files, nextId>>

FileAccessInit == files = <<>> /\ nextId = 0

\* The ids that registerAll gives to so many files.
NewIds(count) == nextId + 1 .. nextId + count

\* registerAll: the files of the input element, which is gone (undefined) when
\* its page was left.
RegisterAll(selected) ==
  /\ files' = [id \in DOMAIN files \cup NewIds(Len(selected)) |->
       IF id \in NewIds(Len(selected)) THEN selected[id - nextId] ELSE files[id]]
  /\ nextId' = nextId + Len(selected)

\* readSlice: an id that is not registered throws.
CanRead(id) == id \in DOMAIN files

\* Mutant of ReleaseFiles: the file stays.
ReleaseFilesNot(ids) == UNCHANGED files

\* release, of each of these ids.
ReleaseFiles(ids) ==
  files' = [id \in DOMAIN files \ ids |-> files[id]]
=============================================================================
