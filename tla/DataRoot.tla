------------------------------ MODULE DataRoot ------------------------------
(***************************************************************************)
(* dataRoot.ts: the folder the user granted, found and read through the    *)
(* File System Access API.  A handle of a folder is a value of Listing's   *)
(* domain, and what it lists are entries: a name, a kind, and the folder   *)
(* or file it stands for.  A path is a sequence of segments, the empty one *)
(* between two slashes.  The folders do not change while they are used.    *)
(* Lookups await the browser, but only their ends touch this state: each   *)
(* is one step here.                                                       *)
(***************************************************************************)
EXTENDS Integers, Sequences, SequencesExt, FiniteSetsExt

CONSTANTS
  Roots,        \* the folders a user can pick
  Listing,      \* folder -> its entries, in the order the browser gives them
  LowerOf,      \* segment or name -> its lower case
  Outside,      \* the segments ".", ".." and those with a colon
  None          \* null

\* What a folder lists are finitely many entries, one of a name; a name in lower case
\* stays as it is.
ASSUME DataRootAssumption ==
  /\ \A folder \in DOMAIN Listing : Listing[folder] \in Seq(ToSet(Listing[folder]))
  /\ \A folder \in DOMAIN Listing : \A i, j \in DOMAIN Listing[folder] :
       Listing[folder][i].name = Listing[folder][j].name => i = j
  /\ \A folder \in DOMAIN Listing : \A e \in ToSet(Listing[folder]) :
       e.item # None /\ (e.kind = "directory" => e.item \in DOMAIN Listing)
  /\ Roots \subseteq DOMAIN Listing /\ None \notin DOMAIN Listing
  /\ LowerOf \in [DOMAIN LowerOf -> DOMAIN LowerOf]
  /\ \A s \in DOMAIN LowerOf : LowerOf[LowerOf[s]] = LowerOf[s]

VARIABLES
  hasPicker,    \* the browser has showDirectoryPicker
  rootHandle,   \* rootHandle
  openFiles,    \* openFiles: id -> the file
  nextFileId    \* nextFileId

dataRoot == <<hasPicker, rootHandle, openFiles, nextFileId>>

DataRootInit ==
  /\ hasPicker \in BOOLEAN
  /\ rootHandle = None
  /\ openFiles = <<>> /\ nextFileId = 1

-----------------------------------------------------------------------------
(* Finding a file                                                          *)

\* The segment between two slashes.
Blank == ""

\* From the first place with another segment on, or the last place.
Without(path, segment) ==
  SubSeq(path, Min({n \in DOMAIN path : path[n] # segment \/ n = Len(path)}), Len(path))

\* Slashes at the front are trimmed, then "data/" as often as it is there.
NormalizeDataPath(path) == Without(Without([i \in DOMAIN path |-> LowerOf[path[i]]], Blank), "data")

\* The places of the entries that a scan for this name would stop at.
Children(folder, name, kind) ==
  {i \in DOMAIN Listing[folder] : LowerOf[Listing[folder][i].name] = name /\ Listing[folder][i].kind = kind}

FirstOf(folder, places) == IF places = {} THEN None ELSE Listing[folder][Min(places)].item

Exact(folder, name, kind) == {i \in Children(folder, name, kind) : Listing[folder][i].name = name}

\* Mutant of GetChild: the case matters.
GetChildExact(folder, name, kind) == FirstOf(folder, Exact(folder, name, kind))

\* The exact name goes first; then the first that differs only in case.
GetChild(folder, name, kind) ==
  FirstOf(folder,
    IF Exact(folder, name, kind) # {} THEN Exact(folder, name, kind) ELSE Children(folder, name, kind))

\* The folders that the walk of resolveFile comes through, None from where there is
\* none; an empty segment is skipped.
FoldersOn(root, segments) ==
  LET folder[i \in 0..Len(segments)] ==
        IF i = 0 THEN root
        ELSE IF folder[i - 1] = None \/ segments[i] = Blank THEN folder[i - 1]
        ELSE GetChild(folder[i - 1], segments[i], "directory")
  IN  folder

\* The file at a path of a folder, or null.
FileIn(root, path) ==
  LET segments == NormalizeDataPath(path)
      named == {i \in DOMAIN segments : segments[i] # Blank}
      folder == FoldersOn(root, segments)[Max(named) - 1]
  IN IF named = {} \/ (\E i \in DOMAIN segments : segments[i] \in Outside) \/ folder = None
     THEN None
     ELSE GetChild(folder, segments[Max(named)], "file")

ResolveFile(path) == FileIn(rootHandle, path)

\* The names of the files of the folder itself, in no order.
ListFiles ==
  IF rootHandle = None THEN {}
  ELSE {e.name : e \in {e \in ToSet(Listing[rootHandle]) : e.kind = "file"}}

-----------------------------------------------------------------------------
(* The folder and the open files                                           *)

\* pickDataRoot: a picker that is closed, or that there is none, leaves the folder.
PickDataRoot(root) ==
  /\ root # None => hasPicker
  /\ rootHandle' = IF root = None THEN rootHandle ELSE root
  /\ UNCHANGED <<hasPicker, openFiles, nextFileId>>

\* openFile, of the file that was found.
OpenFile(file) ==
  /\ openFiles' = [i \in DOMAIN openFiles \cup {nextFileId} |-> IF i = nextFileId THEN file ELSE openFiles[i]]
  /\ nextFileId' = nextFileId + 1
  /\ UNCHANGED <<hasPicker, rootHandle>>

\* readFileChunk: an id that was closed throws.
CanReadChunk(id) == id \in DOMAIN openFiles

CloseFile(id) ==
  /\ openFiles' = [i \in DOMAIN openFiles \ {id} |-> openFiles[i]]
  /\ UNCHANGED <<hasPicker, rootHandle, nextFileId>>
=============================================================================
