------------------------------ MODULE GameData ------------------------------
(***************************************************************************)
(* GameDataService over dataRoot.ts: picking the game folder indexes its   *)
(* archives, resolving a path reads a loose file or an archived one.  One  *)
(* gate keeps picks and resolves apart.                                    *)
(*                                                                         *)
(* Opening a file in the browser or reading it may fail.  A stream         *)
(* (SeekablePullFromJSDataStream) is the id of the file it reads.          *)
(***************************************************************************)
EXTENDS AsyncGate, BsaArchive, DataRoot

CONSTANTS
  Calls,        \* the calls that can be under way at once
  RankOf,       \* archive name -> its place in filename order; archives only
  Content,      \* archive file -> what is in it
  Requests,     \* paths as callers spell them
  Failed,       \* the result of a call that throws
  MaxOpens      \* bound: how many files are opened before no call starts any more

ASSUME GameDataAssumption ==
  /\ NoOne \notin Calls
  /\ None \notin Roots \cup Nat
  /\ Failed \notin BOOLEAN
  /\ RankOf \in [DOMAIN RankOf -> Nat]
  /\ \A root \in Roots : \A e \in ToSet(Listing[root]) :
       e.kind = "file" /\ e.name \in DOMAIN RankOf => e.item \in DOMAIN Content
  /\ Requests \subseteq Seq(DOMAIN LowerOf) \ {<<>>}
  /\ MaxOpens \in Nat

VARIABLES
  rootName,     \* RootName
  indexed,      \* the archives that ArchiveCount counts
  errors,       \* the archives of ArchiveErrors
  files,        \* _files: path -> archive and record
  module,       \* _module: "none", "importing", "ready" or "failed"
  supported,    \* IsSupported, once asked
  task          \* what each call is doing

service == <<rootName, indexed, errors, files, module, supported>>
vars == <<gate, service, dataRoot, task>>

Free == [at |-> "free"]

Init ==
  /\ GateInit
  /\ DataRootInit
  /\ rootName = None
  /\ indexed = {} /\ errors = {} /\ files = <<>>
  /\ module = "none" /\ supported = None
  /\ task = [c \in Calls |-> Free]

-----------------------------------------------------------------------------
(* NormalizePath                                                           *)

\* As normalizeDataPath, but an empty segment or one outside is refused.
NormalizePath(path) ==
  LET normal == NormalizeDataPath(path) IN
  IF \E i \in DOMAIN normal : normal[i] \in Outside \cup {Blank} THEN None ELSE normal

-----------------------------------------------------------------------------
(* Calls and the gate                                                      *)

Holds(c, at) == holder = c /\ task[c].at = at

Become(c, t) == task' = [task EXCEPT ![c] = t]
Go(c, at) == Become(c, [task[c] EXCEPT !.at = at])

NewCall(at, kind, path) == [at |-> at, kind |-> kind, path |-> path, left |-> <<>>, stream |-> None]

Result(c, result) == [at |-> "done", kind |-> task[c].kind, path |-> task[c].path, result |-> result]

\* A call of PickAsync, or of ResolveAsync with a path that is not refused.
Call(c, kind, path) ==
  /\ task[c] = Free /\ nextFileId <= MaxOpens
  /\ \/ Take(c) /\ Become(c, NewCall("module", kind, path))
     \/ Join(c) /\ Become(c, NewCall("waiting", kind, path))
  /\ UNCHANGED <<service, dataRoot>>

\* InitializeAsync does not take the gate.
CallInitialize(c) ==
  /\ task[c] = Free
  /\ Become(c, NewCall("module", "initialize", None))
  /\ UNCHANGED <<gate, service, dataRoot>>

Resume(c) == Holds(c, "waiting") /\ Go(c, "module") /\ UNCHANGED <<gate, service, dataRoot>>

\* Mutant of Disposed: the stream stays open.
DisposedNot(c) == UNCHANGED dataRoot

\* The stream that a call has, if any, is disposed as the call leaves its scope.
Disposed(c) ==
  IF task[c].stream = None THEN UNCHANGED dataRoot ELSE CloseFile(task[c].stream)

\* The call ends: the stream is disposed and the finally block passes the gate on.
Return(c, result) ==
  /\ PassOn
  /\ Become(c, Result(c, result))
  /\ Disposed(c)
  /\ UNCHANGED service

\* The caller takes the result.
Leave(c) ==
  /\ task[c].at = "done"
  /\ Become(c, Free)
  /\ UNCHANGED <<gate, service, dataRoot>>

\* GetModuleAsync: the import is started once and its task kept, failed or not.
StartImport(c) ==
  /\ task[c].at = "module" /\ module = "none"
  /\ task[c].kind = "resolve" => rootName # None
  /\ module' = "importing"
  /\ UNCHANGED <<gate, rootName, indexed, errors, files, supported, dataRoot, task>>

Imported(ok) ==
  /\ module = "importing"
  /\ module' = IF ok THEN "ready" ELSE "failed"
  /\ UNCHANGED <<gate, rootName, indexed, errors, files, supported, dataRoot, task>>

\* InitializeAsync asks isSupported once.
Initialized(c) ==
  /\ task[c].at = "module" /\ task[c].kind = "initialize"
  /\ \/ /\ module = "ready"
        /\ supported' = IF supported = None THEN hasPicker ELSE supported
        /\ Become(c, Result(c, supported'))
     \/ /\ module = "failed"
        /\ Become(c, Result(c, Failed))
        /\ UNCHANGED supported
  /\ UNCHANGED <<gate, rootName, indexed, errors, files, module, dataRoot>>

\* With the module: what the call does next.
Proceed(c) ==
  /\ task[c].at = "module" /\ module = "ready"
  /\ \/ task[c].kind = "pick" /\ Go(c, "picking")
     \/ task[c].kind = "resolve" /\ rootName # None /\ Go(c, "loose")
  /\ UNCHANGED <<gate, service, dataRoot>>

\* The import failed, or there is no folder yet.
Hopeless(c) ==
  /\ task[c].at = "module" /\ task[c].kind # "initialize"
  /\ \/ module = "failed" /\ (task[c].kind = "resolve" => rootName # None) /\ Return(c, Failed)
     \/ task[c].kind = "resolve" /\ rootName = None /\ Return(c, None)

-----------------------------------------------------------------------------
(* PickAsync                                                               *)

\* The user picked a folder: pickDataRoot and what follows its await.
Picked(c, root) ==
  /\ Holds(c, "picking")
  /\ PickDataRoot(root)
  /\ rootName' = root
  /\ indexed' = {} /\ errors' = {} /\ files' = <<>>
  /\ Go(c, "listing")
  /\ UNCHANGED <<gate, module, supported>>

NotPicked(c) == Holds(c, "picking") /\ Return(c, FALSE)

\* The archives of the folder.
Archives == ListFiles \cap DOMAIN RankOf

\* The archives in filename order; those whose names differ in case only come in the
\* order they were listed, which may be any.
Ordered(names) ==
  {s \in Bijection(1..Cardinality(names), names) :
     \A i, j \in DOMAIN s : i < j => RankOf[s[i]] <= RankOf[s[j]]}

Listed(c) ==
  /\ Holds(c, "listing")
  /\ \E s \in Ordered(Archives) : Become(c, [task[c] EXCEPT !.at = "indexing", !.left = s])
  /\ UNCHANGED <<gate, service, dataRoot>>

\* Mutant of NotListed: the gate is not passed on.
NotListedKeepsGate(c) ==
  /\ Holds(c, "listing")
  /\ Become(c, Result(c, Failed))
  /\ UNCHANGED <<gate, service, dataRoot>>

NotListed(c) == Holds(c, "listing") /\ Return(c, Failed)

\* SeekablePullFromJSDataStream.OpenAsync, if there is such a file.
Open(c, path, at) ==
  /\ ResolveFile(path) # None
  /\ OpenFile(ResolveFile(path))
  /\ Become(c, [task[c] EXCEPT !.at = at, !.stream = nextFileId])

OpenArchive(c) ==
  /\ Holds(c, "indexing") /\ task[c].left # <<>>
  /\ Open(c, <<Head(task[c].left)>>, "reading")
  /\ UNCHANGED <<gate, service>>

\* The stream is disposed, and the next archive taken.
NextArchive(c) ==
  /\ Become(c, [task[c] EXCEPT !.at = "indexing", !.left = Tail(@), !.stream = None])
  /\ Disposed(c)

\* Mutant of Unusable: an archive that is refused ends the pick.
UnusableEnds(c) == Holds(c, "reading") /\ Return(c, TRUE)

\* An archive that is gone, cannot be opened or read, or is refused, is listed.
Unusable(c) ==
  /\ \/ Holds(c, "indexing") /\ task[c].left # <<>>
     \/ Holds(c, "reading")
  /\ errors' = errors \cup {Head(task[c].left)}
  /\ NextArchive(c)
  /\ UNCHANGED <<gate, rootName, indexed, files, module, supported>>

\* The file a call reads.
FileOf(c) == openFiles[task[c].stream]

\* What ReadBsaArchive makes of each file.
Archived == [file \in DOMAIN Content |-> Read(Content[file])]

\* Of each file, the records of its entries by their paths that are not refused: the
\* last entry of a path counts.
Entries ==
  [file \in DOMAIN Content |->
     LET entries == Archived[file].entries
         PlacesOf(path) == {i \in DOMAIN entries : NormalizePath(entries[i].path) = path}
     IN  [path \in {NormalizePath(e.path) : e \in ToSet(entries)} \ {None} |-> entries[Max(PlacesOf(path))].file]]

\* Mutant of Indexed: the first archive of a path stays.
IndexedFirst(name, file) ==
  [p \in DOMAIN Entries[file] \cup DOMAIN files |->
     IF p \in DOMAIN files THEN files[p] ELSE [archive |-> name, record |-> Entries[file][p]]]

\* _files with the entries of an archive.
Indexed(name, file) ==
  [p \in DOMAIN Entries[file] \cup DOMAIN files |->
     IF p \in DOMAIN Entries[file] THEN [archive |-> name, record |-> Entries[file][p]] ELSE files[p]]

ReadArchive(c) ==
  /\ Holds(c, "reading") /\ CanReadChunk(task[c].stream)
  /\ Archived[FileOf(c)].outcome = "ok"
  /\ files' = Indexed(Head(task[c].left), FileOf(c))
  /\ indexed' = indexed \cup {Head(task[c].left)}
  /\ NextArchive(c)
  /\ UNCHANGED <<gate, rootName, errors, module, supported>>

\* An exception that PickAsync does not catch ends the pick.
IndexingThrows(c) ==
  /\ Holds(c, "reading") /\ CanReadChunk(task[c].stream)
  /\ Archived[FileOf(c)].outcome = "Argument"
  /\ Return(c, Failed)

AllIndexed(c) == Holds(c, "indexing") /\ task[c].left = <<>> /\ Return(c, TRUE)

-----------------------------------------------------------------------------
(* ResolveAsync                                                            *)

\* A path that NormalizePath refuses.
Refuse(c) ==
  /\ task[c] = Free
  /\ Become(c, [at |-> "done", kind |-> "resolve", path |-> None, result |-> None])
  /\ UNCHANGED <<gate, service, dataRoot>>

\* Loose files take precedence.
OpenLoose(c) ==
  /\ Holds(c, "loose")
  /\ \/ Open(c, task[c].path, "readingLoose")
     \/ ResolveFile(task[c].path) = None /\ Go(c, "archived") /\ UNCHANGED dataRoot
  /\ UNCHANGED <<gate, service>>

\* The bytes of a file, named by where they come from.
LooseBytes(file) == [from |-> "loose", file |-> file]
ArchivedBytes(file, record) ==
  [from |-> "archive", file |-> file, record |-> record, payload |-> Payload(Content[file], record)]

ReadLoose(c) ==
  /\ Holds(c, "readingLoose") /\ CanReadChunk(task[c].stream)
  /\ Return(c, LooseBytes(FileOf(c)))

LookUp(c) ==
  /\ Holds(c, "archived") /\ task[c].path \in DOMAIN files
  /\ Open(c, <<files[task[c].path].archive>>, "readingArchive")
  /\ UNCHANGED <<gate, service>>

\* No archive has the path, or it has gone since it was indexed.
NotFound(c) == Holds(c, "archived") /\ Return(c, None)

ReadEntry(c) ==
  /\ Holds(c, "readingArchive") /\ CanReadChunk(task[c].stream)
  /\ LET record == files[task[c].path].record IN
     /\ CanRead(Content[FileOf(c)], record)
     /\ Return(c, ArchivedBytes(FileOf(c), record))

\* A file cannot be opened, is too large, is damaged, or a chunk of it fails.
ResolveThrows(c) ==
  /\ \E at \in {"loose", "readingLoose", "archived", "readingArchive"} : Holds(c, at)
  /\ Return(c, Failed)

-----------------------------------------------------------------------------

\* What a call does once it is past the gate, and InitializeAsync.
Step(c) ==
  \/ Resume(c) \/ StartImport(c) \/ Initialized(c) \/ Proceed(c) \/ Hopeless(c)
  \/ NotListed(c) \/ Listed(c) \/ AllIndexed(c) \/ Unusable(c) \/ IndexingThrows(c)
  \/ OpenArchive(c) \/ ReadArchive(c)
  \/ ResolveThrows(c) \/ NotFound(c) \/ OpenLoose(c) \/ ReadLoose(c) \/ LookUp(c) \/ ReadEntry(c)

\* The user answers the picker.
Answer(c) == (\E root \in Roots : Picked(c, root)) \/ NotPicked(c)

\* The paths that are not refused.
Paths == {NormalizePath(r) : r \in Requests} \ {None}

Start(c) ==
  \/ Call(c, "pick", None)
  \/ \E path \in Paths : Call(c, "resolve", path)
  \/ (\E r \in Requests : NormalizePath(r) = None) /\ Refuse(c)
  \/ CallInitialize(c)

Next ==
  \/ \E c \in Calls : Start(c) \/ Step(c) \/ Answer(c) \/ Leave(c)
  \/ \E ok \in BOOLEAN : Imported(ok)

Spec == Init /\ [][Next]_vars

\* Interop calls complete, with a result or an error, and the picker is closed
\* sooner or later; nobody has to call.
FairSpec ==
  /\ Spec
  /\ WF_vars(\E ok \in BOOLEAN : Imported(ok))
  /\ \A c \in Calls : WF_vars(Step(c)) /\ WF_vars(Answer(c))

-----------------------------------------------------------------------------
(* Reference: what a folder holds, whatever the code looks at              *)

Within(folder, name, kind) ==
  {e.item : e \in {e \in ToSet(Listing[folder]) : LowerOf[e.name] = name /\ e.kind = kind}}

\* The folders n segments down a path, in whatever case.
FoldersAt(root, path, n) ==
  {route[n] : route \in {route \in [0..n -> DOMAIN Listing] :
     route[0] = root /\ \A i \in 1..n : route[i] \in Within(route[i - 1], path[i], "directory")}}

\* The loose files at a path, in whatever case.
FilesAt(root, path) ==
  UNION {Within(folder, Last(path), "file") : folder \in FoldersAt(root, path, Len(path) - 1)}

\* Two folders on the way differ only in case.
Twins(root, path) ==
  \E n \in 0..(Len(path) - 1) : \E f, g \in FoldersAt(root, path, n) : f # g

\* The records in the blocks of an archive.
RecordsOf(a) == UNION {ToSet(block.files) : block \in Range(Content[a].blocks)}

\* What was packed under a path into an archive of the folder: the whole
\* payload of its record and nothing else.
PackedAt(root, path) ==
  LET archives == {e.item : e \in {e \in ToSet(Listing[root]) : e.name \in DOMAIN RankOf}}
      Whole(a, r) == [from |-> "archive", file |-> a, record |-> r,
        payload |-> [from |-> r.at, to |-> r.offset + r.size, expanded |-> Expanded(Content[a], r)]]
  IN  UNION {{Whole(a, r) : r \in {r \in RecordsOf(a) : r.is = path}} : a \in archives}

\* What ReadBsaArchive finds under a path is a record packed as that path, with its
\* payload where the reader looks for it.
ArchivesReadRight ==
  \A file \in DOMAIN Content : \A path \in DOMAIN Entries[file] :
    LET r == Entries[file][path] IN
    /\ r \in RecordsOf(file) /\ r.is = path
    /\ r.at = r.offset + Skipped(Content[file], r)

\* What a resolve may end with: the bytes of the file that was asked for, the
\* loose one if there is one, or a failure.  A file whose folder has a twin may
\* be missed.
AnswersOf(root, path) ==
  LET loose == {LooseBytes(file) : file \in FilesAt(root, path)} IN
  IF root = None THEN {None}
  ELSE IF loose # {} /\ ~ Twins(root, path) THEN loose \cup {Failed}
  ELSE loose \cup PackedAt(root, path) \cup {None, Failed}

\* A call as its caller sees it.
CallOf(c) ==
  IF task[c].at \in {"free", "done"} THEN task[c]
  ELSE [at |-> IF task[c].at \in {"listing", "indexing", "reading"} THEN "picked" ELSE "asked",
        kind |-> task[c].kind, path |-> task[c].path]

Assets == INSTANCE AssetSource WITH
  Answers <- AnswersOf,
  root <- rootName,
  script <- IF module \in {"ready", "failed"} THEN module ELSE "unknown",
  call <- [c \in Calls |-> CallOf(c)]

-----------------------------------------------------------------------------
(* Properties                                                              *)

\* The pages that share the service may think of it as AssetSource: a pick takes
\* effect at one moment, and a resolve ends with bytes of the file asked for in
\* the folder of that moment, loose before archived (README.md:255), and never
\* with those of another file, folder or case.
ImplementsAssets == Assets!AssetSpec

\* The file of that name in the folder, and the paths it packs.
FileNamed(n) == (CHOOSE e \in ToSet(Listing[rootHandle]) : e.name = n).item
PathsOf(n) == DOMAIN Entries[FileNamed(n)]

\* README.md:255, "duplicate archived paths use the last archive in
\* case-insensitive filename order" of the folder that is picked now: _files
\* holds every path of the indexed archives, and only those.
IndexIsOfRoot ==
  /\ rootName = rootHandle
  /\ DOMAIN files = UNION {PathsOf(n) : n \in indexed}
  /\ \A p \in DOMAIN files :
       \A n \in indexed : p \in PathsOf(n) => RankOf[n] <= RankOf[files[p].archive]

\* dataRoot.ts keeps a file open only while the stream of a call reads it, and
\* no stream reads a file that was closed.
OpenWhileRead ==
  DOMAIN openFiles =
    {task[c].stream : c \in {c \in Calls : task[c].at \in {"reading", "readingLoose", "readingArchive"}}}

\* README.md:258, "Unusable archives are listed in the UI while other archives
\* remain available": a pick that goes through has indexed or listed every
\* archive of the folder, and only two equal name hashes end one that does not.
OthersRemain ==
  [][\A c \in Calls :
       task[c].at \in {"indexing", "reading"} /\ task'[c].at = "done" =>
         IF task'[c].result = TRUE
         THEN Archives = indexed \cup errors /\ indexed \cap errors = {}
         ELSE Archived[FileOf(c)].outcome = "Argument"]_vars

\* The strengthening that makes these inductive.  What a call keeps while it is
\* under way: a stream exactly while it reads.
PickStates == {"picking", "listing", "indexing", "reading"}
ResolveStates == {"loose", "readingLoose", "archived", "readingArchive"}
ReadStates == {"reading", "readingLoose", "readingArchive"}

Job ==
  [at : {"waiting", "module"} \cup PickStates \cup ResolveStates,
   kind : {"initialize", "pick", "resolve"}, path : Paths \cup {None},
   left : Seq(DOMAIN RankOf), stream : Nat \cup {None}]

JobOK(t) ==
  /\ t \in Job
  /\ t.kind = "initialize" => t.at = "module"
  /\ t.kind = "resolve" => t.path \in Paths
  /\ t.at \in PickStates => t.kind = "pick"
  /\ t.at \in ResolveStates => t.kind = "resolve"
  /\ t.stream # None <=> t.at \in ReadStates

TasksOK ==
  /\ task = [c \in Calls |-> task[c]]
  /\ \A c \in Calls : task[c] = Free \/ task[c].at = "done" \/ JobOK(task[c])

\* One call at a time is past the gate, and it has the module once it left "module".
Inside(c) == task[c].at \notin {"free", "done", "waiting"} /\ task[c].kind # "initialize"

GateOK ==
  \A c \in Calls : Inside(c) =>
    /\ holder = c
    /\ task[c].at # "module" => module = "ready"
    /\ task[c].at \notin {"module", "picking"} => rootName # None

StateOK ==
  /\ rootName = rootHandle /\ rootName \in Roots \cup {None}
  /\ nextFileId \in Nat
  /\ supported \in {None, hasPicker}
  /\ indexed \subseteq Archives

\* Each path is in _files with its record in the archive that counts.
RecordsKept ==
  \A p \in DOMAIN files :
    LET n == files[p].archive
    IN  n \in indexed /\ p \in PathsOf(n) /\ files[p].record = Entries[FileNamed(n)][p]

\* getChildHandle finds an archive again by its name: no other file of the folder has
\* it in another case.
ArchivesDiffer ==
  \A root \in Roots : \A i, j \in DOMAIN Listing[root] :
    LET a == Listing[root][i]
        b == Listing[root][j]
    IN  a.kind = "file" /\ b.kind = "file" /\ a.name \in DOMAIN RankOf /\ LowerOf[a.name] = LowerOf[b.name]
          => i = j

IndexOK == ArchivesDiffer => IndexIsOfRoot /\ RecordsKept

\* The archives of the folder are indexed, refused or left, in filename order.
PlanOK(left) ==
  /\ indexed \cup errors \cup Range(left) = Archives
  /\ indexed \cap errors = {} /\ (indexed \cup errors) \cap Range(left) = {}
  /\ IsInjective(left)
  /\ \A i, j \in DOMAIN left : i < j => RankOf[left[i]] <= RankOf[left[j]]
  /\ \A n \in indexed, m \in Range(left) : RankOf[n] <= RankOf[m]

PicksOK ==
  \A c \in Calls :
    /\ task[c].at = "listing" => indexed = {} /\ errors = {}
    /\ task[c].at \in {"indexing", "reading"} => PlanOK(task[c].left)
    /\ task[c].at = "reading" =>
         task[c].left # <<>> /\ FileOf(c) = ResolveFile(<<Head(task[c].left)>>) /\ FileOf(c) # None

\* What a resolve reads is the file it looked for.
ResolvesOK ==
  \A c \in Calls :
    /\ task[c].at = "readingLoose" => FileOf(c) = ResolveFile(task[c].path) /\ FileOf(c) # None
    /\ task[c].at \in {"archived", "readingArchive"} => ResolveFile(task[c].path) = None
    /\ task[c].at = "readingArchive" =>
         /\ task[c].path \in DOMAIN files
         /\ FileOf(c) = ResolveFile(<<files[task[c].path].archive>>) /\ FileOf(c) # None

ServiceInv ==
  /\ TasksOK
  /\ GateOK
  /\ StateOK
  /\ OpenWhileRead
  /\ IndexOK
  /\ PicksOK
  /\ ResolvesOK

\* Every call ends, if the picker is closed.
CallsReturn ==
  \A c \in Calls : task[c].at \notin {"free", "done"} ~> task[c].at = "done"
=============================================================================
