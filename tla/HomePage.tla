------------------------------ MODULE HomePage ------------------------------
(***************************************************************************)
(* Home.razor, BlobDataSource and AddSourcesAsync on top of the workspace  *)
(* and the registered files: the user selects files, each is registered in *)
(* the browser, wrapped as a source, and added to the workspace, one after *)
(* the other.  The page can be left meanwhile; the handler goes on, and    *)
(* the page that is shown on return is a new one.                          *)
(*                                                                         *)
(* The sources of the workspace are the registered files.  A page is also  *)
(* the task of the workspace that its handler's calls of AddAsync are.     *)
(***************************************************************************)
EXTENDS PluginWorkspace, FileAccess

CONSTANTS
  Pages,        \* bound: the Home pages of a session, in the order they are shown
  Selections,   \* what the user may select: sequences of files
  MaxFiles,     \* bound: how many files are registered
  Elsewhere     \* another page is shown

Selectable == UNION {ToSet(selection) : selection \in Selections}

\* A source is a file under the number it was registered with.
ASSUME HomeAssumption ==
  /\ Pages \in Seq(Tasks) /\ Pages # <<>>
  /\ Elsewhere \notin Tasks
  /\ MaxFiles \in Nat
  /\ Selections \subseteq Seq(Selectable)
  /\ Sources = [id : 1..MaxFiles, file : Selectable]

VARIABLES
  shown,        \* the page that is shown
  visited,      \* how many Home pages were shown
  handler,      \* page -> OnFilesSelectedAsync: where it is, and its files
  overlapped    \* history: a page added files while an earlier one still did

pageVars == <<shown, visited, handler, overlapped>>
homeVars == <<vars, fileAccess, pageVars>>

Callers == Tasks \ ToSet(Pages)

Idle == [at |-> "idle", list |-> <<>>]

\* _loading
Loading(p) == handler[p].at # "idle"

Proceed(p, at, list) == handler' = [handler EXCEPT ![p] = [at |-> at, list |-> list]]

-----------------------------------------------------------------------------
(* The browser's side of a step of the workspace                           *)

\* BlobDataSource.DisposeAsync: disposing a source releases its file.
Released ==
  /\ ReleaseFiles({s.id : s \in {s \in Sources : closes'[s] # closes[s]}})
  /\ UNCHANGED nextId

-----------------------------------------------------------------------------
(* OnFilesSelectedAsync                                                    *)

\* Mutant of Select: the input is not disabled while the page is loading.
SelectAnyway(p, selection) ==
  /\ shown = p
  /\ nextId + Len(selection) <= MaxFiles
  /\ Proceed(p, "importing", selection)
  /\ UNCHANGED <<vars, fileAccess, shown, visited, overlapped>>

\* The input of the page is disabled while it is loading.
Select(p, selection) ==
  /\ shown = p /\ ~ Loading(p)
  /\ nextId + Len(selection) <= MaxFiles
  /\ Proceed(p, "importing", selection)
  /\ UNCHANGED <<vars, fileAccess, shown, visited, overlapped>>

\* registerAll, once the script is imported; the input element goes with the page.
Registered(p) ==
  /\ handler[p].at = "importing"
  /\ LET selected == IF shown = p THEN handler[p].list ELSE <<>> IN
     /\ nextId + Len(selected) <= MaxFiles
     /\ RegisterAll(selected)
     /\ Proceed(p, "wrapping", [i \in DOMAIN selected |-> [id |-> nextId + i, file |-> selected[i]]])
  /\ UNCHANGED <<vars, shown, visited, overlapped>>

\* The sources are made, each with a reference to the script of its own:
\* AddSourcesAsync starts.
Wrapped(p) ==
  /\ handler[p].at = "wrapping"
  /\ Proceed(p, "adding", handler[p].list)
  /\ overlapped' = (overlapped \/ \E q \in ToSet(Pages) \ {p} : handler[q].at = "adding")
  /\ UNCHANGED <<vars, fileAccess, shown, visited>>

\* An import fails: the error is shown, and nothing is done about the files
\* that were registered.
ImportFailed(p) ==
  /\ handler[p].at \in {"importing", "wrapping"}
  /\ Proceed(p, "idle", <<>>)
  /\ UNCHANGED <<vars, fileAccess, shown, visited, overlapped>>

\* AddSourcesAsync goes on as soon as AddAsync has ended: nothing happens
\* between two sources.
MustContinue(p) == handler[p].at = "adding" /\ Over(p)

\* The next source.
AddNext(p) ==
  /\ MustContinue(p) /\ handler[p].list # <<>>
  /\ Add(p, Head(handler[p].list))
  /\ Released
  /\ Proceed(p, "adding", Tail(handler[p].list))
  /\ UNCHANGED <<shown, visited, overlapped>>

AllAdded(p) ==
  /\ MustContinue(p) /\ handler[p].list = <<>>
  /\ Proceed(p, "idle", <<>>)
  /\ UNCHANGED <<vars, fileAccess, shown, visited, overlapped>>

-----------------------------------------------------------------------------
(* Navigation, and the calls of the workspace                              *)

\* To the explorer.
Leave ==
  /\ shown # Elsewhere
  /\ shown' = Elsewhere
  /\ UNCHANGED <<vars, fileAccess, visited, handler, overlapped>>

\* To a Home page, which starts with nothing in progress.
Return ==
  /\ shown = Elsewhere /\ visited < Len(Pages)
  /\ shown' = Pages[visited + 1]
  /\ visited' = visited + 1
  /\ UNCHANGED <<vars, fileAccess, handler, overlapped>>

\* A plugin is removed on a Home page; references are followed elsewhere.
Request(t) ==
  /\ t \in Callers
  /\ life \in {"open", "disposing"}
  /\ \/ shown # Elsewhere /\ \E s \in Sources : RemovePlugin(t, s)
     \/ shown = Elsewhere /\ \E ref \in References : Resolve(t, ref)

\* A plugin is opened, and its index built, from a file that is registered.
Progresses(t) ==
  IF task[t].at \in {"opening", "building"} /\ ~ CanRead(task[t].plugin.id)
  THEN OpenFailed(t) \/ BuildFailed(t)
  ELSE Progress(t)

\* No handler has to go on first.
Free == \A p \in ToSet(Pages) : ~ MustContinue(p)

CallStep(t) ==
  /\ Free
  /\ Progresses(t)
  /\ Released
  /\ UNCHANGED pageVars

WorkspaceStep ==
  /\ Free
  /\ (\E t \in Tasks : Request(t) \/ CancelWait(t)) \/ DisposeStart \/ DisposeNext
  /\ Released
  /\ UNCHANGED pageVars

-----------------------------------------------------------------------------
HomeInit ==
  /\ Init
  /\ FileAccessInit
  /\ shown = Pages[1] /\ visited = 1
  /\ handler = [p \in ToSet(Pages) |-> Idle]
  /\ overlapped = FALSE

HandlerStep(p) ==
  \/ AddNext(p) \/ AllAdded(p)
  \/ Free /\ (Registered(p) \/ Wrapped(p) \/ ImportFailed(p))

UserStep ==
  /\ Free
  /\ (\E p \in ToSet(Pages), selection \in Selections : Select(p, selection)) \/ Leave \/ Return

HomeNext ==
  \/ \E p \in ToSet(Pages) : HandlerStep(p)
  \/ \E t \in Tasks : CallStep(t)
  \/ UserStep
  \/ WorkspaceStep

HomeSpec == HomeInit /\ [][HomeNext]_homeVars

-----------------------------------------------------------------------------
(* Properties                                                              *)

\* The sources that a page has still to add.
Waiting(p) == IF handler[p].at \in {"wrapping", "adding"} THEN handler[p].list ELSE <<>>

WaitingIds == UNION {{s.id : s \in ToSet(Waiting(p))} : p \in ToSet(Pages)}

Handlers ==
  [at : {"idle", "importing"}, list : Seq(Selectable)] \cup [at : {"wrapping", "adding"}, list : Seq(Sources)]

HomeTypeOK ==
  /\ shown \in ToSet(Pages) \cup {Elsewhere}
  /\ visited \in 1..Len(Pages)
  /\ handler \in [ToSet(Pages) -> Handlers]
  /\ overlapped \in BOOLEAN
  /\ nextId \in 0..MaxFiles
  /\ DOMAIN files \subseteq 1..nextId /\ files \in [DOMAIN files -> Selectable]

\* Home.razor:21, the disabled input, is what makes AddAsync return the existing
\* instance for a file name that is loaded already (PluginWorkspace.cs:37): two
\* loaded plugins have one name only after two pages were adding at once.
NamesUniqueOnOnePage == overlapped \/ NamesUnique

\* fileAccess.ts and the workspace agree on what is in use: until the workspace
\* is disposed, the file of every plugin that is loaded or being opened is
\* registered, and a registered file is that of such a plugin, waits to be
\* added, or was given up by an error.
FilesInUse ==
  LET Used(s) == source[s] = "opening" \/ IsLoaded(s)
      GivenUp(id) == \A s \in Sources : s.id = id => source[s] \in {"unused", "rejected"}
  IN  life = "open" =>
        /\ \A s \in Sources : Used(s) => s.id \in DOMAIN files /\ files[s.id] = s.file
        /\ WaitingIds \subseteq DOMAIN files
        /\ \A id \in DOMAIN files \ WaitingIds : GivenUp(id) \/ \E s \in Sources : s.id = id /\ Used(s)

\* The strengthening that makes these inductive.  Only a page that adds opens
\* plugins, and what one page opens has the name of none that is loaded.
OneByOne ==
  /\ \A t \in Tasks : task[t].at = "opening" => t \in ToSet(Pages) /\ handler[t].at = "adding"
  /\ ~ overlapped =>
       /\ \A p, q \in ToSet(Pages) : handler[p].at = "adding" /\ handler[q].at = "adding" => p = q
       /\ NamesUnique
       /\ \A t \in Tasks : task[t].at = "opening" =>
            \A i \in 1..Len(loaded) : NameOf[loaded[i]] # NameOf[task[t].plugin]

\* A number is given once: to one place in one page's list, then to one source.
NumbersGivenOnce ==
  /\ \A p \in ToSet(Pages) : \A i \in 1..Len(Waiting(p)) :
       /\ Waiting(p)[i].id \in DOMAIN files
       /\ files[Waiting(p)[i].id] = Waiting(p)[i].file
       /\ \A s \in Sources : s.id = Waiting(p)[i].id => source[s] = "unused"
  /\ \A p, q \in ToSet(Pages) : \A i \in 1..Len(Waiting(p)), j \in 1..Len(Waiting(q)) :
       Waiting(p)[i].id = Waiting(q)[j].id => p = q /\ i = j
  /\ \A s \in Sources : source[s] # "unused" => s.id <= nextId
  /\ \A s, u \in Sources : s.id = u.id /\ source[s] # "unused" /\ source[u] # "unused" => s = u

HomeInv ==
  /\ IInv
  /\ HomeTypeOK
  /\ OneByOne
  /\ NumbersGivenOnce
  /\ FilesInUse
=============================================================================
