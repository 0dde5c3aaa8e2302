---------------------------- MODULE ModelViewer -----------------------------
(***************************************************************************)
(* ModelViewer.razor, ModelViewerState and ModelViewLink over the assets   *)
(* of GameDataService: a click on View hands a path to the page, which     *)
(* takes it when it is initialized and searches for it at once, or as soon *)
(* as a folder is picked.  A page can be left while it works; it goes on,  *)
(* and the page that is shown on return is a new one.                      *)
(*                                                                         *)
(* A page calls the service for OnInitializedAsync and, one at a time, for *)
(* what keeps it loading.  Paths are normalized sequences of segments.     *)
(* Rendering and parsing a model belong to an external package: a step     *)
(* that goes well or fails.                                                *)
(***************************************************************************)
EXTENDS AssetSource, Naturals, Sequences, SequencesExt

CONSTANTS
  Pages,        \* bound: the viewer pages of a session, in the order they are shown
  Linked,       \* the paths of MODL fields
  Typed,        \* the paths of the input, and of the list of archived models
  Elsewhere     \* another page is shown

ASSUME ViewerAssumption ==
  /\ Pages \in Seq(ToSet(Pages)) /\ IsInjective(Pages) /\ Elsewhere \notin ToSet(Pages)
  /\ Calls = ToSet(Pages) \X {"init", "work"}
  /\ Linked \cup Typed \subseteq Seq(STRING) \ {<<>>}
  /\ None \notin Roots \cup Linked /\ Failed \notin BOOLEAN

VARIABLES
  shown,        \* the page that is shown
  visited,      \* how many viewer pages were shown
  request,      \* RequestedModelPath
  page,         \* what each page knows and does
  asked,        \* history: page -> the path that View opened it for
  hasty         \* history: a page was left before it was initialized

viewer == <<shown, visited, request, page, asked, hasty>>
vars == <<assets, viewer>>

Nothing == [at |-> "idle"]

\* A page as it is constructed.  Its history: taken, what TakeRequest gave it;
\* tried, whether it searched for it; broken, whether a pick of it threw;
\* surprised, whether another page picked the first folder.
NewPage ==
  [init |-> "none", pending |-> None, taken |-> None, unsupported |-> FALSE, work |-> Nothing,
   tried |-> FALSE, broken |-> FALSE, surprised |-> FALSE]

\* _loading
Loading(p) == page[p].work # Nothing

InitCall(p) == <<p, "init">>
WorkCall(p) == <<p, "work">>

Work(p, work) == page' = [page EXCEPT ![p].work = work]

\* IsSupported is set.
Known == \E p \in ToSet(Pages) : page[p].init = "done"

\* Models are stored relative to the folder of the meshes.
Candidates(path) ==
  IF Head(path) = "meshes" THEN <<path>> ELSE << <<"meshes">> \o path, path >>

\* History: folders, those that were the session's while it searched.
Searching(path) == [at |-> "searching", path |-> path, left |-> Candidates(path), folders |-> {root}]

ViewerInit ==
  /\ AssetInit
  /\ shown = Elsewhere /\ visited = 0
  /\ request = None
  /\ page = [p \in ToSet(Pages) |-> NewPage]
  /\ asked = [p \in ToSet(Pages) |-> None]
  /\ hasty = FALSE

-----------------------------------------------------------------------------
(* Navigation and initialization                                           *)

\* The page is constructed with this request there.  Once IsSupported is set
\* nothing is awaited: the first render finds the path, and searches for it if
\* there is a folder.
Open(p, requested) ==
  /\ shown' = p /\ visited' = visited + 1
  /\ IF Known
     THEN /\ request' = None
          /\ page' = [page EXCEPT ![p] = [NewPage EXCEPT
                        !.init = "done", !.pending = requested, !.taken = requested, !.unsupported = ~ hasPicker,
                        !.work = IF requested # None /\ root # None THEN Searching(requested) ELSE Nothing]]
          /\ UNCHANGED assets
     ELSE /\ request' = requested
          /\ page' = [page EXCEPT ![p].init = "waiting"]
          /\ Ask(InitCall(p), "initialize", None)
  /\ UNCHANGED hasty

\* The link of a MODL field: Request, then the page.
View(path) ==
  /\ shown = Elsewhere /\ visited < Len(Pages)
  /\ LET p == Pages[visited + 1] IN
     /\ Open(p, path)
     /\ asked' = [asked EXCEPT ![p] = path]

\* The page by its link in the menu.
Visit ==
  /\ shown = Elsewhere /\ visited < Len(Pages)
  /\ Open(Pages[visited + 1], request)
  /\ UNCHANGED asked

GoElsewhere ==
  /\ shown # Elsewhere
  /\ shown' = Elsewhere
  /\ hasty' = (hasty \/ page[shown].init = "waiting")
  /\ UNCHANGED <<assets, visited, request, page, asked>>

\* Mutant of Initialize: TakeRequest leaves the request.
InitializeKeepsRequest(p) ==
  /\ call[InitCall(p)].at = "done" /\ Leave(InitCall(p))
  /\ LET result == call[InitCall(p)].result IN
     page' = [page EXCEPT ![p].init = IF result = Failed THEN "failed" ELSE "done",
                          ![p].pending = request, ![p].taken = request]
  /\ UNCHANGED <<request, shown, visited, asked, hasty>>

\* OnInitializedAsync after its await: this is not the first render any more,
\* and nothing is searched for.
Initialize(p) ==
  /\ call[InitCall(p)].at = "done" /\ Leave(InitCall(p))
  /\ LET result == call[InitCall(p)].result IN
     IF result = Failed
     THEN page' = [page EXCEPT ![p].init = "failed"] /\ UNCHANGED request
     ELSE /\ page' = [page EXCEPT ![p].init = "done", ![p].pending = request, ![p].taken = request,
                                  ![p].unsupported = ~ result]
          /\ request' = None
  /\ UNCHANGED <<shown, visited, asked, hasty>>

-----------------------------------------------------------------------------
(* PickDataRootAsync                                                       *)

Pick(p) ==
  /\ shown = p /\ ~ Loading(p) /\ ~ page[p].unsupported
  /\ Ask(WorkCall(p), "pick", None)
  /\ Work(p, [at |-> "picking"])
  /\ UNCHANGED <<shown, visited, request, asked, hasty>>

\* Mutant of PickEnded: a pick that is cancelled leaves the page loading.
PickEndedLoading(p) ==
  /\ page[p].work.at = "picking" /\ call[WorkCall(p)].at = "done"
  /\ Leave(WorkCall(p))
  /\ Work(p, IF call[WorkCall(p)].result = FALSE THEN page[p].work ELSE Nothing)
  /\ UNCHANGED <<shown, visited, request, asked, hasty>>

PickEnded(p) ==
  /\ page[p].work.at = "picking" /\ call[WorkCall(p)].at = "done"
  /\ Leave(WorkCall(p))
  /\ LET result == call[WorkCall(p)].result IN
     page' = [page EXCEPT
       ![p].broken = (@ \/ result = Failed),
       ![p].work = IF result = TRUE /\ page[p].pending # None THEN Searching(page[p].pending) ELSE Nothing]
  /\ UNCHANGED <<shown, visited, request, asked, hasty>>

-----------------------------------------------------------------------------
(* LoadModelAsync and LoadNifFileAsync                                     *)

\* "Load path", or one of the archived models.
LoadPath(p, path) ==
  /\ shown = p /\ ~ Loading(p) /\ root # None
  /\ Work(p, Searching(path))
  /\ UNCHANGED <<assets, shown, visited, request, asked, hasty>>

\* The next candidate is asked for.
Search(p) ==
  /\ page[p].work.at = "searching"
  /\ Ask(WorkCall(p), "resolve", Head(page[p].work.left))
  /\ page' = [page EXCEPT ![p].tried = @ \/ page[p].work.path = page[p].taken]
  /\ UNCHANGED <<shown, visited, request, asked, hasty>>

\* Mutant of Searched: a candidate that fails is passed over.
SearchedFurther(p) ==
  /\ page[p].work.at = "searching" /\ call[WorkCall(p)].at = "done"
  /\ Leave(WorkCall(p))
  /\ LET work == page[p].work
         result == call[WorkCall(p)].result
     IN  page' = [page EXCEPT
           ![p].pending = IF result \in {None, Failed} THEN @ ELSE None,
           ![p].work =
             IF result \in {None, Failed}
             THEN IF Len(work.left) = 1 THEN Nothing ELSE [work EXCEPT !.left = Tail(@)]
             ELSE [at |-> "rendering", path |-> work.path, found |-> Head(work.left), nif |-> result,
                   folders |-> work.folders]]
  /\ UNCHANGED <<shown, visited, request, asked, hasty>>

\* The first candidate that is there is rendered; the path waits no longer.
Searched(p) ==
  /\ page[p].work.at = "searching" /\ call[WorkCall(p)].at = "done"
  /\ Leave(WorkCall(p))
  /\ LET work == page[p].work
         result == call[WorkCall(p)].result
     IN  page' = [page EXCEPT
           ![p].pending = IF result \in {None, Failed} THEN @ ELSE None,
           ![p].work =
             IF result = Failed \/ (result = None /\ Len(work.left) = 1) THEN Nothing
             ELSE IF result = None THEN [work EXCEPT !.left = Tail(@)]
             ELSE [at |-> "rendering", path |-> work.path, found |-> Head(work.left), nif |-> result,
                   folders |-> work.folders]]
  /\ UNCHANGED <<shown, visited, request, asked, hasty>>

\* A file of the user's, which is read and rendered.
OpenNif(p) ==
  /\ shown = p /\ ~ Loading(p)
  /\ Work(p, [at |-> "reading"])
  /\ UNCHANGED <<assets, shown, visited, request, asked, hasty>>

\* CompleteLoadAsync ends, or anything of it fails.
Rendered(p) ==
  /\ page[p].work.at \in {"rendering", "reading"}
  /\ Work(p, Nothing)
  /\ UNCHANGED <<assets, shown, visited, request, asked, hasty>>

-----------------------------------------------------------------------------

\* History: the folder becomes another one for a page, and for the search it is in.
Surprised(p) == [page[p] EXCEPT !.surprised = @ \/ root = None]
Moved(p) ==
  IF page[p].work.at = "searching" THEN [Surprised(p) EXCEPT !.work.folders = @ \cup {root'}] ELSE Surprised(p)

\* The service answers.  The picker, which the user has to close, comes after
\* the answer to isSupported; a folder that is picked is there for every page.
Answered(c) ==
  /\ AnswerCall(c)
  /\ call'[c].at = "picked" => \A p \in ToSet(Pages) : page[p].init # "waiting"
  /\ IF root' = root
     THEN UNCHANGED page
     ELSE page' = [p \in ToSet(Pages) |->
            IF c = WorkCall(p) \/ page[p].init = "none" THEN page[p] ELSE Moved(p)]
  /\ UNCHANGED <<shown, visited, request, asked, hasty>>

ScriptLoaded == (\E ok \in BOOLEAN : Loaded(ok)) /\ UNCHANGED viewer

WorkStep(p) == PickEnded(p) \/ Search(p) \/ Searched(p) \/ Rendered(p)

UserStep ==
  \/ \E path \in Linked : View(path)
  \/ Visit \/ GoElsewhere
  \/ \E p \in ToSet(Pages) : Pick(p) \/ OpenNif(p) \/ \E path \in Typed : LoadPath(p, path)

ViewerNext ==
  \/ UserStep
  \/ \E p \in ToSet(Pages) : Initialize(p) \/ WorkStep(p)
  \/ \E c \in Calls : Answered(c)
  \/ ScriptLoaded

ViewerSpec == ViewerInit /\ [][ViewerNext]_vars

\* The service answers every call (CallsReturn of GameData), also one that finds
\* a folder being indexed again and again: its gate is first come, first served.
\* Rendering ends.
ViewerFairSpec ==
  /\ ViewerSpec
  /\ \A p \in ToSet(Pages) : WF_vars(Initialize(p)) /\ WF_vars(WorkStep(p))
  /\ WF_vars(ScriptLoaded) /\ \A c \in Calls : SF_vars(Answered(c))

-----------------------------------------------------------------------------
(* Properties                                                              *)

\* An initialized page has taken the path that View opened it for, and nothing if
\* the menu did.
RequestTaken ==
  \A p \in ToSet(Pages) : page[p].init = "done" => hasty \/ page[p].taken = asked[p]

\* A page that is shown at rest with a path and a folder has searched for it.
PathSearchedFor ==
  \A p \in ToSet(Pages) :
    shown = p /\ ~ Loading(p) /\ page[p].pending # None /\ root # None =>
      page[p].surprised \/ page[p].broken \/ page[p].tried

\* ModelViewerState.cs:4-5, "Carries a model path from the plugin explorer to the
\* model viewer page, which loads it".  A page can take what was meant for another
\* only after one was left before it was initialized (ModelViewer.razor:134); and
\* a path is not searched for after a pick that threw (it stays until the next,
\* ModelViewer.razor:181), nor when the first folder was picked by another page,
\* which had been left with its picker open.
RequestServed == RequestTaken /\ PathSearchedFor

\* What LoadModelAsync renders is the first of its candidates, though each of them
\* is a call of its own and a folder can be picked between two, by a page that was
\* left with its picker open: it was found in a folder that was the session's while
\* it was searched for, and those before it were missed in such a folder, which is
\* one and the same if none was picked meanwhile.
FirstFound ==
  \A p \in ToSet(Pages) :
    page[p].work.at = "rendering" =>
      LET work == page[p].work
          candidates == Candidates(work.path)
          n == CHOOSE n \in DOMAIN candidates : candidates[n] = work.found
      IN  /\ \E r \in work.folders : work.nif \in Answers(r, work.found)
          /\ \A i \in 1..(n - 1) : \E r \in work.folders : None \in Answers(r, candidates[i])

-----------------------------------------------------------------------------
(* The strengthening that makes these inductive: of one page, and of all   *)

Given == Linked \cup Typed

PageOK(p) ==
  LET work == page[p].work IN
  /\ page[p] \in [init : {"none", "waiting", "done", "failed"},
                  pending : Linked \cup {None}, taken : Linked \cup {None}, unsupported : BOOLEAN,
                  work : {work}, tried : BOOLEAN, broken : BOOLEAN, surprised : BOOLEAN]
  /\ page[p].pending # None => page[p].pending = page[p].taken
  /\ page[p].init = "none" => page[p] = NewPage
  /\ work.at \in {"idle", "picking", "searching", "rendering", "reading"}
  /\ work.at = "idle" => work = Nothing
  /\ work.at = "searching" =>
       /\ work \in [at : {"searching"}, path : Given, left : {Candidates(work.path), Tail(Candidates(work.path))},
                    folders : SUBSET Roots]
       /\ work.left # <<>>

Reply(kind, path, result) == [at |-> "done", kind |-> kind, path |-> path, result |-> result]

\* The calls under way are those that the page waits for.
CallsOK(p) ==
  LET init == call[InitCall(p)]
      work == call[WorkCall(p)]
      sought == Head(page[p].work.left)
  IN  /\ page[p].init # "waiting" => init = NoCall
      /\ page[p].init = "waiting" =>
           \/ init = Asked("initialize", None)
           \/ /\ script # "unknown"
              /\ init = Reply("initialize", None, IF script = "ready" THEN hasPicker ELSE Failed)
      /\ page[p].work.at \notin {"picking", "searching"} => work = NoCall
      /\ page[p].work.at = "picking" =>
           \/ work \in {Asked("pick", None), [Asked("pick", None) EXCEPT !.at = "picked"]}
           \/ work \in {Reply("pick", None, result) : result \in BOOLEAN \cup {Failed}}
      /\ page[p].work.at = "searching" =>
           \/ work \in {NoCall, Asked("resolve", sought)}
           \/ work = Reply("resolve", sought, work.result)

ScriptOK(p) ==
  /\ page[p].init = "done" => script = "ready"
  /\ page[p].init = "failed" => script = "failed"

\* There is no folder before the pages that wait are initialized; a pick that went
\* through and a search have one.
FolderOK(p) ==
  /\ root # None => page[p].init # "waiting"
  /\ call[WorkCall(p)].at = "picked" => root # None
  /\ call[WorkCall(p)] = Reply("pick", None, TRUE) => root # None
  /\ page[p].work.at = "searching" => root # None

\* The request is for the page that is shown and not initialized.
RequestOK(p) ==
  ~ hasty /\ script # "failed" /\ page[p].init = "waiting" => shown = p /\ request = asked[p]

\* A search for the path that was asked for has begun, or is about to.
TriesPath(p) ==
  LET work == page[p].work IN
  work.at = "searching" /\ work.path = page[p].taken =>
    page[p].tried \/ (call[WorkCall(p)] = NoCall /\ work.left = Candidates(work.path))

AboutToSearch(p) ==
  LET work == page[p].work
      pick == call[WorkCall(p)]
  IN  \/ work.at = "searching" /\ work.path = page[p].taken
      \/ work.at = "picking" /\ (pick.at = "picked" \/ (pick.at = "done" /\ pick.result # FALSE))

PathOK(p) ==
  visited > 0 /\ p = Pages[visited] /\ ~ page[p].surprised /\ root # None =>
    page[p].pending = None \/ page[p].broken \/ page[p].tried \/ AboutToSearch(p)

\* A candidate that was passed over was missed in a folder of the search, and one
\* that was found was found in one.
SearchOK(p) ==
  LET work == page[p].work
      found == call[WorkCall(p)]
  IN  work.at = "searching" =>
        /\ root \in work.folders
        /\ work.left # Candidates(work.path) =>
             \E r \in work.folders : None \in Answers(r, Head(Candidates(work.path)))
        /\ found.at = "done" => \E r \in work.folders : found.result \in Answers(r, Head(work.left))

PageInv(p) ==
  /\ PageOK(p) /\ CallsOK(p) /\ ScriptOK(p) /\ FolderOK(p) /\ RequestOK(p)
  /\ TriesPath(p) /\ PathOK(p) /\ SearchOK(p)

SessionOK ==
  /\ hasPicker \in BOOLEAN /\ script \in {"unknown", "ready", "failed"}
  /\ root \in Roots \cup {None} /\ DOMAIN call = Calls
  /\ visited \in 0..Len(Pages) /\ (shown # Elsewhere => visited > 0 /\ shown = Pages[visited])
  /\ request \in Linked \cup {None} /\ asked \in [ToSet(Pages) -> Linked \cup {None}]
  /\ DOMAIN page = ToSet(Pages)
  /\ \A i \in 1..visited : page[Pages[i]].init # "none"
  /\ \A i \in (visited + 1)..Len(Pages) : page[Pages[i]] = NewPage /\ asked[Pages[i]] = None
  /\ hasty \in BOOLEAN
  /\ root # None => Known
  /\ ~ hasty /\ script # "failed" /\ request # None => shown # Elsewhere /\ page[shown].init = "waiting"

ViewerInv ==
  /\ SessionOK
  /\ \A p \in ToSet(Pages) : PageInv(p)
  /\ RequestTaken /\ FirstFound

\* The spinner of a page goes away, whatever fails and wherever the user goes.
LoadingEnds == \A p \in ToSet(Pages) : Loading(p) ~> ~ Loading(p)
=============================================================================
