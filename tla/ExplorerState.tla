---------------------------- MODULE ExplorerState ----------------------------
(***************************************************************************)
(* Services/PluginExplorerState.cs: the active plugin, the selected node,  *)
(* the expanded groups and their loaded children, and going to a           *)
(* reference.  A call is a task, split at its awaits; the user may start   *)
(* another call, or click on what is still on the screen, between two of   *)
(* them.                                                                   *)
(*                                                                         *)
(* The workspace below it is reduced to its list of plugins; its           *)
(* ResolveAsync may find a record of any plugin that was loaded when it    *)
(* was called.  A read of a plugin that was removed meanwhile may end,     *)
(* throw or hang.  Groups are named by their offsets, which two plugins    *)
(* may share.                                                              *)
(***************************************************************************)
EXTENDS Integers, Sequences, SequencesExt

CONSTANTS
  Tasks,        \* the calls that may be in progress at once
  Plugins,      \* the plugin instances that are opened, each once
  NoPlugin,     \* null
  Groups,       \* the offsets of groups
  TopLevel,     \* TopLevelKey
  Path,         \* the groups above the records that references lead to
  MayFail       \* the groups whose children may fail to be read: all, or fewer as a bound

Keys == Groups \cup {TopLevel}

ASSUME ExplorerAssumption ==
  /\ NoPlugin \notin Plugins
  /\ TopLevel \notin Groups
  /\ Path \in Seq(Groups) /\ IsInjective(Path)     \* each inside the one before
  /\ MayFail \subseteq Plugins \X Keys

VARIABLES
  loaded,       \* Workspace.Plugins
  added,        \* the plugin instances that exist or are being opened
  active,       \* ActivePlugin
  selected,     \* SelectedNode: the plugin it is of
  shown,        \* the plugin whose tree is on the screen
  expanded,     \* TreeState.Expanded of each plugin
  children,     \* TreeState.Children: the plugin the group they are under is of
  errors,       \* the keys of TreeState.Errors
  busy,         \* BusyMessage is not null
  scroll,       \* PendingScrollOffset is not null
  task,         \* where each call is
  crossed       \* history: the go-tos whose plugin or path another call took away

trees == <<expanded, children, errors>>
vars == <<loaded, added, active, selected, shown, trees, busy, scroll, task, crossed>>

Idle ==
  [at |-> "idle", plugin |-> NoPlugin, key |-> TopLevel, owner |-> NoPlugin,
   orphan |-> FALSE, lost |-> FALSE]

\* An EnsureChildrenAsync in progress: it reads from `plugin` what is under key, a group
\* of `owner`, into the tree it found.  A removal makes that tree an orphan; the one
\* that RevealAsync opens groups in is then lost, too.
Reading(at, p, key, owner) ==
  [Idle EXCEPT !.at = at, !.plugin = p, !.key = key, !.owner = owner]

Waiting(at, p) == [Idle EXCEPT !.at = at, !.plugin = p]

Become(t, state) == task' = [task EXCEPT ![t] = state]

Free(t) == task[t].at = "idle"

GoingTo(t) == task[t].at \in {"resolving", "revealing"}

RevealingInto(p) == {u \in Tasks : task[u].at = "revealing" /\ task[u].plugin = p}

RevealingElsewhere(p) == {u \in Tasks : task[u].at = "revealing" /\ task[u].plugin # p}

Cached(p, key) == children[p][key] # NoPlugin \/ key \in errors[p]

\* Mutant of Notify: nothing is rendered.
NotifyNot == UNCHANGED shown

\* NotifyChanged: the page renders the active plugin.
Notify == shown' = active'

-----------------------------------------------------------------------------
(* AddSourcesAsync and RemoveAsync                                         *)

\* AddAsync of one more source up to its await: it is opened as a new instance, or its
\* name is loaded already and the new source is disposed.
NextSource(t, plugins, instances) ==
  \E p \in Plugins :
    \/ p \notin instances /\ added' = instances \cup {p} /\ Become(t, Waiting("adding", p))
    \/ Contains(plugins, p) /\ added' = instances /\ Become(t, Waiting("found", p))

Add(t) ==
  /\ Free(t)
  /\ NextSource(t, loaded, added)
  /\ UNCHANGED <<loaded, active, selected, shown, trees, busy, scroll, crossed>>

\* The `foreach` goes on, or ends and the page is rendered.
MoreSources(t, plugins, instances) ==
  \/ NextSource(t, plugins, instances) /\ UNCHANGED shown
  \/ Notify /\ Become(t, Idle) /\ added' = instances

\* ActivePlugin ??= plugin.
ActivateIfNone(p) == active' = IF active = NoPlugin THEN p ELSE active

\* The source was opened, or not.
AddEnds(t) ==
  LET p == task[t].plugin IN
  /\ task[t].at = "adding"
  /\ \/ /\ loaded' = Append(loaded, p)
        /\ ActivateIfNone(p)
        /\ MoreSources(t, Append(loaded, p), added)
     \/ /\ UNCHANGED <<loaded, active>>
        /\ MoreSources(t, loaded, added \ {p})
  /\ UNCHANGED <<selected, trees, busy, scroll, crossed>>

\* The source whose name was loaded is disposed; the plugin found then is returned,
\* whether or not it is loaded still.
FoundEnds(t) ==
  /\ task[t].at = "found"
  /\ ActivateIfNone(task[t].plugin)
  /\ MoreSources(t, loaded, added)
  /\ UNCHANGED <<loaded, selected, trees, busy, scroll, crossed>>

\* The plugin's tree is dropped; what is still read into it is lost with it.
RemovePlugin(t, p) ==
  /\ Free(t)
  /\ Contains(loaded, p)
  /\ expanded' = [expanded EXCEPT ![p] = {}]
  /\ children' = [children EXCEPT ![p] = [k \in Keys |-> NoPlugin]]
  /\ errors' = [errors EXCEPT ![p] = {}]
  /\ active' = IF active = p THEN NoPlugin ELSE active
  /\ selected' = IF active = p THEN NoPlugin ELSE selected
  /\ Notify
  /\ loaded' = RemoveFirst(loaded, p)
  /\ task' = [u \in Tasks |->
                IF u = t THEN Waiting("removing", p)
                ELSE IF task[u].plugin = p /\ task[u].at \in {"reading", "revealing"}
                     THEN [task[u] EXCEPT !.orphan = TRUE, !.lost = TRUE]
                ELSE task[u]]
  /\ crossed' = crossed \cup RevealingInto(p)
  /\ UNCHANGED <<added, busy, scroll>>

RemoveEnds(t) ==
  /\ task[t].at = "removing"
  /\ active' = IF active = NoPlugin /\ loaded # <<>> THEN Head(loaded) ELSE active
  /\ Notify
  /\ Become(t, Idle)
  /\ UNCHANGED <<loaded, added, selected, trees, busy, scroll, crossed>>

-----------------------------------------------------------------------------
(* The tree                                                                *)

\* EnsureChildrenAsync up to its await, as the last thing a call does.
EnsureChildren(t, p, key, owner) ==
  \/ Cached(p, key) /\ UNCHANGED task
  \/ ~ Cached(p, key) /\ Become(t, Reading("reading", p, key, owner))

\* The rest of EnsureChildrenAsync: the children or the error are stored.
Store(t, ok) ==
  LET p == task[t].plugin
      key == task[t].key
  IN
  /\ ok \/ <<p, key>> \in MayFail
  /\ IF task[t].orphan THEN UNCHANGED <<children, errors>>
     ELSE /\ children' = IF ok THEN [children EXCEPT ![p][key] = task[t].owner] ELSE children
          /\ errors' = IF ok THEN errors ELSE [errors EXCEPT ![p] = @ \cup {key}]

\* Mutant of PickPlugin: the selection is kept.
PickKeepsSelected(t, p) ==
  /\ Free(t)
  /\ Contains(loaded, p)
  /\ active' = p
  /\ Notify
  /\ EnsureChildren(t, p, TopLevel, p)
  /\ crossed' = crossed \cup RevealingElsewhere(p)
  /\ UNCHANGED <<loaded, added, selected, trees, busy, scroll>>

\* OnPluginSelected: SetActive, then EnsureTopLevelAsync.
PickPlugin(t, p) ==
  /\ Free(t)
  /\ Contains(loaded, p)
  /\ active' = p
  /\ selected' = IF active = p THEN selected ELSE NoPlugin
  /\ Notify
  /\ EnsureChildren(t, p, TopLevel, p)
  /\ crossed' = crossed \cup RevealingElsewhere(p)
  /\ UNCHANGED <<loaded, added, trees, busy, scroll>>

\* The page is opened: EnsureTopLevelAsync of the active plugin.
OpenPage(t) ==
  /\ Free(t)
  /\ active # NoPlugin
  /\ EnsureChildren(t, active, TopLevel, active)
  /\ shown' = active
  /\ UNCHANGED <<loaded, added, active, selected, trees, busy, scroll, crossed>>

\* Mutant of Steps: the groups on the path are left closed.
StepsTopOnly == <<TopLevel>>

\* What RevealAsync loads, in order.
Steps == <<TopLevel>> \o Path

Position(key) == CHOOSE j \in 1..Len(Steps) : Steps[j] = key

\* The groups a RevealAsync has opened.
Opened(u) == {Steps[j] : j \in 2..Position(task[u].key)}

\* Opens or closes a group on the screen, in the tree of the active plugin: ToggleAsync.
Flip(t, g) ==
  \/ /\ g \in expanded[active]
     /\ expanded' = [expanded EXCEPT ![active] = @ \ {g}]
     /\ crossed' = crossed \cup {u \in RevealingInto(active) : g \in Opened(u)}
     /\ UNCHANGED task
  \/ /\ g \notin expanded[active]
     /\ expanded' = [expanded EXCEPT ![active] = @ \cup {g}]
     /\ EnsureChildren(t, active, g, shown)
     /\ UNCHANGED crossed

\* A click on a group's chevron.
Toggle(t, g) ==
  /\ Free(t)
  /\ shown # NoPlugin /\ active # NoPlugin
  /\ Flip(t, g)
  /\ shown' = active
  /\ UNCHANGED <<loaded, added, active, selected, children, errors, busy, scroll>>

\* A click on a record (or the header), and on a group: PluginTreeNode.SelectAsync
\* selects it and opens the group if it is closed.
SelectRecord ==
  /\ shown # NoPlugin
  /\ selected' = shown
  /\ shown' = active
  /\ UNCHANGED <<loaded, added, active, trees, busy, scroll, task, crossed>>

SelectGroup(t, g) ==
  /\ Free(t)
  /\ shown # NoPlugin /\ active # NoPlugin
  /\ selected' = shown
  /\ IF g \in expanded[active] THEN UNCHANGED <<expanded, task, crossed>> ELSE Flip(t, g)
  /\ shown' = active
  /\ UNCHANGED <<loaded, added, active, children, errors, busy, scroll>>

ReadEnds(t, ok) ==
  /\ task[t].at = "reading"
  /\ Store(t, ok)
  /\ shown' = active
  /\ Become(t, Idle)
  /\ UNCHANGED <<loaded, added, active, selected, expanded, busy, scroll, crossed>>

\* The plugin is closed: the read throws, and nothing is stored or rendered.
ReadThrows(t) ==
  /\ task[t].at = "reading"
  /\ ~ Contains(loaded, task[t].plugin)
  /\ Become(t, Idle)
  /\ UNCHANGED <<loaded, added, active, selected, shown, trees, busy, scroll, crossed>>

-----------------------------------------------------------------------------
(* GoToAsync                                                               *)

GoTo(t, target) ==
  /\ Free(t)
  /\ active # NoPlugin
  /\ Contains(loaded, target)
  /\ busy' = TRUE
  /\ Become(t, Waiting("resolving", target))
  /\ shown' = active
  /\ UNCHANGED <<loaded, added, active, selected, trees, scroll, crossed>>

\* The progress of the index build.
Progress(t) ==
  /\ task[t].at = "resolving"
  /\ busy' = TRUE
  /\ shown' = active
  /\ UNCHANGED <<loaded, added, active, selected, trees, scroll, task, crossed>>

\* Mutant of NotResolved: no finally block.
NotResolvedStaysBusy(t) ==
  /\ task[t].at = "resolving"
  /\ Become(t, Idle)
  /\ UNCHANGED <<loaded, added, active, selected, shown, trees, busy, scroll, crossed>>

\* Not resolved: a notice or an exception, and the finally block.
NotResolved(t) ==
  /\ task[t].at = "resolving"
  /\ busy' = FALSE
  /\ Become(t, Idle)
  /\ shown' = active
  /\ UNCHANGED <<loaded, added, active, selected, trees, scroll, crossed>>

\* RevealAsync runs to its first read, from step i on, and to its end and the
\* finally block if everything is loaded.
RevealFrom(t, q, i, lost) ==
  LET missing == {j \in i..Len(Steps) : ~ Cached(q, Steps[j])}
      stop == IF missing = {} THEN Len(Steps) ELSE Min(missing)
      opened == {Steps[j] : j \in (i..stop) \ {1}}
  IN
  /\ expanded' = IF lost THEN expanded ELSE [expanded EXCEPT ![q] = @ \cup opened]
  /\ \/ /\ missing # {}
        /\ Become(t, [Reading("revealing", q, Steps[stop], q) EXCEPT !.lost = lost])
        /\ UNCHANGED <<selected, shown, busy, scroll>>
     \/ /\ missing = {}
        /\ selected' = q
        /\ scroll' = TRUE
        /\ busy' = FALSE
        /\ Notify
        /\ Become(t, Idle)

\* Resolved: the target becomes active at once, which nothing renders yet.
Resolved(t) ==
  LET q == task[t].plugin IN
  /\ task[t].at = "resolving"
  /\ active' = q
  /\ RevealFrom(t, q, 1, FALSE)
  /\ crossed' = crossed \cup RevealingElsewhere(q)
  /\ UNCHANGED <<loaded, added, children, errors>>

\* A go-to that ends is forgotten.
Forget(t) == crossed' = IF task'[t].at = "idle" THEN crossed \ {t} ELSE crossed

\* A read of RevealAsync ends; the next step follows.
RevealRead(t, ok) ==
  /\ task[t].at = "revealing"
  /\ UNCHANGED <<loaded, added, active>>
  /\ Store(t, ok)
  /\ RevealFrom(t, task[t].plugin, Position(task[t].key) + 1, task[t].lost)
  /\ Forget(t)

\* The plugin is closed: the read throws, and the finally block follows.
RevealThrows(t) ==
  /\ task[t].at = "revealing"
  /\ ~ Contains(loaded, task[t].plugin)
  /\ busy' = FALSE
  /\ shown' = active
  /\ Become(t, Idle)
  /\ Forget(t)
  /\ UNCHANGED <<loaded, added, active, selected, trees, scroll>>

\* TakePendingScroll, after a render.
TakeScroll ==
  /\ scroll
  /\ scroll' = FALSE
  /\ UNCHANGED <<loaded, added, active, selected, shown, trees, busy, task, crossed>>

\* A render for any other reason.
Render ==
  /\ shown # active
  /\ shown' = active
  /\ UNCHANGED <<loaded, added, active, selected, trees, busy, scroll, task, crossed>>

-----------------------------------------------------------------------------
Init ==
  /\ loaded = <<>>
  /\ added = {}
  /\ active = NoPlugin
  /\ selected = NoPlugin
  /\ shown = NoPlugin
  /\ expanded = [p \in Plugins |-> {}]
  /\ children = [p \in Plugins |-> [k \in Keys |-> NoPlugin]]
  /\ errors = [p \in Plugins |-> {}]
  /\ busy = FALSE
  /\ scroll = FALSE
  /\ task = [t \in Tasks |-> Idle]
  /\ crossed = {}

\* What a call in progress does next.
Continues(t) ==
  \/ AddEnds(t) \/ FoundEnds(t) \/ RemoveEnds(t)
  \/ \E ok \in BOOLEAN : ReadEnds(t, ok) \/ RevealRead(t, ok)
  \/ ReadThrows(t) \/ RevealThrows(t)
  \/ NotResolved(t) \/ Resolved(t)

Starts(t) ==
  \/ Add(t) \/ OpenPage(t)
  \/ \E p \in Plugins : RemovePlugin(t, p) \/ PickPlugin(t, p) \/ GoTo(t, p)
  \/ \E g \in Groups : Toggle(t, g) \/ SelectGroup(t, g)

Next ==
  \/ \E t \in Tasks : Starts(t) \/ Continues(t) \/ Progress(t)
  \/ SelectRecord
  \/ TakeScroll
  \/ Render

Spec == Init /\ [][Next]_vars

\* What a call waits for comes, unless the plugin it reads was removed, or one of the
\* plugins that are being indexed, which may be the one that holds the index gate.
Answers(t) ==
  /\ task[t].at \in {"reading", "revealing"} => Contains(loaded, task[t].plugin)
  /\ task[t].at = "resolving" =>
       \A u \in Tasks : task[u].at = "resolving" => Contains(loaded, task[u].plugin)

FairSpec == Spec /\ \A t \in Tasks : WF_vars(Answers(t) /\ Continues(t))

-----------------------------------------------------------------------------
(* Properties                                                              *)

\* There is an active plugin whenever one is loaded and no removal is under way.
OneIsActive ==
  loaded # <<>> /\ (\A t \in Tasks : task[t].at # "removing") => active # NoPlugin

\* The selected node is of the active plugin.
Agrees == selected \in {active, NoPlugin}

\* A removed plugin becomes active only through a call that had found it before: the
\* add of a name that was loaded, or a go-to.
FoundBefore ==
  active' # NoPlugin /\ ~ Contains(loaded', active') =>
    \/ active' = active /\ ~ Contains(loaded, active)
    \/ \E t \in Tasks :
         /\ task[t].at \in {"found", "resolving"} /\ task[t].plugin = active'
         /\ task'[t] # task[t]

\* The selection parts from the active plugin only while a RevealAsync runs, which has
\* switched the plugin and not yet rendered.
PartsInReveal ==
  Agrees /\ ~ Agrees' => \E t \in Tasks : task[t].at = "revealing" \/ task'[t].at = "revealing"

\* There is an active plugin whenever one is loaded and no removal is under way, in
\* whatever order sources are added and plugins removed (AddSourcesAsync, RemoveAsync);
\* and a removed plugin becomes active, or the selected node, from whose plugin
\* NodeDetails and HexViewer read, comes to be of another plugin than the active one,
\* only in these two ways.
SelectionIsLive ==
  /\ []OneIsActive
  /\ [][FoundBefore]_vars
  /\ [][PartsInReveal]_vars

\* Children of another plugin are stored only by a read that was started for them.
StoresOwn ==
  \A p \in Plugins, k \in Keys :
    children'[p][k] \notin {children[p][k], NoPlugin, p} =>
      \E t \in Tasks : /\ task[t].at = "reading" /\ task[t].plugin = p /\ task[t].key = k
                      /\ task[t].owner = children'[p][k] /\ ~ task[t].orphan

\* Such a read starts only on a screen that is behind a go-to into the plugin.
StartsOwn ==
  \A t \in Tasks :
    /\ task'[t].at \in {"reading", "revealing"} /\ task[t].at # "reading"
    /\ task'[t].owner # task'[t].plugin
    => RevealingInto(task'[t].plugin) # {} /\ shown # active

\* The children in a plugin's tree are those of its own groups
\* (PluginExplorerState.cs:108, "Tree state (per active plugin)"): what a call reads into
\* the tree of a plugin is under a group of that plugin, except when the group was
\* clicked while a go-to revealed into that plugin and the screen showed another.
ChildrenOwn == [][StoresOwn]_vars /\ [][StartsOwn]_vars

\* A go-to that nobody crossed asks for the scroll with its record on the screen.
Arrives ==
  scroll' /\ ~ scroll =>
    \E t \in Tasks :
      /\ GoingTo(t) /\ task'[t].at = "idle" /\ selected' = task[t].plugin
      /\ \/ t \in crossed
         \/ /\ active' = task[t].plugin
            /\ \A i \in 1..Len(Path) : Path[i] \in expanded'[active']

\* PluginExplorerState.cs:157-158: following a reference "switches to the target
\* plugin, expands the tree along the record's path, selects it, and requests a
\* scroll": when the scroll is requested, the record is on the screen, whatever was
\* added, removed, read, clicked or followed meanwhile, unless that made another plugin
\* active or closed a group that the go-to had opened.
GoToShows == [][Arrives]_vars

\* The strengthening that makes these inductive: while a go-to that nobody crossed
\* reveals, its plugin is the active one and the groups down to the one it reads are open.
TaskSet ==
  [at : {"idle", "adding", "found", "removing", "reading", "resolving", "revealing"},
   plugin : Plugins \cup {NoPlugin}, key : Keys, owner : Plugins \cup {NoPlugin},
   orphan : BOOLEAN, lost : BOOLEAN]

TypeOK ==
  /\ loaded \in Seq(Plugins)
  /\ {active, selected, shown} \subseteq Plugins \cup {NoPlugin}
  /\ expanded \in [Plugins -> SUBSET Groups]
  /\ children \in [Plugins -> [Keys -> Plugins \cup {NoPlugin}]]
  /\ errors \in [Plugins -> SUBSET Keys]
  /\ task \in [Tasks -> TaskSet]

ReadsOwn(t) ==
  /\ task[t].at # "idle" => task[t].plugin \in Plugins
  /\ task[t].at = "revealing" =>
       /\ task[t].owner = task[t].plugin
       /\ \E n \in 1..Len(Steps) : Steps[n] = task[t].key

Undisturbed(t) ==
  task[t].at = "revealing" /\ t \notin crossed =>
    /\ active = task[t].plugin /\ ~ task[t].lost
    /\ Opened(t) \subseteq expanded[task[t].plugin]

\* The screen shows another plugin only while a go-to reveals into the active one.
ScreenIsRight == shown \in {active, NoPlugin} \/ RevealingInto(active) # {}

IInv ==
  /\ TypeOK
  /\ \A t \in Tasks : ReadsOwn(t) /\ Undisturbed(t)
  /\ ScreenIsRight
  /\ OneIsActive

\* A busy message is shown only while a go-to is in progress, and each is taken away,
\* unless the plugin that it leads to was removed meanwhile and its reads hang.
BusyEnds ==
  /\ [](busy => \E t \in Tasks : GoingTo(t))
  /\ busy ~> \/ ~ busy
              \/ \E t \in Tasks : GoingTo(t) /\ ~ Contains(loaded, task[t].plugin)
=============================================================================
