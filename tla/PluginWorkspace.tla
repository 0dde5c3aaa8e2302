--------------------------- MODULE PluginWorkspace ---------------------------
(***************************************************************************)
(* PluginWorkspace.cs: the set of loaded plugins and their form-id         *)
(* indexes, and the operations that run over it concurrently.  Every       *)
(* operation is a task, split at its awaits; between two awaits it runs    *)
(* without interruption (the browser has one thread).                      *)
(*                                                                         *)
(* A plugin instance is named by the source it was opened over.  Names are *)
(* compared without case in the code: a name here stands for all the       *)
(* spellings of one file name.                                             *)
(***************************************************************************)
EXTENDS AsyncGate, FiniteSets

CONSTANTS
  Tasks,        \* the calls that may be in progress at once
  Sources,      \* the data sources the user opens, each at most once
  NoPlugin,     \* null
  NameOf,       \* IDataSource.Name of each source
  MastersOf,    \* Header.Masters of the plugin in each source, in order
  RecordsOf,    \* the form ids stored in each plugin, as stored
  References    \* the form ids that are followed, each with the plugin it stands in

\* A stored form id is [index, object]: its top byte and its low 24 bits.
NullId == [index |-> 0, object |-> 0]

ASSUME WorkspaceAssumption ==
  /\ NoOne \notin Tasks
  /\ NoPlugin \notin Sources
  /\ \A ref \in References : ref.context \in Sources

VARIABLES
  loaded,       \* _plugins
  indexes,      \* the keys of _indexes
  life,         \* the workspace: open, disposing, disposed, or broken off
  cursor,       \* where DisposeAsync is in _plugins
  modified,     \* _plugins changed under DisposeAsync's enumerator
  source,       \* each source: unused, opening, open, duplicate, rejected
  closes,       \* how often DisposeAsync of each source was called
  task          \* each call: where it is or how it ended, its plugin, its question

disposal == <<life, cursor, modified>>
vars == <<loaded, indexes, gate, disposal, source, closes, task>>

-----------------------------------------------------------------------------
(* Lookups                                                                 *)

IsLoaded(p) == Contains(loaded, p)

\* FindByName: the first loaded plugin of that name.
FindByName(name) ==
  LET i == SelectInSeq(loaded, LAMBDA p : NameOf[p] = name)
  IN  IF i = 0 THEN NoPlugin ELSE loaded[i]

\* PluginHeader.ResolveOrigin: an index past the master list is the plugin itself.
ResolveOrigin(p, id) ==
  IF id.index < Len(MastersOf[p]) THEN MastersOf[p][id.index + 1] ELSE NameOf[p]

\* Mutant of LocalId: the master index is left out.
LocalIdWithoutIndex(p, object) == [index |-> 0, object |-> object]

\* The id under which the defining plugin itself stores the form.
LocalId(p, object) == [index |-> Len(MastersOf[p]), object |-> object]

NoQuestion == [context |-> NoPlugin, id |-> NullId]

\* How a call is over: "none" is no call yet, or one that returned anything but
\* an answer of ResolveAsync (a plugin, nothing, an error).
Results == {"none", "missing master", "not found", "resolved"}

\* A call: in progress at one of its awaits, or over with one of the Results.
\* `plugin` is the one it works on; `question` is what ResolveAsync was asked.
Call(at, plugin, question) == [at |-> at, plugin |-> plugin, question |-> question]

Over(t) == task[t].at \in Results

Become(t, call) == task' = [task EXCEPT ![t] = call]

Continue(t, at) == Become(t, [task[t] EXCEPT !.at = at])

Returned == Call("none", NoPlugin, NoQuestion)

\* A change of _plugins invalidates the enumerator of a DisposeAsync in progress.
Touch == modified' = (modified \/ life = "disposing")

\* Mutant of Close: the source is not disposed.
CloseNot(s) == UNCHANGED closes

Close(s) == closes' = [closes EXCEPT ![s] = @ + 1]

-----------------------------------------------------------------------------
(* AddAsync                                                                *)

\* The name is checked before the file is opened.
Add(t, s) ==
  LET existing == FindByName(NameOf[s]) IN
  /\ Over(t)
  /\ source[s] = "unused"
  /\ \/ /\ existing # NoPlugin
        /\ source' = [source EXCEPT ![s] = "duplicate"]
        /\ Close(s)
        /\ Become(t, Call("discarding", existing, NoQuestion))
     \/ /\ existing = NoPlugin
        /\ source' = [source EXCEPT ![s] = "opening"]
        /\ Become(t, Call("opening", s, NoQuestion))
        /\ UNCHANGED closes
  /\ UNCHANGED <<loaded, indexes, gate, disposal>>

\* The duplicate source is disposed: the plugin found before the await is returned.
Discarded(t) ==
  /\ task[t].at = "discarding"
  /\ Become(t, Returned)
  /\ UNCHANGED <<loaded, indexes, gate, disposal, source, closes>>

Opened(t) ==
  /\ task[t].at = "opening"
  /\ loaded' = Append(loaded, task[t].plugin)
  /\ source' = [source EXCEPT ![task[t].plugin] = "open"]
  /\ Touch
  /\ Become(t, Returned)
  /\ UNCHANGED <<indexes, gate, life, cursor, closes>>

\* OpenAsync fails: the source is neither kept nor disposed.
OpenFailed(t) ==
  /\ task[t].at = "opening"
  /\ source' = [source EXCEPT ![task[t].plugin] = "rejected"]
  /\ Become(t, Returned)
  /\ UNCHANGED <<loaded, indexes, gate, disposal, closes>>

-----------------------------------------------------------------------------
(* RemoveAsync (a plugin that is not in the list is left alone)            *)

RemovePlugin(t, p) ==
  /\ Over(t)
  /\ IsLoaded(p)
  /\ loaded' = RemoveFirst(loaded, p)
  /\ indexes' = indexes \ {p}
  /\ Close(p)
  /\ Touch
  /\ Become(t, Call("removing", p, NoQuestion))
  /\ UNCHANGED <<gate, life, cursor, source>>

Removed(t) ==
  /\ task[t].at = "removing"
  /\ Become(t, Returned)
  /\ UNCHANGED <<loaded, indexes, gate, disposal, source, closes>>

-----------------------------------------------------------------------------
(* ResolveAsync and GetIndexAsync                                          *)

\* WaitAsync on _indexGate by a call: the gate is free, taken, or disposed (or
\* the call was cancelled before).
Arrive(t, plugin, question) ==
  \/ Become(t, Returned) /\ UNCHANGED gate
  \/ /\ life # "disposed"
     /\ \/ Take(t) /\ Become(t, Call("granted", plugin, question))
        \/ Join(t) /\ Become(t, Call("waiting", plugin, question))

\* Release by a call that goes on as `call`: the next in line is granted the
\* gate.  Releasing a disposed gate throws.
Release(t, call) ==
  /\ PassOn
  /\ \/ life = "disposed" /\ Become(t, Returned)
     \/ /\ life # "disposed"
        /\ task' = [u \in Tasks |-> IF u = t THEN call
                                   ELSE IF u = NextInLine THEN [task[u] EXCEPT !.at = "granted"]
                                   ELSE task[u]]

\* ResolveAsync up to its first await.
Resolve(t, ref) ==
  LET target == FindByName(ResolveOrigin(ref.context, ref.id)) IN
  /\ Over(t)
  /\ IsLoaded(ref.context)
  /\ \/ /\ ref.id = NullId
        /\ Become(t, Call("not found", NoPlugin, NoQuestion))
        /\ UNCHANGED gate
     \/ /\ ref.id # NullId
        /\ target = NoPlugin
        /\ Become(t, Call("missing master", NoPlugin, NoQuestion))
        /\ UNCHANGED gate
     \/ /\ ref.id # NullId
        /\ target # NoPlugin
        /\ Arrive(t, target, ref)
  /\ UNCHANGED <<loaded, indexes, disposal, source, closes>>

\* Inside the gate: the cached index, or a build that walks the whole file.
LookUpIndex(t) ==
  /\ task[t].at = "granted"
  /\ \/ /\ task[t].plugin \in indexes
        /\ Release(t, [task[t] EXCEPT !.at = "indexed"])
     \/ /\ task[t].plugin \notin indexes
        /\ Continue(t, "building")
        /\ UNCHANGED gate
  /\ UNCHANGED <<loaded, indexes, disposal, source, closes>>

\* The walk starts its last read.  A source that was asked to dispose starts no
\* read any more, but answers the ones under way.
LastRead(t) ==
  /\ task[t].at = "building"
  /\ closes[task[t].plugin] = 0
  /\ Continue(t, "finishing")
  /\ UNCHANGED <<loaded, indexes, gate, disposal, source, closes>>

Built(t) ==
  /\ task[t].at = "finishing"
  /\ indexes' = indexes \cup {task[t].plugin}
  /\ Release(t, [task[t] EXCEPT !.at = "indexed"])
  /\ UNCHANGED <<loaded, disposal, source, closes>>

\* Mutant of BuildFailed: the gate is not released.
BuildFailedKeepsGate(t) ==
  /\ task[t].at \in {"building", "finishing"}
  /\ Become(t, Returned)
  /\ UNCHANGED <<loaded, indexes, gate, disposal, source, closes>>

\* The walk fails, throws or is cancelled; nothing is cached.
BuildFailed(t) ==
  /\ task[t].at \in {"building", "finishing"}
  /\ Release(t, Returned)
  /\ UNCHANGED <<loaded, indexes, disposal, source, closes>>

\* FindOffset, then the start of GetPathToOffsetAsync.
FindOffset(t) ==
  LET p == task[t].plugin
      found == LocalId(p, task[t].question.id.object) \in RecordsOf[p]
  IN
  /\ task[t].at = "indexed"
  /\ \/ ~ found /\ Continue(t, "not found")
     \/ found /\ Continue(t, "locating")
  /\ UNCHANGED <<loaded, indexes, gate, disposal, source, closes>>

Located(t) ==
  /\ task[t].at = "locating"
  /\ Continue(t, "resolved")
  /\ UNCHANGED <<loaded, indexes, gate, disposal, source, closes>>

LocateFailed(t) ==
  /\ task[t].at = "locating"
  /\ Become(t, Returned)
  /\ UNCHANGED <<loaded, indexes, gate, disposal, source, closes>>

CancelWait(t) ==
  /\ task[t].at = "waiting"
  /\ Withdraw(t)
  /\ Become(t, Returned)
  /\ UNCHANGED <<loaded, indexes, disposal, source, closes>>

-----------------------------------------------------------------------------
(* DisposeAsync: one plugin after the other, with an await inside the      *)
(* enumeration of _plugins, which throws when the list was changed.        *)

DisposeDone ==
  /\ life' = "disposed"
  /\ loaded' = <<>>
  /\ indexes' = {}
  /\ ForgetWaiters
  /\ task' = [t \in Tasks |-> IF task[t].at = "waiting" THEN [task[t] EXCEPT !.at = "orphaned"]
                              ELSE task[t]]

DisposeStart ==
  /\ life = "open"
  /\ \/ loaded = <<>> /\ DisposeDone /\ UNCHANGED <<cursor, closes>>
     \/ /\ loaded # <<>>
        /\ life' = "disposing"
        /\ cursor' = 1
        /\ Close(Head(loaded))
        /\ UNCHANGED <<loaded, indexes, gate, task>>
  /\ UNCHANGED <<modified, source>>

\* Mutant of DisposeNext: an index into the list instead of an enumerator.
DisposeByIndex ==
  /\ life = "disposing"
  /\ \/ /\ cursor < Len(loaded)
        /\ cursor' = cursor + 1
        /\ Close(loaded[cursor + 1])
        /\ UNCHANGED <<loaded, indexes, gate, life, task>>
     \/ /\ cursor >= Len(loaded)
        /\ DisposeDone
        /\ UNCHANGED <<cursor, closes>>
  /\ UNCHANGED <<modified, source>>

\* The plugin under the cursor is disposed; MoveNext.
DisposeNext ==
  /\ life = "disposing"
  /\ \/ /\ modified
        /\ life' = "broken"
        /\ UNCHANGED <<loaded, indexes, gate, cursor, closes, task>>
     \/ /\ ~ modified
        /\ cursor < Len(loaded)
        /\ cursor' = cursor + 1
        /\ Close(loaded[cursor + 1])
        /\ UNCHANGED <<loaded, indexes, gate, life, task>>
     \/ /\ ~ modified
        /\ cursor >= Len(loaded)
        /\ DisposeDone
        /\ UNCHANGED <<cursor, closes>>
  /\ UNCHANGED <<modified, source>>

-----------------------------------------------------------------------------
Init ==
  /\ loaded = <<>>
  /\ indexes = {}
  /\ GateInit
  /\ life = "open"
  /\ cursor = 0
  /\ modified = FALSE
  /\ source = [s \in Sources |-> "unused"]
  /\ closes = [s \in Sources |-> 0]
  /\ task = [t \in Tasks |-> Returned]

\* What a task in progress does next.
Progress(t) ==
  \/ Discarded(t) \/ Opened(t) \/ OpenFailed(t)
  \/ Removed(t)
  \/ LookUpIndex(t) \/ LastRead(t) \/ Built(t) \/ BuildFailed(t)
  \/ FindOffset(t) \/ Located(t) \/ LocateFailed(t)

\* (The application makes no call on a workspace whose DisposeAsync has ended.)
Start(t) ==
  /\ life \in {"open", "disposing"}
  /\ \/ \E s \in Sources : Add(t, s) \/ RemovePlugin(t, s)
     \/ \E ref \in References : Resolve(t, ref)

Next ==
  \/ \E t \in Tasks : Start(t) \/ Progress(t) \/ CancelWait(t)
  \/ DisposeStart
  \/ DisposeNext

Spec == Init /\ [][Next]_vars

\* Awaited reads and disposals complete; nobody has to start or cancel a call.
FairSpec == Spec /\ \A t \in Tasks : WF_vars(Progress(t))

-----------------------------------------------------------------------------
(* Properties                                                              *)

Calls ==
  [at : Results \cup {"opening", "discarding", "removing", "waiting", "granted", "building",
                      "finishing", "indexed", "locating", "orphaned"},
   plugin : Sources \cup {NoPlugin},
   question : References \cup {NoQuestion}]

TypeOK ==
  /\ loaded \in Seq(Sources)
  /\ indexes \subseteq Sources
  /\ holder \in Tasks \cup {NoOne}
  /\ queue \in Seq(Tasks)
  /\ life \in {"open", "disposing", "disposed", "broken"}
  /\ cursor \in Nat
  /\ modified \in BOOLEAN
  /\ source \in [Sources -> {"unused", "opening", "open", "duplicate", "rejected"}]
  /\ closes \in [Sources -> Nat]
  /\ task \in [Tasks -> Calls]
  /\ \A t \in Tasks : ~ Over(t) => task[t].plugin # NoPlugin

\* PluginWorkspace.cs:37, "Adding a file name that is already loaded returns the
\* existing instance": two loaded plugins never have the same name.
NamesUnique ==
  \A i, j \in 1..Len(loaded) : NameOf[loaded[i]] = NameOf[loaded[j]] => i = j

\* Until the workspace is disposed, a source is disposed exactly when it is a
\* duplicate or its plugin was removed, and then once: a loaded plugin always
\* reads from an open source (AddAsync, RemoveAsync).
OwnershipKept ==
  life = "open" =>
    \A s \in Sources :
      /\ source[s] \in {"unused", "opening", "rejected"} => closes[s] = 0
      /\ source[s] = "duplicate" => closes[s] = 1
      /\ source[s] = "open" => closes[s] = IF IsLoaded(s) THEN 0 ELSE 1

\* PluginWorkspace.cs:60, "Removes and disposes a plugin (and its index)": the
\* workspace keeps no index of a plugin it no longer has.
IndexesOfLoaded == \A p \in indexes : IsLoaded(p)

\* An index is only ever built for a plugin that has none, by one task at a
\* time: the lookup and the build are under one gate (GetIndexAsync).
BuiltOnce ==
  \A t \in Tasks : task[t].at \in {"building", "finishing"} =>
    /\ task[t].plugin \notin indexes
    /\ \A u \in Tasks : task[u].at \in {"building", "finishing"} => u = t

\* What ResolveAsync answers is right for the reference it was asked about: the
\* plugin it looked in has the name of the form's origin, and it found a record
\* there exactly when one of that plugin's own records has the object id.
ResolvesRight ==
  \A t \in Tasks :
    LET p == task[t].plugin
        ref == task[t].question
        own == {id \in RecordsOf[p] : ResolveOrigin(p, id) = NameOf[p]}
    IN  task[t].at \in {"resolved", "not found"} /\ p # NoPlugin =>
          /\ NameOf[p] = ResolveOrigin(ref.context, ref.id)
          /\ task[t].at = "resolved" <=> \E id \in own : id.object = ref.id.object

\* When DisposeAsync runs to its end, every plugin it drops from the list was
\* disposed, whatever was added or removed while it awaited.
DisposalComplete ==
  [][life # "disposed" /\ life' = "disposed" =>
       \A p \in Sources : IsLoaded(p) => closes'[p] > 0]_vars

\* The strengthening that makes these inductive.  A call is past the gate, or in
\* line, exactly when the gate says so; a disposed gate has no line.
PastGate == {"granted", "building", "finishing"}

GateAgrees ==
  /\ \A i, j \in 1..Len(queue) : queue[i] = queue[j] => i = j
  /\ \A t \in Tasks : task[t].at = "waiting" <=> Contains(queue, t)
  /\ \A t \in Tasks : task[t].at \in PastGate <=> holder = t
  /\ holder = NoOne \/ life = "disposed" => queue = <<>>

\* A plugin is in the list once, over an open source; a source is being opened by
\* one call.
EachOnce ==
  /\ \A i, j \in 1..Len(loaded) : loaded[i] = loaded[j] => i = j
  /\ \A i \in 1..Len(loaded) : source[loaded[i]] = "open"
  /\ \A t \in Tasks : task[t].at = "opening" => source[task[t].plugin] = "opening"
  /\ \A t, u \in Tasks :
       task[t].at = "opening" /\ task[u].at = "opening" /\ task[t].plugin = task[u].plugin => t = u

\* An undisturbed DisposeAsync has disposed what is before and under its cursor.
PrefixDisposed ==
  life = "disposing" /\ ~ modified =>
    /\ cursor \in 1..Len(loaded)
    /\ \A i \in 1..cursor : closes[loaded[i]] > 0

\* A call that resolves works on a plugin with the name of the form's origin, and
\* goes on as that plugin's own id of the form is stored in it or not.
Stored(c) == LocalId(c.plugin, c.question.id.object) \in RecordsOf[c.plugin]

AnswerOK(c) ==
  c.plugin # NoPlugin =>
    /\ c.at \in PastGate \cup {"waiting", "indexed", "locating", "resolved", "not found"} =>
         NameOf[c.plugin] = ResolveOrigin(c.question.context, c.question.id)
    /\ c.at \in {"locating", "resolved"} => Stored(c)
    /\ c.at = "not found" => ~ Stored(c)

Answers == \A t \in Tasks : AnswerOK(task[t])

\* In a well-formed plugin file no record is of a master that the plugin does not
\* list, and no plugin lists itself.
WellFormed ==
  \A p \in Sources :
    /\ Len(MastersOf[p]) \in Nat
    /\ \A i \in 1..Len(MastersOf[p]) : MastersOf[p][i] # NameOf[p]
    /\ RecordsOf[p] \subseteq [index : 0..Len(MastersOf[p]), object : Nat]

IInv ==
  /\ TypeOK
  /\ GateAgrees
  /\ EachOnce
  /\ OwnershipKept
  /\ BuiltOnce
  /\ PrefixDisposed
  /\ Answers

\* Every call returns unless the workspace is disposed under it: the index gate
\* survives failed builds and cancelled waits.
CallsReturn ==
  \A t \in Tasks : ~ Over(t) ~> Over(t) \/ life = "disposed"
=============================================================================
