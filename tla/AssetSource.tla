---------------------------- MODULE AssetSource -----------------------------
(***************************************************************************)
(* What GameDataService promises the pages that share it: a pick changes   *)
(* the folder at one moment, nothing is resolved before its archives are   *)
(* indexed, and a resolve is answered at one moment from the folder of     *)
(* that moment.  The calls may overlap in any way.                         *)
(***************************************************************************)
CONSTANTS
  Calls,            \* the calls that can be under way at once
  Roots,            \* the folders a user can pick
  Paths,            \* what can be asked for
  Answers(_, _),    \* folder, path -> what ResolveAsync may return
  None, Failed

VARIABLES
  hasPicker,        \* the browser can show a folder picker
  script,           \* the script behind the service: "unknown", "ready" or "failed"
  root,             \* the folder picked last, or None
  call              \* what each call was asked, and where it is

assets == <<hasPicker, script, root, call>>

NoCall == [at |-> "free"]

AssetInit ==
  /\ hasPicker \in BOOLEAN
  /\ script = "unknown"
  /\ root = None
  /\ call = [c \in Calls |-> NoCall]

Become(c, to) == call' = [call EXCEPT ![c] = to]

Asked(kind, path) == [at |-> "asked", kind |-> kind, path |-> path]

\* InitializeAsync, PickAsync or ResolveAsync.
Ask(c, kind, path) ==
  /\ call[c] = NoCall
  /\ Become(c, Asked(kind, path))
  /\ UNCHANGED <<hasPicker, script, root>>

\* A path that leaves the folder is refused at once.
Refuse(c) ==
  /\ call[c] = NoCall
  /\ Become(c, [at |-> "done", kind |-> "resolve", path |-> None, result |-> None])
  /\ UNCHANGED <<hasPicker, script, root>>

Is(c, at, kind) == call[c].at = at /\ call[c].kind = kind

Done(c, result) ==
  Become(c, [at |-> "done", kind |-> call[c].kind, path |-> call[c].path, result |-> result])

\* The archives of a folder that was just picked are being indexed.
Indexing == \E c \in Calls : call[c].at = "picked"

\* The script is loaded once, for all calls.
Loaded(ok) ==
  /\ script = "unknown"
  /\ script' = IF ok THEN "ready" ELSE "failed"
  /\ UNCHANGED <<hasPicker, root, call>>

Initialized(c) ==
  /\ Is(c, "asked", "initialize") /\ script # "unknown"
  /\ Done(c, IF script = "ready" THEN hasPicker ELSE Failed)
  /\ UNCHANGED <<hasPicker, script, root>>

PickFolder(c) ==
  /\ Is(c, "asked", "pick") /\ script = "ready" /\ hasPicker /\ ~ Indexing
  /\ root' \in Roots
  /\ Become(c, [call[c] EXCEPT !.at = "picked"])
  /\ UNCHANGED <<hasPicker, script>>

\* The picker is closed, or the script could not be loaded.
PickNothing(c) ==
  /\ Is(c, "asked", "pick") /\ script # "unknown"
  /\ Done(c, IF script = "ready" THEN FALSE ELSE Failed)
  /\ UNCHANGED <<hasPicker, script, root>>

FolderIndexed(c) ==
  /\ call[c].at = "picked"
  /\ \E result \in {TRUE, Failed} : Done(c, result)
  /\ UNCHANGED <<hasPicker, script, root>>

Resolved(c) ==
  /\ Is(c, "asked", "resolve") /\ ~ Indexing
  /\ \E result \in Answers(root, call[c].path) : Done(c, result)
  /\ UNCHANGED <<hasPicker, script, root>>

\* The caller takes the result.
Leave(c) ==
  /\ call[c].at = "done"
  /\ Become(c, NoCall)
  /\ UNCHANGED <<hasPicker, script, root>>

AskAnything(c) ==
  \/ Ask(c, "initialize", None) \/ Ask(c, "pick", None) \/ Refuse(c)
  \/ \E path \in Paths : Ask(c, "resolve", path)

AnswerCall(c) ==
  Initialized(c) \/ PickFolder(c) \/ PickNothing(c) \/ FolderIndexed(c) \/ Resolved(c)

AssetNext ==
  \/ \E c \in Calls : AskAnything(c) \/ AnswerCall(c) \/ Leave(c)
  \/ \E ok \in BOOLEAN : Loaded(ok)

AssetSpec == AssetInit /\ [][AssetNext]_assets
=============================================================================
