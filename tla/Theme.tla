------------------------------- MODULE Theme --------------------------------
(***************************************************************************)
(* The colour theme: theme.ts, ThemeService, the toggle, and the script in *)
(* index.html that runs before them.  Several tabs of the application      *)
(* share one localStorage; nothing tells a tab of another's write.         *)
(*                                                                         *)
(* A call of ThemeService awaits one interop call at a time, so a tab's    *)
(* calls in progress are the interop calls it awaits.  JavaScript runs     *)
(* when it is called; the answers come back in that order, before the      *)
(* browser handles the next event of the tab.  Imports fail in no behavior *)
(* of this module.                                                         *)
(***************************************************************************)
EXTENDS Naturals, Sequences

CONSTANTS
  Tabs,         \* the tabs (or windows) of the application
  MaxClicks,    \* bound: clicks on the toggle, in all tabs together
  MaxChanges,   \* bound: changes of the operating system's color scheme
  MaxReloads,   \* bound: tabs closed, to be opened again
  None          \* no choice: the call is the toggle's InitializeAsync

ASSUME ThemeAssumption ==
  /\ None \notin {"light", "dark", "auto"}
  /\ MaxClicks \in Nat /\ MaxChanges \in Nat /\ MaxReloads \in Nat

VARIABLES
  stored,       \* localStorage 'esm-theme': "light", "dark", "absent" or "other"
  os,           \* the theme prefers-color-scheme asks for
  page,         \* tab -> "closed", "opened" (index.html) or "running" (the toggle is there)
  applied,      \* tab -> data-bs-theme
  script,       \* tab -> theme.js was evaluated
  seen,         \* tab -> the color scheme the tab's listener was told of
  module,       \* tab -> _module is set
  preference,   \* tab -> Preference
  awaited,      \* tab -> the interop calls in progress, in the order they are answered
  unread,       \* history: what a tab has not looked up since another tab wrote
  chosen,       \* history: tab -> its last click
  left          \* what is left of the bounds

browser == <<stored, os, page, applied, script, seen>>
vars == <<browser, module, preference, awaited, unread, chosen, left>>

-----------------------------------------------------------------------------
(* theme.ts                                                                *)

\* Mutant of PreferenceOf: whatever is stored is a preference.
PreferenceOfAny(value) == IF value = "absent" THEN "auto" ELSE value

\* getPreference
PreferenceOf(value) == IF value \in {"light", "dark"} THEN value ELSE "auto"

Resolve(choice, scheme) ==
  IF choice = "dark" \/ (choice = "auto" /\ scheme = "dark") THEN "dark" ELSE "light"

\* apply(), once the storage holds the value.
Apply(t, value) ==
  applied' = [applied EXCEPT ![t] = Resolve(PreferenceOf(value), os)]

\* What the open tabs know when tab t has written.
OutOfDate(t) ==
  [u \in Tabs |-> IF u = t THEN {} ELSE IF page[u] = "closed" THEN unread[u] ELSE {"theme", "preference"}]

\* Mutant of SetPreference: the theme is not applied.
SetPreferenceOnly(t, choice) ==
  /\ stored' = IF choice \in {"light", "dark"} THEN choice ELSE "absent"
  /\ unread' = OutOfDate(t)
  /\ UNCHANGED applied

\* setPreference.
SetPreference(t, choice) ==
  /\ stored' = IF choice \in {"light", "dark"} THEN choice ELSE "absent"
  /\ Apply(t, stored')
  /\ unread' = OutOfDate(t)

\* Mutant of Evaluate: the script leaves the theme to the page.
EvaluateOnly(t) ==
  /\ ~ script[t] /\ awaited[t] # <<>>
  /\ script' = [script EXCEPT ![t] = TRUE]
  /\ seen' = [seen EXCEPT ![t] = os]
  /\ unread' = [unread EXCEPT ![t] = @ \ {"theme"}]
  /\ UNCHANGED <<stored, os, page, applied, module, preference, awaited, chosen, left>>

\* The script is loaded: it listens for changes and applies the theme.
Evaluate(t) ==
  /\ ~ script[t] /\ awaited[t] # <<>>
  /\ script' = [script EXCEPT ![t] = TRUE]
  /\ seen' = [seen EXCEPT ![t] = os]
  /\ Apply(t, stored)
  /\ unread' = [unread EXCEPT ![t] = @ \ {"theme"}]
  /\ UNCHANGED <<stored, os, page, module, preference, awaited, chosen, left>>

\* The browser has no answer to deliver before the next event.
Idle(t) == awaited[t] = <<>> \/ ~ script[t]

\* The listener of the media query.
ColorSchemeChanged(t) ==
  /\ script[t] /\ seen[t] # os /\ Idle(t)
  /\ seen' = [seen EXCEPT ![t] = os]
  /\ IF PreferenceOf(stored) = "auto"
     THEN Apply(t, stored) /\ unread' = [unread EXCEPT ![t] = @ \ {"theme"}]
     ELSE UNCHANGED <<applied, unread>>
  /\ UNCHANGED <<stored, os, page, script, module, preference, awaited, chosen, left>>

-----------------------------------------------------------------------------
(* ThemeService                                                            *)

Await(call, result, choice) == [call |-> call, result |-> result, choice |-> choice]

Import(choice) == Await("import", None, choice)

\* SetPreferenceAsync with the module there.
InvokeSet(t, rest, choice) ==
  /\ SetPreference(t, choice)
  /\ awaited' = [awaited EXCEPT ![t] = Append(rest, Await("setPreference", None, choice))]

\* The toggle is rendered: OnInitializedAsync, InitializeAsync.
Render(t) ==
  /\ page[t] = "opened"
  /\ page' = [page EXCEPT ![t] = "running"]
  /\ awaited' = [awaited EXCEPT ![t] = <<Import(None)>>]
  /\ UNCHANGED <<stored, os, applied, script, seen, module, preference, unread, chosen, left>>

\* SetAsync: a click.  Without the module, InitializeAsync comes first.
Click(t, choice) ==
  /\ page[t] = "running" /\ Idle(t) /\ left.clicks > 0
  /\ left' = [left EXCEPT !.clicks = @ - 1]
  /\ chosen' = [chosen EXCEPT ![t] = choice]
  /\ IF module[t]
     THEN InvokeSet(t, awaited[t], choice)
     ELSE /\ awaited' = [awaited EXCEPT ![t] = Append(@, Import(choice))]
          /\ UNCHANGED <<stored, applied, unread>>
  /\ UNCHANGED <<os, page, script, seen, module, preference>>

\* import() resolves: getPreference is invoked.
Imported(t) ==
  /\ script[t] /\ awaited[t] # <<>> /\ Head(awaited[t]).call = "import"
  /\ module' = [module EXCEPT ![t] = TRUE]
  /\ awaited' = [awaited EXCEPT ![t] =
       Append(Tail(@), Await("getPreference", PreferenceOf(stored), Head(@).choice))]
  /\ unread' = [unread EXCEPT ![t] = @ \ {"preference"}]
  /\ UNCHANGED <<browser, preference, chosen, left>>

\* getPreference answers: the end of InitializeAsync, and for a click the rest
\* of SetPreferenceAsync.
Told(t) ==
  /\ script[t] /\ awaited[t] # <<>> /\ Head(awaited[t]).call = "getPreference"
  /\ preference' = [preference EXCEPT ![t] = Head(awaited[t]).result]
  /\ IF Head(awaited[t]).choice = None
     THEN /\ awaited' = [awaited EXCEPT ![t] = Tail(@)]
          /\ UNCHANGED <<stored, applied, unread>>
     ELSE InvokeSet(t, Tail(awaited[t]), Head(awaited[t]).choice)
  /\ UNCHANGED <<os, page, script, seen, module, chosen, left>>

\* Mutant of Stored: the service forgets what was chosen.
StoredOnly(t) ==
  /\ script[t] /\ awaited[t] # <<>> /\ Head(awaited[t]).call = "setPreference"
  /\ awaited' = [awaited EXCEPT ![t] = Tail(@)]
  /\ UNCHANGED <<browser, module, preference, unread, chosen, left>>

\* setPreference answers.
Stored(t) ==
  /\ script[t] /\ awaited[t] # <<>> /\ Head(awaited[t]).call = "setPreference"
  /\ preference' = [preference EXCEPT ![t] = Head(awaited[t]).choice]
  /\ awaited' = [awaited EXCEPT ![t] = Tail(@)]
  /\ UNCHANGED <<browser, module, unread, chosen, left>>

-----------------------------------------------------------------------------
(* The page, the user and the operating system                             *)

\* The script in index.html.
Early == IF stored = "dark" \/ (stored # "light" /\ os = "dark") THEN "dark" ELSE "light"

Open(t) ==
  /\ page[t] = "closed"
  /\ page' = [page EXCEPT ![t] = "opened"]
  /\ applied' = [applied EXCEPT ![t] = Early]
  /\ unread' = [unread EXCEPT ![t] = {"preference"}]
  /\ UNCHANGED <<stored, os, script, seen, module, preference, awaited, chosen, left>>

\* The tab is closed or reloaded, whatever it was doing.
Close(t) ==
  /\ page[t] # "closed" /\ left.reloads > 0
  /\ left' = [left EXCEPT !.reloads = @ - 1]
  /\ page' = [page EXCEPT ![t] = "closed"]
  /\ script' = [script EXCEPT ![t] = FALSE]
  /\ module' = [module EXCEPT ![t] = FALSE]
  /\ preference' = [preference EXCEPT ![t] = "auto"]
  /\ awaited' = [awaited EXCEPT ![t] = <<>>]
  /\ chosen' = [chosen EXCEPT ![t] = None]
  /\ applied' = [applied EXCEPT ![t] = "light"]
  /\ seen' = [seen EXCEPT ![t] = "light"]
  /\ unread' = [unread EXCEPT ![t] = {"preference"}]
  /\ UNCHANGED <<stored, os>>

\* The scheme changes again only after the listeners were told of the last
\* change: browsers tell them with the next frame.
ChangeColorScheme ==
  /\ left.changes > 0
  /\ \A t \in Tabs : script[t] => seen[t] = os
  /\ left' = [left EXCEPT !.changes = @ - 1]
  /\ os' = IF os = "dark" THEN "light" ELSE "dark"
  /\ UNCHANGED <<stored, page, applied, script, seen, module, preference, awaited, unread, chosen>>

Init ==
  /\ stored \in {"light", "dark", "absent", "other"}
  /\ os \in {"light", "dark"}
  /\ page = [t \in Tabs |-> "closed"]
  /\ applied = [t \in Tabs |-> "light"]
  /\ script = [t \in Tabs |-> FALSE]
  /\ seen = [t \in Tabs |-> "light"]
  /\ module = [t \in Tabs |-> FALSE]
  /\ preference = [t \in Tabs |-> "auto"]
  /\ awaited = [t \in Tabs |-> <<>>]
  /\ unread = [t \in Tabs |-> {"preference"}]
  /\ chosen = [t \in Tabs |-> None]
  /\ left = [clicks |-> MaxClicks, changes |-> MaxChanges, reloads |-> MaxReloads]

\* What the browser and the application do without being asked.
Work(t) ==
  \/ Render(t) \/ Evaluate(t) \/ ColorSchemeChanged(t)
  \/ Imported(t) \/ Told(t) \/ Stored(t)

Next ==
  \/ \E t \in Tabs :
       \/ Work(t)
       \/ Open(t) \/ Close(t)
       \/ \E choice \in {"light", "dark", "auto"} : Click(t, choice)
  \/ ChangeColorScheme

Spec == Init /\ [][Next]_vars

\* The application starts, its interop calls are answered, listeners are told.
FairSpec == Spec /\ \A t \in Tabs : WF_vars(Work(t))

-----------------------------------------------------------------------------
(* Properties                                                              *)

Choices == {"light", "dark", "auto"}

\* What a tab may await.
Awaits ==
  [call : {"import"}, result : {None}, choice : Choices \cup {None}]
    \cup [call : {"getPreference"}, result : Choices, choice : Choices \cup {None}]
    \cup [call : {"setPreference"}, result : {None}, choice : Choices]

TypeOK ==
  /\ stored \in {"light", "dark", "absent", "other"}
  /\ os \in {"light", "dark"}
  /\ page \in [Tabs -> {"closed", "opened", "running"}]
  /\ applied \in [Tabs -> {"light", "dark"}]
  /\ script \in [Tabs -> BOOLEAN]
  /\ seen \in [Tabs -> {"light", "dark"}]
  /\ module \in [Tabs -> BOOLEAN]
  /\ preference \in [Tabs -> Choices]
  /\ awaited \in [Tabs -> Seq(Awaits)]
  /\ unread \in [Tabs -> SUBSET {"theme", "preference"}]
  /\ chosen \in [Tabs -> Choices \cup {None}]
  /\ left \in [clicks : Nat, changes : Nat, reloads : Nat]

\* A preference that does not depend on the operating system is what is shown.
FixedIsShown ==
  \A t \in Tabs :
    script[t] /\ "theme" \notin unread[t] /\ PreferenceOf(stored) # "auto" =>
      applied[t] = PreferenceOf(stored)

\* theme.ts:1-3, "applies the resolved Bootstrap theme": a tab whose listener
\* was told of the color scheme shows what the stored preference resolves to,
\* until another tab writes.
ShowsResolved ==
  \A t \in Tabs :
    script[t] /\ seen[t] = os /\ "theme" \notin unread[t] =>
      applied[t] = Resolve(PreferenceOf(stored), os)

\* ThemeService.cs:17, "The stored preference": when nothing is in progress the
\* toggle shows what is stored, and that is the last click of the tab, whether
\* the clicks came before, during or after the import; until another tab writes.
LastClickCounts ==
  \A t \in Tabs :
    page[t] = "running" /\ awaited[t] = <<>> /\ "preference" \notin unread[t] =>
      /\ preference[t] = PreferenceOf(stored)
      /\ chosen[t] # None /\ unread[t] = {} => chosen[t] = preference[t]

\* What the calls of a tab go through, one round after the other: all are imported
\* before one is told, and all that were told before a click has written are.
Stage(call) == IF call.call = "import" THEN 1 ELSE IF call.call = "getPreference" THEN 2 ELSE 3

\* The last call of the round under way is that of the last click.
InRounds(calls, choice) ==
  /\ \A i, j \in 1..Len(calls) : i <= j => Stage(calls[i]) <= Stage(calls[j])
  /\ \A i \in 1..Len(calls) : Stage(calls[i]) <= Stage(calls[1]) + 1
  /\ \A i \in 1..Len(calls) :
       /\ Stage(calls[i]) = Stage(calls[1])
       /\ i = Len(calls) \/ Stage(calls[i + 1]) # Stage(calls[1])
       => calls[i].choice = choice
  /\ choice = None => \A i \in 1..Len(calls) : calls[i].choice = None

\* Before the script nothing has answered.
Scripted(t) ==
  /\ module[t] => script[t]
  /\ ~ script[t] => \A i \in 1..Len(awaited[t]) : awaited[t][i].call = "import"

\* The last thing a tab has read or written is what is stored, until another tab writes.
LastIsStored(t) ==
  LET calls == awaited[t]
      last == calls[Len(calls)]
  IN  "preference" \notin unread[t] =>
        /\ calls = <<>> /\ page[t] = "running" => preference[t] = PreferenceOf(stored)
        /\ calls # <<>> /\ last.call = "getPreference" => last.result = PreferenceOf(stored)
        /\ calls # <<>> /\ last.call = "setPreference" => last.choice = PreferenceOf(stored)

ClicksInOrder(t) ==
  /\ InRounds(awaited[t], chosen[t])
  /\ Scripted(t)
  /\ LastIsStored(t)
  /\ page[t] # "running" => chosen[t] = None
  /\ page[t] = "running" /\ awaited[t] = <<>> /\ chosen[t] # None => preference[t] = chosen[t]

\* The inductive invariants: of what is shown, and of the clicks.
ShownInv ==
  /\ TypeOK
  /\ \A t \in Tabs : page[t] # "running" => ~ script[t] /\ awaited[t] = <<>>
  /\ FixedIsShown
  /\ ShowsResolved

IInv == ShownInv /\ \A t \in Tabs : ClicksInOrder(t)

\* index.html:10, "to avoid a flash of the wrong theme; js/theme.js takes over
\* once the app is running": it changes nothing if neither the storage nor the
\* color scheme changed in between.
NoFlash == [][\A t \in Tabs :
  ~ script[t] /\ script'[t] /\ page[t] = "running" /\ applied[t] = Early => applied'[t] = applied[t]]_vars

\* A tab that is open ends up with the theme of its preference, when it is the
\* last that wrote and the color scheme stays.
ThemeSettles ==
  \A t \in Tabs :
    <>[](page[t] = "running" /\ "theme" \notin unread[t] =>
           script[t] /\ applied[t] = Resolve(PreferenceOf(stored), os))
=============================================================================
