---------------------------- MODULE ThemeProofs -----------------------------
(***************************************************************************)
(* What is proved of the theme, for any number of tabs, clicks, changes of *)
(* the color scheme and reloads.                                           *)
(***************************************************************************)
EXTENDS Theme, TLAPS

-----------------------------------------------------------------------------
(* What is shown                                                           *)

\* The initial states satisfy the invariant.
LEMMA InitShown == ASSUME Init PROVE ShownInv
  BY ThemeAssumption DEF Init, ShownInv, TypeOK, FixedIsShown, ShowsResolved, Choices, Awaits

\* What is stored resolves to one of the two themes.
LEMMA ResolvesToTheme ==
  ASSUME NEW value, NEW scheme
  PROVE  Resolve(PreferenceOf(value), scheme) \in {"light", "dark"}
  BY DEF Resolve, PreferenceOf

\* A write keeps the invariant: the tab that wrote shows what it wrote, and
\* nothing is claimed of the others.
LEMMA SetKeeps ==
  ASSUME ShownInv, NEW t \in Tabs, NEW choice \in Choices, SetPreference(t, choice), page[t] = "running",
         UNCHANGED <<os, page, script, seen>>
  PROVE  /\ stored' \in {"light", "dark", "absent", "other"}
         /\ applied' \in [Tabs -> {"light", "dark"}]
         /\ unread' \in [Tabs -> SUBSET {"theme", "preference"}]
         /\ FixedIsShown' /\ ShowsResolved'
<1>1. stored' \in {"light", "dark", "absent", "other"}
  BY DEF SetPreference
<1>2. applied' = [applied EXCEPT ![t] = Resolve(PreferenceOf(stored'), os)]
  BY DEF SetPreference, Apply
<1>3. applied' \in [Tabs -> {"light", "dark"}]
  BY <1>2, ResolvesToTheme DEF ShownInv, TypeOK
<1>4. unread' = OutOfDate(t)
  BY DEF SetPreference
<1>5. unread' \in [Tabs -> SUBSET {"theme", "preference"}]
  BY <1>4 DEF OutOfDate, ShownInv, TypeOK
<1>6. ASSUME NEW u \in Tabs, u # t, script[u]
      PROVE  "theme" \in unread'[u]
  BY <1>4, <1>6 DEF OutOfDate, ShownInv
<1>7. applied'[t] = Resolve(PreferenceOf(stored'), os)
  BY <1>2 DEF ShownInv, TypeOK
<1>8. FixedIsShown' /\ ShowsResolved'
  BY <1>6, <1>7 DEF FixedIsShown, ShowsResolved, Resolve, PreferenceOf
<1>9. QED
  BY <1>1, <1>3, <1>5, <1>8

\* A queue of interop calls that loses its first or gets another is one still.
LEMMA Queues ==
  ASSUME NEW calls \in Seq(Awaits), NEW call \in Awaits
  PROVE  /\ Append(calls, call) \in Seq(Awaits)
         /\ calls # <<>> => /\ Head(calls) \in Awaits
                           /\ Tail(calls) \in Seq(Awaits)
                           /\ Append(Tail(calls), call) \in Seq(Awaits)
  OBVIOUS

\* The calls that are made are calls of the type.
LEMMA AwaitTypes ==
  ASSUME NEW choice \in Choices \cup {None}
  PROVE  /\ Import(choice) \in Awaits
         /\ \A result \in Choices : Await("getPreference", result, choice) \in Awaits
         /\ choice # None => Await("setPreference", None, choice) \in Awaits
  BY DEF Import, Await, Awaits

\* A bound that is left is used up by one.
LEMMA LeftTypes ==
  ASSUME NEW bound \in [clicks : Nat, changes : Nat, reloads : Nat]
  PROVE  /\ bound.clicks > 0 => [bound EXCEPT !.clicks = @ - 1] \in [clicks : Nat, changes : Nat, reloads : Nat]
         /\ bound.changes > 0 => [bound EXCEPT !.changes = @ - 1] \in [clicks : Nat, changes : Nat, reloads : Nat]
         /\ bound.reloads > 0 => [bound EXCEPT !.reloads = @ - 1] \in [clicks : Nat, changes : Nat, reloads : Nat]
  OBVIOUS

\* What every step does.
LEMMA StepShown ==
  ASSUME ShownInv, [Next]_vars
  PROVE  ShownInv'
<1> USE DEF ShownInv
<1>1. ASSUME NEW t \in Tabs, Render(t)
      PROVE  ShownInv'
  <2>1. <<Import(None)>> \in Seq(Awaits)
    BY AwaitTypes
  <2>2. TypeOK'
    BY <1>1, <2>1 DEF Render, TypeOK
  <2>3. FixedIsShown' /\ ShowsResolved'
    BY <1>1 DEF Render, FixedIsShown, ShowsResolved, Resolve
  <2>4. QED
    BY <1>1, <2>2, <2>3 DEF Render, TypeOK
<1>2. ASSUME NEW t \in Tabs, Evaluate(t)
      PROVE  ShownInv'
  <2>1. applied' = [applied EXCEPT ![t] = Resolve(PreferenceOf(stored), os)]
    BY <1>2 DEF Evaluate, Apply
  <2>2. TypeOK'
    BY <1>2, <2>1, ResolvesToTheme DEF Evaluate, TypeOK
  <2>3. FixedIsShown' /\ ShowsResolved'
    BY <1>2, <2>1 DEF Evaluate, FixedIsShown, ShowsResolved, Resolve, PreferenceOf, TypeOK
  <2>4. page[t] = "running"
    BY <1>2 DEF Evaluate
  <2>5. QED
    BY <1>2, <2>2, <2>3, <2>4 DEF Evaluate, TypeOK
<1>3. ASSUME NEW t \in Tabs, ColorSchemeChanged(t)
      PROVE  ShownInv'
  <2>1. CASE PreferenceOf(stored) = "auto"
    <3>1. applied' = [applied EXCEPT ![t] = Resolve(PreferenceOf(stored), os)]
      BY <1>3, <2>1 DEF ColorSchemeChanged, Apply
    <3>2. TypeOK'
      <4>1. applied' \in [Tabs -> {"light", "dark"}]
        BY <3>1, ResolvesToTheme DEF TypeOK
      <4>2. unread' \in [Tabs -> SUBSET {"theme", "preference"}]
        <5>1. unread' = [unread EXCEPT ![t] = unread[t] \ {"theme"}]
          BY <1>3, <2>1 DEF ColorSchemeChanged
        <5>2. unread[t] \ {"theme"} \in SUBSET {"theme", "preference"}
          BY DEF TypeOK
        <5>3. QED
          BY <5>1, <5>2 DEF TypeOK
      <4>3. seen' \in [Tabs -> {"light", "dark"}]
        BY <1>3 DEF ColorSchemeChanged, TypeOK
      <4>4. QED
        BY <1>3, <4>1, <4>2, <4>3 DEF ColorSchemeChanged, TypeOK
    <3>3. FixedIsShown' /\ ShowsResolved'
      BY <1>3, <2>1, <3>1 DEF ColorSchemeChanged, FixedIsShown, ShowsResolved, Resolve, TypeOK
    <3>4. QED
      BY <1>3, <3>2, <3>3 DEF ColorSchemeChanged
  <2>2. CASE PreferenceOf(stored) # "auto"
    <3>1. TypeOK'
      BY <1>3, <2>2 DEF ColorSchemeChanged, TypeOK
    <3>2. FixedIsShown' /\ ShowsResolved'
      BY <1>3, <2>2 DEF ColorSchemeChanged, FixedIsShown, ShowsResolved, Resolve, PreferenceOf, TypeOK
    <3>3. QED
      BY <1>3, <3>1, <3>2 DEF ColorSchemeChanged
  <2>3. QED
    BY <2>1, <2>2
<1>4. ASSUME NEW t \in Tabs, NEW choice \in Choices, Click(t, choice)
      PROVE  ShownInv'
  <2>1. left' \in [clicks : Nat, changes : Nat, reloads : Nat]
    BY <1>4, LeftTypes DEF Click, TypeOK
  <2>2. chosen' \in [Tabs -> Choices \cup {None}]
    BY <1>4 DEF Click, TypeOK
  <2>3. CASE module[t]
    <3>1. SetPreference(t, choice) /\ UNCHANGED <<os, page, script, seen>> /\ page[t] = "running"
      BY <1>4, <2>3 DEF Click, InvokeSet
    <3>2. awaited' = [awaited EXCEPT ![t] = Append(awaited[t], Await("setPreference", None, choice))]
      BY <1>4, <2>3 DEF Click, InvokeSet
    <3>3. Await("setPreference", None, choice) \in Awaits
      BY AwaitTypes, ThemeAssumption DEF Choices
    <3>4. awaited' \in [Tabs -> Seq(Awaits)]
      BY <3>2, <3>3, Queues DEF TypeOK
    <3>5. /\ stored' \in {"light", "dark", "absent", "other"}
          /\ applied' \in [Tabs -> {"light", "dark"}]
          /\ unread' \in [Tabs -> SUBSET {"theme", "preference"}]
          /\ FixedIsShown' /\ ShowsResolved'
      BY <3>1, SetKeeps
    <3>6. TypeOK'
      BY <1>4, <2>1, <2>2, <3>4, <3>5 DEF Click, TypeOK
    <3>7. \A u \in Tabs : page'[u] # "running" => ~ script'[u] /\ awaited'[u] = <<>>
      BY <3>1, <3>2
    <3>8. QED
      BY <3>5, <3>6, <3>7
  <2>4. CASE ~ module[t]
    <3>1. awaited' = [awaited EXCEPT ![t] = Append(awaited[t], Import(choice))]
      BY <1>4, <2>4 DEF Click
    <3>2. awaited' \in [Tabs -> Seq(Awaits)]
      BY <3>1, AwaitTypes, Queues DEF TypeOK
    <3>3. QED
      BY <1>4, <2>1, <2>2, <2>4, <3>2 DEF Click, TypeOK, FixedIsShown, ShowsResolved, Resolve
  <2>5. QED
    BY <2>3, <2>4
<1>5. ASSUME NEW t \in Tabs, Imported(t)
      PROVE  ShownInv'
  <2>1. PreferenceOf(stored) \in Choices
    BY DEF PreferenceOf, Choices
  <2>2. Head(awaited[t]) \in Awaits /\ Head(awaited[t]).choice \in Choices \cup {None}
    BY <1>5, Queues DEF Imported, TypeOK, Awaits
  <2>3. Await("getPreference", PreferenceOf(stored), Head(awaited[t]).choice) \in Awaits
    BY <2>1, <2>2, AwaitTypes
  <2>4. awaited' \in [Tabs -> Seq(Awaits)]
    BY <1>5, <2>3, Queues DEF Imported, TypeOK
  <2>5. TypeOK'
    BY <1>5, <2>4 DEF Imported, TypeOK, browser
  <2>6. QED
    BY <1>5, <2>5 DEF Imported, browser, TypeOK, FixedIsShown, ShowsResolved, Resolve
<1>6. ASSUME NEW t \in Tabs, Told(t)
      PROVE  ShownInv'
  <2>1. Head(awaited[t]) \in Awaits /\ Tail(awaited[t]) \in Seq(Awaits)
    BY <1>6, Queues DEF Told, TypeOK
  <2>2. Head(awaited[t]).result \in Choices /\ Head(awaited[t]).choice \in Choices \cup {None}
    BY <1>6, <2>1 DEF Told, Awaits
  <2>3. preference' \in [Tabs -> Choices]
    BY <1>6, <2>2 DEF Told, TypeOK
  <2>4. CASE Head(awaited[t]).choice = None
    <3>1. awaited' \in [Tabs -> Seq(Awaits)]
      BY <1>6, <2>1, <2>4 DEF Told, TypeOK
    <3>2. QED
      BY <1>6, <2>3, <2>4, <3>1 DEF Told, TypeOK, FixedIsShown, ShowsResolved, Resolve
  <2>5. CASE Head(awaited[t]).choice # None
    <3> DEFINE choice == Head(awaited[t]).choice
    <3>1. choice \in Choices
      BY <2>2, <2>5
    <3>2. SetPreference(t, choice) /\ UNCHANGED <<os, page, script, seen>>
      BY <1>6, <2>5 DEF Told, InvokeSet
    <3>3. page[t] = "running"
      BY <1>6 DEF Told
    <3>4. awaited' = [awaited EXCEPT ![t] = Append(Tail(awaited[t]), Await("setPreference", None, choice))]
      BY <1>6, <2>5 DEF Told, InvokeSet
    <3>5. awaited' \in [Tabs -> Seq(Awaits)]
      BY <1>6, <2>5, <3>1, <3>4, AwaitTypes, Queues DEF Told, TypeOK
    <3>6. /\ stored' \in {"light", "dark", "absent", "other"}
          /\ applied' \in [Tabs -> {"light", "dark"}]
          /\ unread' \in [Tabs -> SUBSET {"theme", "preference"}]
          /\ FixedIsShown' /\ ShowsResolved'
      BY <3>1, <3>2, <3>3, SetKeeps
    <3>7. TypeOK'
      BY <1>6, <2>3, <3>5, <3>6 DEF Told, TypeOK
    <3>8. \A u \in Tabs : page'[u] # "running" => ~ script'[u] /\ awaited'[u] = <<>>
      BY <3>2, <3>3, <3>4
    <3>9. QED
      BY <3>6, <3>7, <3>8
  <2>6. QED
    BY <2>4, <2>5
<1>7. ASSUME NEW t \in Tabs, Stored(t)
      PROVE  ShownInv'
  <2>1. Head(awaited[t]) \in Awaits /\ Tail(awaited[t]) \in Seq(Awaits)
    BY <1>7, Queues DEF Stored, TypeOK
  <2>2. Head(awaited[t]).choice \in Choices
    BY <1>7, <2>1 DEF Stored, Awaits
  <2>3. TypeOK'
    BY <1>7, <2>1, <2>2 DEF Stored, TypeOK, browser
  <2>4. QED
    BY <1>7, <2>3 DEF Stored, browser, TypeOK, FixedIsShown, ShowsResolved, Resolve
<1>8. ASSUME NEW t \in Tabs, Open(t)
      PROVE  ShownInv'
  <2>1. TypeOK'
    BY <1>8 DEF Open, Early, TypeOK
  <2>2. QED
    BY <1>8, <2>1 DEF Open, TypeOK, FixedIsShown, ShowsResolved, Resolve
<1>9. ASSUME NEW t \in Tabs, Close(t)
      PROVE  ShownInv'
  <2>1. TypeOK'
    <3>1. left' \in [clicks : Nat, changes : Nat, reloads : Nat]
      BY <1>9, LeftTypes DEF Close, TypeOK
    <3>2. awaited' \in [Tabs -> Seq(Awaits)]
      BY <1>9 DEF Close, TypeOK
    <3>3. QED
      BY <1>9, <3>1, <3>2 DEF Close, TypeOK, Choices
  <2>2. QED
    BY <1>9, <2>1 DEF Close, TypeOK, FixedIsShown, ShowsResolved, Resolve
<1>10. CASE ChangeColorScheme
  <2>1. TypeOK'
    <3>1. left' \in [clicks : Nat, changes : Nat, reloads : Nat]
      BY <1>10, LeftTypes DEF ChangeColorScheme, TypeOK
    <3>2. os' \in {"light", "dark"}
      BY <1>10 DEF ChangeColorScheme
    <3>3. QED
      BY <1>10, <3>1, <3>2 DEF ChangeColorScheme, TypeOK
  <2>2. \A t \in Tabs : script[t] => seen'[t] # os'
    BY <1>10 DEF ChangeColorScheme, TypeOK
  <2>3. QED
    BY <1>10, <2>1, <2>2 DEF ChangeColorScheme, FixedIsShown, ShowsResolved
<1>11. CASE UNCHANGED vars
  BY <1>11 DEF vars, browser, TypeOK, FixedIsShown, ShowsResolved, Resolve
<1>12. QED
  BY <1>1, <1>2, <1>3, <1>4, <1>5, <1>6, <1>7, <1>8, <1>9, <1>10, <1>11
  DEF Next, Work, Choices

-----------------------------------------------------------------------------
(* The clicks                                                              *)

\* The first call leaves the line, and the call that continues it joins at the end.
LEMMA MovesOn ==
  ASSUME NEW calls \in Seq(Awaits), calls # <<>>, NEW choice, InRounds(calls, choice),
         NEW call \in Awaits, Stage(call) = Stage(calls[1]) + 1, call.choice = calls[1].choice
  PROVE  InRounds(Append(Tail(calls), call), choice)
<1> DEFINE n == Len(calls)
           r == Append(Tail(calls), call)
           s == Stage(calls[1])
<1>1. /\ n \in Nat /\ n >= 1 /\ Len(r) = n /\ r[n] = call
      /\ \A i \in 1..(n - 1) : r[i] = calls[i + 1]
  OBVIOUS
<1>2. \A c : Stage(c) \in 1..3
  BY DEF Stage
<1> HIDE DEF r
<1>3. /\ \A i, j \in 1..n : i <= j => Stage(calls[i]) <= Stage(calls[j])
      /\ \A i \in 1..n : s <= Stage(calls[i]) /\ Stage(calls[i]) <= s + 1
      /\ \A i \in 1..n : Stage(calls[i]) = s /\ (i = n \/ Stage(calls[i + 1]) # s) => calls[i].choice = choice
      /\ choice = None => \A i \in 1..n : calls[i].choice = None
  BY <1>1, <1>2 DEF InRounds
<1>4. \A i \in 1..n : s <= Stage(r[i]) /\ Stage(r[i]) <= s + 1
  <2>1. SUFFICES ASSUME NEW i \in 1..n PROVE s <= Stage(r[i]) /\ Stage(r[i]) <= s + 1
    OBVIOUS
  <2>2. CASE i = n
    BY <1>1, <1>2, <2>2
  <2>3. CASE i # n
    <3>1. i \in 1..(n - 1) /\ i + 1 \in 1..n /\ r[i] = calls[i + 1]
      BY <1>1, <2>3
    <3>2. QED
      BY <1>3, <3>1
  <2>4. QED
    BY <2>2, <2>3
<1>5. \A i, j \in 1..n : i <= j => Stage(r[i]) <= Stage(r[j])
  <2>1. SUFFICES ASSUME NEW i \in 1..n, NEW j \in 1..n, i <= j PROVE Stage(r[i]) <= Stage(r[j])
    OBVIOUS
  <2>2. CASE j = n
    BY <1>1, <1>2, <1>4, <2>2
  <2>3. CASE j # n
    <3>1. /\ i \in 1..(n - 1) /\ j \in 1..(n - 1) /\ i + 1 \in 1..n /\ j + 1 \in 1..n /\ i + 1 <= j + 1
          /\ r[i] = calls[i + 1] /\ r[j] = calls[j + 1]
      BY <1>1, <2>1, <2>3
    <3>2. QED
      BY <1>3, <3>1
  <2>4. QED
    BY <2>2, <2>3
<1>6. ASSUME NEW i \in 1..n, Stage(r[i]) = Stage(r[1]), i = n \/ Stage(r[i + 1]) # Stage(r[1])
      PROVE  r[i].choice = choice
  <2>1. CASE n = 1
    BY <1>1, <1>3, <1>6, <2>1
  <2>2. CASE n > 1 /\ Stage(calls[2]) = s
    <3>1. Stage(r[1]) = s /\ i # n
      BY <1>1, <1>2, <1>6, <2>2
    <3>2. i \in 1..(n - 1) /\ i + 1 \in 1..n /\ r[i] = calls[i + 1] /\ Stage(calls[i + 1]) = s
      BY <1>1, <1>6, <3>1
    <3>3. i + 1 = n \/ Stage(calls[(i + 1) + 1]) # s
      <4>1. CASE i + 1 = n
        BY <4>1
      <4>2. CASE i + 1 # n
        <5>1. i + 1 \in 1..(n - 1) /\ r[i + 1] = calls[(i + 1) + 1]
          BY <1>1, <3>2, <4>2
        <5>2. QED
          BY <1>6, <3>1, <5>1
      <4>3. QED
        BY <4>1, <4>2
    <3>4. QED
      BY <1>3, <3>2, <3>3
  <2>3. CASE n > 1 /\ Stage(calls[2]) # s
    <3>1. 1 \in 1..n /\ 2 \in 1..n /\ 1 \in 1..(n - 1) /\ 1 + 1 = 2 /\ r[1] = calls[2]
      BY <1>1, <2>3
    <3>2. Stage(r[1]) = s + 1
      BY <1>2, <1>3, <2>3, <3>1
    <3>3. i = n
      <4>1. SUFFICES ASSUME i # n PROVE FALSE
        OBVIOUS
      <4>2. i + 1 \in 1..n /\ 1 <= i + 1
        BY <1>1, <4>1
      <4>3. Stage(r[i + 1]) = s + 1
        BY <1>2, <1>4, <1>5, <3>1, <3>2, <4>2
      <4>4. QED
        BY <1>6, <3>2, <4>1, <4>3
    <3>4. calls[1].choice = choice
      BY <1>3, <2>3, <3>1
    <3>5. QED
      BY <1>1, <3>3, <3>4
  <2>4. QED
    BY <1>1, <2>1, <2>2, <2>3
<1>7. choice = None => \A i \in 1..n : r[i].choice = None
  <2>1. SUFFICES ASSUME choice = None, NEW i \in 1..n PROVE r[i].choice = None
    OBVIOUS
  <2>2. CASE i = n
    BY <1>1, <1>3, <2>1, <2>2
  <2>3. CASE i # n
    <3>1. i + 1 \in 1..n /\ r[i] = calls[i + 1]
      BY <1>1, <2>3
    <3>2. QED
      BY <1>3, <2>1, <3>1
  <2>4. QED
    BY <2>2, <2>3
<1>8. \A i \in 1..n : Stage(r[i]) <= Stage(r[1]) + 1
  <2>1. 1 \in 1..n
    BY <1>1
  <2>2. QED
    BY <1>2, <1>4, <2>1
<1>9. InRounds(r, choice)
  BY <1>1, <1>5, <1>6, <1>7, <1>8 DEF InRounds
<1>10. QED
  BY <1>9 DEF r

\* The first call leaves the line, and another of its round is behind it.
LEMMA MovesOut ==
  ASSUME NEW calls \in Seq(Awaits), calls # <<>>, NEW choice, InRounds(calls, choice),
         Len(calls) > 1 => Stage(calls[2]) = Stage(calls[1])
  PROVE  InRounds(Tail(calls), choice)
<1> DEFINE n == Len(calls) - 1
           r == Tail(calls)
           s == Stage(calls[1])
<1>1. /\ n \in Nat /\ Len(r) = n /\ Len(calls) = n + 1
      /\ \A i \in 1..n : i + 1 \in 1..(n + 1) /\ r[i] = calls[i + 1]
  OBVIOUS
<1> HIDE DEF r, n
<1>2. /\ \A i, j \in 1..(n + 1) : i <= j => Stage(calls[i]) <= Stage(calls[j])
      /\ \A i \in 1..(n + 1) : Stage(calls[i]) <= s + 1
      /\ \A i \in 1..(n + 1) :
           Stage(calls[i]) = s /\ (i = n + 1 \/ Stage(calls[i + 1]) # s) => calls[i].choice = choice
      /\ choice = None => \A i \in 1..(n + 1) : calls[i].choice = None
  BY <1>1 DEF InRounds
<1>3. n > 0 => 1 \in 1..n /\ r[1] = calls[2] /\ Stage(r[1]) = s
  BY <1>1
<1>4. \A i, j \in 1..n : i <= j => Stage(r[i]) <= Stage(r[j])
  BY <1>1, <1>2
<1>5. \A i \in 1..n : Stage(r[i]) <= Stage(r[1]) + 1
  BY <1>1, <1>2, <1>3
<1>6. ASSUME NEW i \in 1..n, Stage(r[i]) = Stage(r[1]), i = n \/ Stage(r[i + 1]) # Stage(r[1])
      PROVE  r[i].choice = choice
  <2>1. n > 0 /\ r[i] = calls[i + 1] /\ i + 1 \in 1..(n + 1) /\ Stage(calls[i + 1]) = s
    BY <1>1, <1>3, <1>6
  <2>2. i + 1 = n + 1 \/ Stage(calls[(i + 1) + 1]) # s
    BY <1>1, <1>3, <1>6, <2>1
  <2>3. QED
    BY <1>2, <2>1, <2>2
<1>7. choice = None => \A i \in 1..n : r[i].choice = None
  BY <1>1, <1>2
<1>8. InRounds(r, choice)
  BY <1>1, <1>4, <1>5, <1>6, <1>7 DEF InRounds
<1>9. QED
  BY <1>8 DEF r

\* A click that has to import joins others that have to.
LEMMA Joins ==
  ASSUME NEW calls \in Seq(Awaits), \A i \in 1..Len(calls) : calls[i].call = "import",
         NEW call \in Awaits, call.call = "import", call.choice = None => calls = <<>>
  PROVE  InRounds(Append(calls, call), call.choice)
<1> DEFINE n == Len(calls) + 1
           r == Append(calls, call)
<1>1. n \in Nat /\ Len(r) = n /\ r[n] = call /\ \A i \in 1..n : i # n => r[i] = calls[i] /\ i \in 1..Len(calls)
  OBVIOUS
<1>2. \A i \in 1..n : Stage(r[i]) = 1
  BY <1>1 DEF Stage
<1>3. \A i \in 1..n : i # n => i + 1 \in 1..n
  BY <1>1
<1>4. call.choice = None => n = 1
  OBVIOUS
<1> HIDE DEF r, n
<1>5. 1 \in 1..n \/ n = 0
  BY <1>1
<1>6. \A i \in 1..n : i = n \/ Stage(r[i + 1]) # Stage(r[1]) => r[i].choice = call.choice
  BY <1>1, <1>2, <1>3, <1>5
<1>7. \A i \in 1..n : Stage(r[i]) <= Stage(r[1]) + 1
  BY <1>1, <1>2, <1>5
<1>8. call.choice = None => \A i \in 1..n : r[i].choice = None
  BY <1>1, <1>4
<1>9. QED
  BY <1>1, <1>2, <1>6, <1>7, <1>8 DEF InRounds, r

\* A write stores what reads as the choice.
LEMMA WriteFacts ==
  ASSUME NEW t \in Tabs, NEW choice \in Choices, SetPreference(t, choice)
  PROVE  PreferenceOf(stored') = choice
BY DEF SetPreference, PreferenceOf, Choices

\* A tab that did nothing: if another one wrote, it knows that it does not know.
LEMMA Bystander ==
  ASSUME IInv, NEW u \in Tabs, awaited'[u] = awaited[u], chosen'[u] = chosen[u], page'[u] = page[u],
         module'[u] = module[u], preference'[u] = preference[u],
         script'[u] = script[u] \/ script'[u] = TRUE,
         \/ stored' = stored /\ ("preference" \in unread[u] => "preference" \in unread'[u])
         \/ "preference" \in unread'[u]
         \/ page[u] = "closed"
  PROVE  ClicksInOrder(u)'
<1>1. ClicksInOrder(u) /\ (page[u] # "running" => awaited[u] = <<>>)
  BY DEF IInv, ShownInv
<1>2. InRounds(awaited[u], chosen[u])'
  <2>1. InRounds(awaited[u], chosen[u])
    BY <1>1 DEF ClicksInOrder
  <2>2. PICK calls, choice : calls = awaited[u] /\ choice = chosen[u]
    OBVIOUS
  <2>3. InRounds(calls, choice) /\ awaited'[u] = calls /\ chosen'[u] = choice
    BY <2>1, <2>2
  <2>4. QED
    BY <2>3 DEF InRounds
<1>3. Scripted(u)'
  BY <1>1 DEF ClicksInOrder, Scripted
<1>4. LastIsStored(u)'
  BY <1>1 DEF ClicksInOrder, LastIsStored
<1>5. QED
  BY <1>1, <1>2, <1>3, <1>4 DEF ClicksInOrder

\* The other tabs when tab t has written.
LEMMA Bystanders ==
  ASSUME IInv, NEW t \in Tabs, NEW choice, SetPreference(t, choice), NEW u \in Tabs, u # t,
         awaited'[u] = awaited[u], chosen'[u] = chosen[u], page'[u] = page[u],
         module'[u] = module[u], preference'[u] = preference[u], script'[u] = script[u]
  PROVE  ClicksInOrder(u)'
<1>1. "preference" \in unread'[u] \/ page[u] = "closed"
  BY DEF SetPreference, OutOfDate
<1>2. QED
  BY <1>1, Bystander

LEMMA RenderClicks ==
  ASSUME IInv, NEW t \in Tabs, Render(t)
  PROVE  \A u \in Tabs : ClicksInOrder(u)'
<1>1. /\ page[t] = "opened" /\ page' = [page EXCEPT ![t] = "running"]
      /\ awaited' = [awaited EXCEPT ![t] = <<Import(None)>>]
      /\ UNCHANGED <<stored, script, module, preference, unread, chosen>>
  BY DEF Render
<1>2. /\ page' \in [Tabs -> {"closed", "opened", "running"}]
      /\ awaited'[t] = <<Import(None)>> /\ page'[t] = "running"
      /\ \A u \in Tabs : u # t => awaited'[u] = awaited[u] /\ page'[u] = page[u]
  BY <1>1 DEF IInv, ShownInv, TypeOK
<1>3. ClicksInOrder(t) /\ chosen[t] = None /\ ~ script[t]
  BY <1>1 DEF IInv, ShownInv, ClicksInOrder
<1>4. ClicksInOrder(t)'
  <2>1. Import(None) \in Awaits /\ Import(None).call = "import" /\ Import(None).choice = None
    BY DEF Import, Await, Awaits
  <2>2. PICK call : call = Import(None) /\ call.call = "import" /\ call.choice = None
    BY <2>1
  <2>3. awaited'[t] = <<call>> /\ chosen'[t] = None
    BY <1>1, <1>2, <1>3, <2>2
  <2>4. InRounds(awaited[t], chosen[t])'
    BY <2>2, <2>3 DEF InRounds, Stage
  <2>5. Scripted(t)' /\ LastIsStored(t)'
    BY <1>1, <1>3, <2>2, <2>3 DEF Scripted, LastIsStored, ClicksInOrder
  <2>6. QED
    BY <1>2, <2>3, <2>4, <2>5 DEF ClicksInOrder
<1>5. \A u \in Tabs : u # t => ClicksInOrder(u)'
  BY <1>1, <1>2, Bystander
<1>6. QED
  BY <1>4, <1>5

\* A click writes at once only if no call is in progress; until the script is there it
\* stands in line.
LEMMA ClickClicks ==
  ASSUME IInv, NEW t \in Tabs, NEW choice \in Choices, Click(t, choice)
  PROVE  \A u \in Tabs : ClicksInOrder(u)'
<1>1. /\ page[t] = "running" /\ Idle(t) /\ chosen' = [chosen EXCEPT ![t] = choice]
      /\ UNCHANGED <<page, script, module, preference>>
  BY DEF Click
<1>2. /\ chosen'[t] = choice /\ choice # None
      /\ \A u \in Tabs : u # t => chosen'[u] = chosen[u]
      /\ awaited \in [Tabs -> Seq(Awaits)]
      /\ ClicksInOrder(t)
  BY <1>1, ThemeAssumption DEF IInv, ShownInv, TypeOK, Choices
<1>3. CASE module[t]
  <2> DEFINE call == Await("setPreference", None, choice)
  <2>1. awaited[t] = <<>>
    BY <1>1, <1>2, <1>3 DEF Idle, ClicksInOrder, Scripted
  <2>2. /\ SetPreference(t, choice)
        /\ awaited' = [awaited EXCEPT ![t] = Append(awaited[t], call)]
    BY <1>3 DEF Click, InvokeSet
  <2>3. awaited'[t] = <<call>> /\ \A u \in Tabs : u # t => awaited'[u] = awaited[u]
    BY <1>2, <2>1, <2>2
  <2>4. call.call = "setPreference" /\ call.choice = choice
    BY DEF Await
  <2> HIDE DEF call
  <2>5. InRounds(awaited[t], chosen[t])'
    BY <1>2, <2>3, <2>4 DEF InRounds, Stage
  <2>6. Scripted(t)'
    BY <1>1, <1>2, <1>3 DEF Scripted, ClicksInOrder
  <2>7. LastIsStored(t)'
    BY <2>2, <2>3, <2>4, WriteFacts DEF LastIsStored
  <2>8. ClicksInOrder(t)'
    BY <1>1, <2>3, <2>5, <2>6, <2>7 DEF ClicksInOrder
  <2>9. \A u \in Tabs : u # t => ClicksInOrder(u)'
    BY <1>1, <1>2, <2>2, <2>3, Bystanders
  <2>10. QED
    BY <2>8, <2>9
<1>4. CASE ~ module[t]
  <2> DEFINE call == Import(choice)
  <2>1. /\ awaited' = [awaited EXCEPT ![t] = Append(awaited[t], call)]
        /\ UNCHANGED <<stored, unread>>
    BY <1>4 DEF Click
  <2>2. call \in Awaits /\ call.call = "import" /\ call.choice = choice
    BY DEF Import, Await, Awaits
  <2> HIDE DEF call
  <2>3. /\ awaited'[t] = Append(awaited[t], call)
        /\ \A u \in Tabs : u # t => awaited'[u] = awaited[u]
    BY <1>2, <2>1
  <2>4. \A i \in 1..Len(awaited[t]) : awaited[t][i].call = "import"
    BY <1>1, <1>2 DEF Idle, ClicksInOrder, Scripted
  <2>5. PICK calls \in Seq(Awaits) : calls = awaited[t]
    BY <1>2
  <2>6. PICK r : r = Append(calls, call)
    OBVIOUS
  <2>7. InRounds(r, choice)
    BY <1>2, <2>2, <2>4, <2>5, <2>6, Joins
  <2>8. InRounds(awaited[t], chosen[t])'
    BY <1>2, <2>3, <2>5, <2>6, <2>7 DEF InRounds
  <2>9. /\ Len(r) \in Nat /\ Len(r) > 0 /\ r[Len(r)] = call /\ r # <<>>
        /\ \A i \in 1..Len(r) : r[i].call = "import"
    BY <2>2, <2>4, <2>5, <2>6
  <2>10. Scripted(t)'
    BY <1>1, <1>2, <2>3, <2>5, <2>6, <2>9 DEF Scripted, ClicksInOrder
  <2>11. LastIsStored(t)'
    BY <2>2, <2>3, <2>5, <2>6, <2>9 DEF LastIsStored
  <2>12. ClicksInOrder(t)'
    BY <1>1, <2>3, <2>5, <2>6, <2>8, <2>9, <2>10, <2>11 DEF ClicksInOrder
  <2>13. \A u \in Tabs : u # t => ClicksInOrder(u)'
    BY <1>1, <1>2, <2>1, <2>3, Bystander
  <2>14. QED
    BY <2>12, <2>13
<1>5. QED
  BY <1>3, <1>4

\* What the first call of a line is.
LEMMA FirstCall ==
  ASSUME NEW calls \in Seq(Awaits), calls # <<>>
  PROVE  /\ Head(calls) = calls[1] /\ Head(calls) \in Awaits
         /\ Len(calls) \in Nat /\ Len(calls) > 0 /\ 1 \in 1..Len(calls)
  OBVIOUS

\* A call that goes on has its place behind those of the round before.
LEMMA ImportedClicks ==
  ASSUME IInv, NEW t \in Tabs, Imported(t)
  PROVE  \A u \in Tabs : ClicksInOrder(u)'
<1>1. PICK calls \in Seq(Awaits) : calls = awaited[t]
  BY DEF IInv, ShownInv, TypeOK
<1>2. /\ script[t] /\ calls # <<>> /\ Head(calls).call = "import"
      /\ module' = [module EXCEPT ![t] = TRUE]
      /\ awaited' = [awaited EXCEPT ![t] =
           Append(Tail(calls), Await("getPreference", PreferenceOf(stored), Head(calls).choice))]
      /\ unread' = [unread EXCEPT ![t] = @ \ {"preference"}]
      /\ UNCHANGED <<stored, page, script, preference, chosen>>
  BY <1>1 DEF Imported, browser
<1>3. Head(calls) = calls[1] /\ Head(calls) \in Awaits /\ Head(calls).choice \in Choices \cup {None}
  BY <1>2, FirstCall DEF Awaits
<1>4. PICK call : call = Await("getPreference", PreferenceOf(stored), Head(calls).choice)
  OBVIOUS
<1>5. /\ call \in Awaits /\ call.call = "getPreference" /\ call.choice = calls[1].choice
      /\ call.result = PreferenceOf(stored)
  <2>1. PreferenceOf(stored) \in Choices
    BY DEF PreferenceOf, Choices
  <2>2. call \in Awaits
    BY <1>3, <1>4, <2>1, AwaitTypes
  <2>3. QED
    BY <1>3, <1>4, <2>2 DEF Await
<1>6. Stage(call) = Stage(calls[1]) + 1
  BY <1>2, <1>3, <1>5 DEF Stage
<1>7. PICK r : r = Append(Tail(calls), call)
  OBVIOUS
<1>8. Len(r) \in Nat /\ r # <<>> /\ r[Len(r)] = call
  BY <1>2, <1>7
<1>9. /\ awaited'[t] = r /\ module'[t] = TRUE /\ unread'[t] = unread[t] \ {"preference"}
      /\ \A u \in Tabs : u # t => awaited'[u] = awaited[u] /\ module'[u] = module[u] /\ unread'[u] = unread[u]
  BY <1>2, <1>4, <1>7 DEF IInv, ShownInv, TypeOK
<1>10. ClicksInOrder(t) /\ page[t] = "running"
  BY <1>1, <1>2 DEF IInv, ShownInv
<1>11. ClicksInOrder(t)'
  <2>1. PICK choice : choice = chosen[t]
    OBVIOUS
  <2>2. InRounds(calls, choice)
    BY <1>1, <1>10, <2>1 DEF ClicksInOrder
  <2>3. InRounds(r, choice)
    BY <1>2, <1>5, <1>6, <1>7, <2>2, MovesOn
  <2>4. chosen'[t] = choice
    BY <1>2, <2>1
  <2>5. InRounds(awaited[t], chosen[t])'
    BY <1>9, <2>3, <2>4 DEF InRounds
  <2>6. Scripted(t)'
    BY <1>2, <1>9 DEF Scripted
  <2>7. LastIsStored(t)'
    BY <1>2, <1>5, <1>8, <1>9 DEF LastIsStored
  <2>8. QED
    BY <1>2, <1>8, <1>9, <1>10, <2>5, <2>6, <2>7 DEF ClicksInOrder
<1>12. \A u \in Tabs : u # t => ClicksInOrder(u)'
  BY <1>2, <1>9, Bystander
<1>13. QED
  BY <1>11, <1>12

\* The last call of a line that its first call leaves.
LEMMA LastStays ==
  ASSUME NEW calls \in Seq(Awaits), calls # <<>>
  PROVE  /\ Tail(calls) \in Seq(Awaits) /\ Len(Tail(calls)) = Len(calls) - 1
         /\ Tail(calls) = <<>> => Len(calls) = 1 /\ calls[Len(calls)] = calls[1]
         /\ Tail(calls) # <<>> => Len(calls) > 1 /\ Tail(calls)[Len(Tail(calls))] = calls[Len(calls)]
<1>1. Len(calls) \in Nat /\ Len(calls) > 0 /\ Len(Tail(calls)) = Len(calls) - 1 /\ Tail(calls) \in Seq(Awaits)
  OBVIOUS
<1>2. Tail(calls) = <<>> => Len(calls) = 1
  BY <1>1
<1>3. Tail(calls) # <<>> => Len(calls) > 1
  BY <1>1
<1>4. ASSUME Len(calls) > 1
      PROVE  Tail(calls)[Len(Tail(calls))] = calls[Len(calls)]
  BY <1>1, <1>4
<1>5. QED
  BY <1>1, <1>2, <1>3, <1>4

\* The rounds of a tab, by the names of its next line and click.
LEMMA SameRounds ==
  ASSUME NEW t, NEW calls, NEW choice, InRounds(calls, choice), awaited'[t] = calls, chosen'[t] = choice
  PROVE  InRounds(awaited[t], chosen[t])'
  BY DEF InRounds

\* The first call ends, and leaves the tab with the preference it ends with.
LEMMA Leaves ==
  ASSUME IInv, NEW t \in Tabs, script[t], awaited[t] # <<>>, NEW value \in Choices,
         preference' = [preference EXCEPT ![t] = value],
         awaited' = [awaited EXCEPT ![t] = Tail(awaited[t])],
         UNCHANGED <<stored, page, script, module, unread, chosen>>,
         Len(awaited[t]) > 1 => Stage(awaited[t][2]) = Stage(awaited[t][1]),
         Len(awaited[t]) = 1 =>
           /\ "preference" \notin unread[t] => value = PreferenceOf(stored)
           /\ chosen[t] # None => value = chosen[t]
  PROVE  \A u \in Tabs : ClicksInOrder(u)'
<1>1. PICK calls \in Seq(Awaits) : calls = awaited[t]
  BY DEF IInv, ShownInv, TypeOK
<1>2. PICK r : r = Tail(calls)
  OBVIOUS
<1>3. /\ awaited'[t] = r /\ preference'[t] = value
      /\ \A u \in Tabs : u # t => awaited'[u] = awaited[u] /\ preference'[u] = preference[u]
  BY <1>1, <1>2 DEF IInv, ShownInv, TypeOK
<1>4. /\ r = <<>> => Len(calls) = 1
      /\ r # <<>> => r[Len(r)] = calls[Len(calls)]
      /\ calls # <<>>
  BY <1>1, <1>2, LastStays
<1>5. ClicksInOrder(t) /\ page[t] = "running"
  BY DEF IInv, ShownInv
<1>6. PICK choice : choice = chosen[t]
  OBVIOUS
<1>7. InRounds(calls, choice)
  BY <1>1, <1>5, <1>6 DEF ClicksInOrder
<1>8. InRounds(r, choice)
  BY <1>1, <1>2, <1>4, <1>7, MovesOut
<1>9. InRounds(awaited[t], chosen[t])'
  <2>1. chosen'[t] = choice
    BY <1>6
  <2>2. QED
    BY <1>3, <1>8, <2>1, SameRounds
<1>10. Scripted(t)'
  BY DEF Scripted
<1>11. LastIsStored(t)'
  <2>1. CASE r = <<>>
    BY <1>1, <1>3, <1>4, <2>1 DEF LastIsStored
  <2>2. CASE r # <<>>
    BY <1>1, <1>3, <1>4, <1>5, <2>2 DEF LastIsStored, ClicksInOrder
  <2>3. QED
    BY <2>1, <2>2
<1>12. ClicksInOrder(t)'
  BY <1>1, <1>3, <1>4, <1>5, <1>9, <1>10, <1>11 DEF ClicksInOrder
<1>13. \A u \in Tabs : u # t => ClicksInOrder(u)'
  BY <1>3, Bystander
<1>14. QED
  BY <1>12, <1>13

\* getPreference answers: the toggle's own call leaves, a click's writes.
LEMMA ToldClicks ==
  ASSUME IInv, NEW t \in Tabs, Told(t)
  PROVE  \A u \in Tabs : ClicksInOrder(u)'
<1>1. PICK calls \in Seq(Awaits) : calls = awaited[t]
  BY DEF IInv, ShownInv, TypeOK
<1>2. /\ script[t] /\ calls # <<>> /\ Head(calls).call = "getPreference"
      /\ preference' = [preference EXCEPT ![t] = Head(calls).result]
      /\ UNCHANGED <<page, script, module, chosen>>
  BY <1>1 DEF Told
<1>3. /\ Head(calls) = calls[1] /\ calls[1] \in Awaits /\ calls[1].call = "getPreference"
      /\ calls[1].result \in Choices /\ calls[1].choice \in Choices \cup {None}
      /\ Len(calls) \in Nat /\ Len(calls) > 0 /\ 1 \in 1..Len(calls)
  BY <1>2, FirstCall DEF Awaits
<1>4. ClicksInOrder(t) /\ page[t] = "running"
  BY <1>1, <1>2 DEF IInv, ShownInv
<1>5. InRounds(calls, chosen[t])
  BY <1>1, <1>4 DEF ClicksInOrder
<1>6. CASE calls[1].choice = None
  <2>1. /\ awaited' = [awaited EXCEPT ![t] = Tail(awaited[t])]
        /\ preference' = [preference EXCEPT ![t] = calls[1].result]
        /\ UNCHANGED <<stored, unread>>
    BY <1>1, <1>2, <1>3, <1>6 DEF Told
  <2>2. ASSUME Len(calls) > 1, Stage(calls[2]) # Stage(calls[1])
        PROVE  FALSE
    <3>1. 1 + 1 = 2 /\ 2 \in 1..Len(calls) /\ 1 <= 2
      BY <1>3, <2>2
    <3>2. calls[1].choice = chosen[t]
      BY <1>3, <1>5, <2>2, <3>1 DEF InRounds
    <3>3. calls[2].choice = None
      BY <1>5, <1>6, <3>1, <3>2 DEF InRounds
    <3>4. Stage(calls[1]) <= Stage(calls[2])
      BY <1>3, <1>5, <3>1 DEF InRounds
    <3>5. calls[2].call \notin {"import", "getPreference"}
      BY <1>3, <2>2, <3>4 DEF Stage
    <3>6. calls[2] \in Awaits
      BY <3>1
    <3>7. calls[2].choice \in Choices
      BY <3>5, <3>6 DEF Awaits
    <3>8. QED
      BY <3>3, <3>7, ThemeAssumption DEF Choices
  <2>3. ASSUME Len(calls) = 1
        PROVE  /\ "preference" \notin unread[t] => calls[1].result = PreferenceOf(stored)
               /\ chosen[t] = None
    <3>1. calls[Len(calls)] = calls[1]
      BY <2>3
    <3>2. "preference" \notin unread[t] => calls[1].result = PreferenceOf(stored)
      BY <1>1, <1>2, <1>3, <1>4, <3>1 DEF ClicksInOrder, LastIsStored
    <3>3. calls[1].choice = chosen[t]
      BY <1>3, <1>5, <2>3 DEF InRounds
    <3>4. QED
      BY <1>6, <3>2, <3>3
  <2>4. QED
    BY <1>1, <1>2, <1>3, <2>1, <2>2, <2>3, Leaves
<1>7. CASE calls[1].choice # None
  <2>1. PICK wanted : wanted = calls[1].choice /\ wanted \in Choices
    BY <1>3, <1>7
  <2>2. PICK call : call = Await("setPreference", None, wanted)
    OBVIOUS
  <2>3. /\ SetPreference(t, wanted)
        /\ awaited' = [awaited EXCEPT ![t] = Append(Tail(calls), call)]
    BY <1>1, <1>2, <1>3, <1>7, <2>1, <2>2 DEF Told, InvokeSet
  <2>4. call \in Awaits /\ call.call = "setPreference" /\ call.choice = wanted
    <3>1. call \in Awaits
      BY <2>1, <2>2, AwaitTypes, ThemeAssumption DEF Choices
    <3>2. QED
      BY <2>2, <3>1 DEF Await
  <2>5. Stage(call) = Stage(calls[1]) + 1
    BY <1>3, <2>4 DEF Stage
  <2>6. PICK r : r = Append(Tail(calls), call)
    OBVIOUS
  <2>7. Len(r) \in Nat /\ r # <<>> /\ r[Len(r)] = call
    BY <1>2, <2>6
  <2>8. /\ awaited'[t] = r
        /\ \A u \in Tabs : u # t => awaited'[u] = awaited[u] /\ preference'[u] = preference[u]
    BY <1>2, <2>3, <2>6 DEF IInv, ShownInv, TypeOK
  <2>9. PICK choice : choice = chosen[t]
    OBVIOUS
  <2>10. InRounds(r, choice)
    BY <1>2, <1>5, <2>1, <2>4, <2>5, <2>6, <2>9, MovesOn
  <2>11. InRounds(awaited[t], chosen[t])'
    BY <1>2, <2>8, <2>9, <2>10 DEF InRounds
  <2>12. Scripted(t)'
    BY <1>2 DEF Scripted
  <2>13. PreferenceOf(stored') = wanted
    BY <2>1, <2>3, WriteFacts
  <2>14. LastIsStored(t)'
    BY <2>4, <2>7, <2>8, <2>13 DEF LastIsStored
  <2>15. ClicksInOrder(t)'
    BY <1>2, <1>4, <2>7, <2>8, <2>11, <2>12, <2>14 DEF ClicksInOrder
  <2>16. \A u \in Tabs : u # t => ClicksInOrder(u)'
    BY <1>2, <2>3, <2>8, Bystanders
  <2>17. QED
    BY <2>15, <2>16
<1>8. QED
  BY <1>6, <1>7

\* setPreference answers: all that are in progress have written.
LEMMA StoredClicks ==
  ASSUME IInv, NEW t \in Tabs, Stored(t)
  PROVE  \A u \in Tabs : ClicksInOrder(u)'
<1>1. PICK calls \in Seq(Awaits) : calls = awaited[t]
  BY DEF IInv, ShownInv, TypeOK
<1>2. /\ script[t] /\ calls # <<>> /\ Head(calls).call = "setPreference"
      /\ preference' = [preference EXCEPT ![t] = Head(calls).choice]
      /\ awaited' = [awaited EXCEPT ![t] = Tail(awaited[t])]
      /\ UNCHANGED <<stored, page, script, module, unread, chosen>>
  BY <1>1 DEF Stored, browser
<1>3. /\ Head(calls) = calls[1] /\ calls[1] \in Awaits /\ calls[1].call = "setPreference"
      /\ calls[1].choice \in Choices
      /\ Len(calls) \in Nat /\ Len(calls) > 0 /\ 1 \in 1..Len(calls)
  BY <1>2, FirstCall DEF Awaits
<1>4. ClicksInOrder(t) /\ InRounds(calls, chosen[t])
  BY <1>1 DEF IInv, ClicksInOrder
<1>5. Len(calls) > 1 => Stage(calls[2]) = Stage(calls[1])
  <2>1. SUFFICES ASSUME Len(calls) > 1 PROVE Stage(calls[2]) = Stage(calls[1])
    OBVIOUS
  <2>2. 2 \in 1..Len(calls) /\ 1 <= 2
    BY <1>3, <2>1
  <2>3. Stage(calls[1]) <= Stage(calls[2])
    BY <1>3, <1>4, <2>2 DEF InRounds
  <2>4. QED
    BY <1>3, <2>3 DEF Stage
<1>6. ASSUME Len(calls) = 1
      PROVE  /\ "preference" \notin unread[t] => calls[1].choice = PreferenceOf(stored)
             /\ calls[1].choice = chosen[t]
  <2>1. calls[Len(calls)] = calls[1]
    BY <1>6
  <2>2. "preference" \notin unread[t] => calls[1].choice = PreferenceOf(stored)
    BY <1>1, <1>2, <1>3, <1>4, <2>1 DEF ClicksInOrder, LastIsStored
  <2>3. calls[1].choice = chosen[t]
    BY <1>3, <1>4, <1>6 DEF InRounds
  <2>4. QED
    BY <2>2, <2>3
<1>7. QED
  BY <1>1, <1>2, <1>3, <1>5, <1>6, Leaves

\* Opening and closing a tab, and what goes on beside the calls.
LEMMA OtherClicks ==
  ASSUME IInv, [Next]_vars,
         \/ \E t \in Tabs : Evaluate(t) \/ ColorSchemeChanged(t) \/ Open(t) \/ Close(t)
         \/ ChangeColorScheme
         \/ UNCHANGED vars
  PROVE  \A u \in Tabs : ClicksInOrder(u)'
<1>1. ASSUME NEW t \in Tabs, Evaluate(t)
      PROVE  \A u \in Tabs : ClicksInOrder(u)'
  <2>1. /\ UNCHANGED <<stored, page, module, preference, awaited, chosen>>
        /\ script' = [script EXCEPT ![t] = TRUE]
        /\ unread' = [unread EXCEPT ![t] = unread[t] \ {"theme"}]
    BY <1>1 DEF Evaluate
  <2>2. \A u \in Tabs : (script'[u] = script[u] \/ script'[u] = TRUE)
                        /\ ("preference" \in unread[u] => "preference" \in unread'[u])
    BY <2>1 DEF IInv, ShownInv, TypeOK
  <2>3. QED
    BY <2>1, <2>2, Bystander
<1>2. ASSUME NEW t \in Tabs, ColorSchemeChanged(t)
      PROVE  \A u \in Tabs : ClicksInOrder(u)'
  <2>1. UNCHANGED <<stored, page, script, module, preference, awaited, chosen>>
    BY <1>2 DEF ColorSchemeChanged
  <2>2. unread' = unread \/ unread' = [unread EXCEPT ![t] = unread[t] \ {"theme"}]
    BY <1>2 DEF ColorSchemeChanged
  <2>3. \A u \in Tabs : "preference" \in unread[u] => "preference" \in unread'[u]
    <3>1. CASE unread' = unread
      BY <3>1
    <3>2. CASE unread' = [unread EXCEPT ![t] = unread[t] \ {"theme"}]
      BY <3>2 DEF IInv, ShownInv, TypeOK
    <3>3. QED
      BY <2>2, <3>1, <3>2
  <2>4. QED
    BY <2>1, <2>3, Bystander
<1>3. ASSUME NEW t \in Tabs, Open(t)
      PROVE  \A u \in Tabs : ClicksInOrder(u)'
  <2>1. /\ page[t] = "closed" /\ page' = [page EXCEPT ![t] = "opened"]
        /\ unread' = [unread EXCEPT ![t] = {"preference"}]
        /\ UNCHANGED <<stored, script, module, preference, awaited, chosen>>
    BY <1>3 DEF Open
  <2>2. /\ page'[t] = "opened" /\ unread'[t] = {"preference"}
        /\ \A u \in Tabs : u # t => page'[u] = page[u] /\ unread'[u] = unread[u]
    BY <2>1 DEF IInv, ShownInv, TypeOK
  <2>3. ClicksInOrder(t) /\ awaited[t] = <<>> /\ ~ script[t] /\ chosen[t] = None
    BY <2>1 DEF IInv, ShownInv, ClicksInOrder
  <2>4. InRounds(awaited[t], chosen[t])'
    BY <2>1, <2>3 DEF InRounds
  <2>5. Scripted(t)' /\ LastIsStored(t)'
    BY <2>1, <2>2, <2>3 DEF Scripted, LastIsStored, ClicksInOrder
  <2>6. ClicksInOrder(t)'
    BY <2>1, <2>2, <2>3, <2>4, <2>5 DEF ClicksInOrder
  <2>7. \A u \in Tabs : u # t => ClicksInOrder(u)'
    BY <2>1, <2>2, Bystander
  <2>8. QED
    BY <2>6, <2>7
<1>4. ASSUME NEW t \in Tabs, Close(t)
      PROVE  \A u \in Tabs : ClicksInOrder(u)'
  <2>1. /\ page' = [page EXCEPT ![t] = "closed"]
        /\ script' = [script EXCEPT ![t] = FALSE]
        /\ module' = [module EXCEPT ![t] = FALSE]
        /\ preference' = [preference EXCEPT ![t] = "auto"]
        /\ awaited' = [awaited EXCEPT ![t] = <<>>]
        /\ chosen' = [chosen EXCEPT ![t] = None]
        /\ unread' = [unread EXCEPT ![t] = {"preference"}]
        /\ UNCHANGED stored
    BY <1>4 DEF Close
  <2>2. /\ page'[t] = "closed" /\ script'[t] = FALSE /\ module'[t] = FALSE /\ awaited'[t] = <<>>
        /\ chosen'[t] = None /\ unread'[t] = {"preference"}
    BY <2>1 DEF IInv, ShownInv, TypeOK
  <2>3. \A u \in Tabs : u # t =>
          /\ page'[u] = page[u] /\ script'[u] = script[u] /\ module'[u] = module[u]
          /\ preference'[u] = preference[u] /\ awaited'[u] = awaited[u] /\ chosen'[u] = chosen[u]
          /\ unread'[u] = unread[u]
    BY <2>1 DEF IInv, ShownInv, TypeOK
  <2>4. InRounds(awaited[t], chosen[t])'
    BY <2>2 DEF InRounds
  <2>5. Scripted(t)' /\ LastIsStored(t)'
    BY <2>2 DEF Scripted, LastIsStored
  <2>6. ClicksInOrder(t)'
    BY <2>2, <2>4, <2>5 DEF ClicksInOrder
  <2>7. \A u \in Tabs : u # t => ClicksInOrder(u)'
    BY <2>1, <2>3, Bystander
  <2>8. QED
    BY <2>6, <2>7
<1>5. CASE ChangeColorScheme
  BY <1>5, Bystander DEF ChangeColorScheme
<1>6. CASE UNCHANGED vars
  BY <1>6, Bystander DEF vars, browser
<1>7. QED
  BY <1>1, <1>2, <1>3, <1>4, <1>5, <1>6

\* Nothing is in progress at first.
LEMMA InitClicks == ASSUME Init PROVE \A t \in Tabs : ClicksInOrder(t)
<1>1. SUFFICES ASSUME NEW t \in Tabs PROVE ClicksInOrder(t)
  OBVIOUS
<1>2. /\ page[t] = "closed" /\ script[t] = FALSE /\ module[t] = FALSE /\ awaited[t] = <<>>
      /\ chosen[t] = None /\ unread[t] = {"preference"}
  BY DEF Init
<1>3. InRounds(awaited[t], chosen[t])
  BY <1>2 DEF InRounds
<1>4. Scripted(t) /\ LastIsStored(t)
  BY <1>2 DEF Scripted, LastIsStored
<1>5. QED
  BY <1>2, <1>3, <1>4 DEF ClicksInOrder

\* Both parts together are inductive.
LEMMA StepKeeps ==
  ASSUME IInv, [Next]_vars
  PROVE  IInv'
<1>1. ShownInv'
  BY StepShown DEF IInv
<1>2. \A u \in Tabs : ClicksInOrder(u)'
  BY RenderClicks, ClickClicks, ImportedClicks, ToldClicks, StoredClicks, OtherClicks
  DEF Next, Work, Choices
<1>3. QED
  BY <1>1, <1>2 DEF IInv

-----------------------------------------------------------------------------
(* Theorems                                                                *)

\* The inductive invariant: what is shown, and the order of the calls of each tab.
THEOREM ThemeInvariant == Spec => []IInv
<1>1. Init => IInv
  BY InitShown, InitClicks DEF IInv
<1>2. IInv /\ [Next]_vars => IInv'
  BY StepKeeps
<1>3. QED
  BY <1>1, <1>2, PTL DEF Spec

\* Every variable keeps its type.
THEOREM ThemeTypes == Spec => []TypeOK
<1>1. IInv => TypeOK
  BY DEF IInv, ShownInv
<1>2. QED
  BY <1>1, ThemeInvariant, PTL

\* A tab that was told of the color scheme shows what the stored preference
\* resolves to, until another tab writes.
THEOREM ThemeIsResolved == Spec => []ShowsResolved
<1>1. IInv => ShowsResolved
  BY DEF IInv, ShownInv
<1>2. QED
  BY <1>1, ThemeInvariant, PTL

\* When nothing is in progress the toggle shows what is stored, and that is the
\* last click of the tab, however the clicks and the import were interleaved.
THEOREM LastClickWins == Spec => []LastClickCounts
<1>1. IInv => LastClickCounts
  BY DEF IInv, ClicksInOrder, LastIsStored, LastClickCounts
<1>2. QED
  BY <1>1, ThemeInvariant, PTL

\* The theme that the script of the page applied is the one the application applies
\* when it takes over.
THEOREM NothingFlashes == Spec => NoFlash
<1>1. ASSUME IInv, [Next]_vars, NEW t \in Tabs,
             ~ script[t], script'[t], page[t] = "running", applied[t] = Early
      PROVE  applied'[t] = applied[t]
  <2>1. script # script'
    BY <1>1
  <2>2. PICK u \in Tabs : Evaluate(u) \/ Close(u)
    BY <1>1, <2>1
    DEF Next, Work, vars, browser, Render, ColorSchemeChanged, Imported, Told, Stored, Open, Click, ChangeColorScheme
  <2>3. CASE Evaluate(u)
    <3>1. /\ script' = [script EXCEPT ![u] = TRUE]
          /\ applied' = [applied EXCEPT ![u] = Resolve(PreferenceOf(stored), os)]
      BY <2>3 DEF Evaluate, Apply
    <3>2. u = t
      BY <1>1, <3>1 DEF IInv, ShownInv, TypeOK
    <3>3. applied'[t] = Resolve(PreferenceOf(stored), os)
      BY <1>1, <3>1, <3>2 DEF IInv, ShownInv, TypeOK
    <3>4. Resolve(PreferenceOf(stored), os) = Early
      <4>1. stored \in {"light", "dark", "absent", "other"} /\ os \in {"light", "dark"}
        BY <1>1 DEF IInv, ShownInv, TypeOK
      <4>2. PreferenceOf(stored) = IF stored \in {"light", "dark"} THEN stored ELSE "auto"
        BY DEF PreferenceOf
      <4>3. QED
        BY <4>1, <4>2 DEF Resolve, Early
    <3>5. QED
      BY <1>1, <3>3, <3>4
  <2>4. CASE Close(u)
    <3>1. script' = [script EXCEPT ![u] = FALSE]
      BY <2>4 DEF Close
    <3>2. QED
      BY <1>1, <3>1 DEF IInv, ShownInv, TypeOK
  <2>5. QED
    BY <2>2, <2>3, <2>4
<1>2. IInv /\ [Next]_vars =>
        [\A t \in Tabs : ~ script[t] /\ script'[t] /\ page[t] = "running" /\ applied[t] = Early =>
          applied'[t] = applied[t]]_vars
  BY <1>1
<1>3. QED
  BY <1>2, ThemeInvariant, PTL DEF Spec, NoFlash
=============================================================================
