--------------------------- MODULE ExplorerProofs ---------------------------
(***************************************************************************)
(* Proofs about the explorer: ExplorerState, for any plugins, groups and   *)
(* number of calls, however they overlap; and its DetailsPane, for any     *)
(* nodes and windows, with reads that return in any order.                 *)
(***************************************************************************)
EXTENDS ExplorerState, DetailsPane, SequenceFacts

-----------------------------------------------------------------------------
(* Tasks, lists and steps                                                  *)

\* A call that is not in progress.
LEMMA IdleFacts == Idle \in TaskSet /\ Idle.at = "idle"
BY DEF Idle, TaskSet, Keys

LEMMA BecomeFacts ==
  ASSUME TypeOK, NEW t \in Tasks, NEW state \in TaskSet, Become(t, state)
  PROVE  /\ task' \in [Tasks -> TaskSet] /\ task'[t] = state
         /\ \A u \in Tasks : u # t => task'[u] = task[u]
BY DEF TypeOK, Become

LEMMA ListFacts ==
  ASSUME TypeOK, NEW p \in Plugins
  PROVE  /\ Append(loaded, p) \in Seq(Plugins)
         /\ Contains(Append(loaded, p), p)
         /\ \A q : Contains(loaded, q) => Contains(Append(loaded, p), q)
<1> DEFINE r == Append(loaded, p)
<1>1. loaded \in Seq(Plugins)
  BY DEF TypeOK
<1>2. /\ r \in Seq(Plugins) /\ Len(r) = Len(loaded) + 1 /\ Len(loaded) \in Nat
      /\ \A j \in 1..Len(loaded) : r[j] = loaded[j]
      /\ r[Len(loaded) + 1] = p
  BY <1>1
<1> HIDE DEF r
<1>3. Contains(r, p)
  BY <1>2 DEF Contains
<1>4. \A q : Contains(loaded, q) => Contains(r, q)
  BY <1>2 DEF Contains
<1>5. QED
  BY <1>2, <1>3, <1>4 DEF r

\* RemoveFirst leaves the other plugins.
LEMMA RemovedFacts ==
  ASSUME TypeOK, NEW p, Contains(loaded, p)
  PROVE  /\ RemoveFirst(loaded, p) \in Seq(Plugins)
         /\ \A q : q # p /\ Contains(loaded, q) => Contains(RemoveFirst(loaded, p), q)
<1>1. loaded \in Seq(Plugins) /\ Len(loaded) \in Nat
  BY DEF TypeOK
<1>2. PICK i \in 1..Len(loaded) : loaded[i] = p /\ RemoveFirst(loaded, p) = RemoveAt(loaded, i)
  BY <1>1, RemoveFirstFacts
<1> DEFINE r == RemoveAt(loaded, i)
<1>3. /\ r \in Seq(Plugins) /\ Len(r) = Len(loaded) - 1
      /\ \A j \in 1..(Len(loaded) - 1) : r[j] = IF j < i THEN loaded[j] ELSE loaded[j + 1]
  BY <1>1, RemoveAtFacts
<1> HIDE DEF r
<1>4. ASSUME NEW q, q # p, Contains(loaded, q)
      PROVE  Contains(r, q)
  <2>1. PICK j \in 1..Len(loaded) : loaded[j] = q
    BY <1>4 DEF Contains
  <2>2. CASE j < i
    <3>1. j \in 1..(Len(loaded) - 1) /\ r[j] = q
      BY <1>1, <1>3, <2>1, <2>2
    <3>2. QED
      BY <1>3, <3>1 DEF Contains
  <2>3. CASE j > i
    <3>1. j - 1 \in 1..(Len(loaded) - 1) /\ ~ (j - 1 < i) /\ (j - 1) + 1 = j
      BY <1>1, <2>1, <2>3
    <3>2. r[j - 1] = q
      BY <1>3, <2>1, <3>1
    <3>3. QED
      BY <1>3, <3>1, <3>2 DEF Contains
  <2>4. j # i
    BY <1>2, <1>4, <2>1
  <2>5. QED
    BY <1>1, <2>2, <2>3, <2>4
<1>5. QED
  BY <1>2, <1>3, <1>4 DEF r

\* What RevealAsync loads: the top level, then the groups on the path, no two alike.
LEMMA StepsFacts ==
  /\ Len(Path) \in Nat /\ Len(Steps) = Len(Path) + 1
  /\ Steps[1] = TopLevel
  /\ \A j \in 1..Len(Path) : Steps[j + 1] = Path[j] /\ Path[j] \in Groups
  /\ \A j \in 1..Len(Steps) : Steps[j] \in Keys /\ (j # 1 => Steps[j] \in Groups)
  /\ \A j, k \in 1..Len(Steps) : Steps[j] = Steps[k] => j = k
<1>1. Path \in Seq(Groups) /\ TopLevel \notin Groups /\ IsInjective(Path)
  BY ExplorerAssumption
<1>2. Len(Path) \in Nat /\ DOMAIN Path = 1..Len(Path) /\ \A j \in 1..Len(Path) : Path[j] \in Groups
  BY <1>1
<1>3. <<TopLevel>> \in Seq({TopLevel} \cup Groups) /\ Path \in Seq({TopLevel} \cup Groups)
  BY <1>1
<1>4. /\ Len(Steps) = 1 + Len(Path)
      /\ \A j \in 1..(1 + Len(Path)) : Steps[j] = IF j <= 1 THEN TopLevel ELSE Path[j - 1]
  BY <1>2, <1>3, ConcatProperties DEF Steps
<1>5. Len(Steps) = Len(Path) + 1 /\ Steps[1] = TopLevel
  BY <1>2, <1>4
<1>6. \A j \in 1..Len(Path) : Steps[j + 1] = Path[j]
  BY <1>2, <1>4
<1>7. \A j \in 1..Len(Steps) : j # 1 => j - 1 \in 1..Len(Path) /\ Steps[j] = Path[j - 1]
  BY <1>2, <1>4
<1>8. \A j \in 1..Len(Steps) : Steps[j] \in Keys /\ (j # 1 => Steps[j] \in Groups)
  BY <1>2, <1>5, <1>7 DEF Keys
<1>9. ASSUME NEW j \in 1..Len(Steps), NEW k \in 1..Len(Steps), Steps[j] = Steps[k]
      PROVE  j = k
  <2>1. CASE j = 1 \/ k = 1
    BY <1>1, <1>5, <1>8, <1>9, <2>1
  <2>2. CASE j # 1 /\ k # 1
    <3>1. j - 1 \in 1..Len(Path) /\ k - 1 \in 1..Len(Path) /\ Path[j - 1] = Path[k - 1]
      BY <1>7, <1>9, <2>2
    <3>2. j - 1 = k - 1
      BY <1>1, <1>2, <3>1 DEF IsInjective
    <3>3. QED
      BY <1>2, <1>5, <3>2
  <2>3. QED
    BY <2>1, <2>2
<1>10. QED
  BY <1>2, <1>5, <1>6, <1>8, <1>9

LEMMA PositionFacts ==
  ASSUME NEW n \in 1..Len(Steps), NEW key, Steps[n] = key
  PROVE  Position(key) = n
<1>1. Steps[Position(key)] = key /\ Position(key) \in 1..Len(Steps)
  BY DEF Position
<1>2. QED
  BY <1>1, StepsFacts

-----------------------------------------------------------------------------
(* The parts of the invariant, for several actions at once                 *)

\* The go-tos are left alone: what a call does spares u when it changes neither the
\* active plugin that u needs nor closes a group that u has opened.
Spares(u) ==
  task[u].at = "revealing" /\ u \notin crossed' =>
    /\ u \notin crossed
    /\ active = task[u].plugin => active' = active
    /\ Opened(u) \cap expanded[task[u].plugin] \subseteq expanded'[task[u].plugin]

\* A call changes what it is at, and spares the others.
LEMMA OthersKept ==
  ASSUME IInv, NEW t \in Tasks, NEW state \in TaskSet, Become(t, state),
         \A u \in Tasks : u # t => Spares(u)
  PROVE  /\ task' \in [Tasks -> TaskSet] /\ task'[t] = state
         /\ \A u \in Tasks : u # t => (ReadsOwn(u) /\ Undisturbed(u))' /\ task'[u] = task[u]
<1>1. /\ task' \in [Tasks -> TaskSet] /\ task'[t] = state
      /\ \A u \in Tasks : u # t => task'[u] = task[u]
  BY BecomeFacts DEF IInv
<1>2. ASSUME NEW u \in Tasks, u # t
      PROVE  (ReadsOwn(u) /\ Undisturbed(u))'
  <2>1. ReadsOwn(u) /\ Undisturbed(u) /\ Spares(u) /\ task'[u] = task[u]
    BY <1>1, <1>2 DEF IInv
  <2>2. ReadsOwn(u)'
    BY <2>1 DEF ReadsOwn
  <2>3. Opened(u)' = Opened(u)
    BY <2>1 DEF Opened
  <2>4. Undisturbed(u)'
    BY <2>1, <2>3 DEF Undisturbed, Spares
  <2>5. QED
    BY <2>2, <2>4
<1>3. QED
  BY <1>1, <1>2

\* A call ends, or becomes something other than a go-to that reveals.
LEMMA AllKept ==
  ASSUME IInv, NEW t \in Tasks, NEW state \in TaskSet, Become(t, state),
         \A u \in Tasks : u # t => Spares(u),
         state.at # "revealing", state.at # "idle" => state.plugin \in Plugins
  PROVE  /\ task' \in [Tasks -> TaskSet]
         /\ \A u \in Tasks : (ReadsOwn(u) /\ Undisturbed(u))'
         /\ task'[t] = state /\ \A u \in Tasks : u # t => task'[u] = task[u]
<1>1. /\ task' \in [Tasks -> TaskSet] /\ task'[t] = state
      /\ \A u \in Tasks : u # t => (ReadsOwn(u) /\ Undisturbed(u))' /\ task'[u] = task[u]
  BY OthersKept
<1>2. (ReadsOwn(t) /\ Undisturbed(t))'
  BY <1>1 DEF ReadsOwn, Undisturbed
<1>3. QED
  BY <1>1, <1>2

\* When nobody reveals, the screen shows the active plugin, or none.
LEMMA ScreenFacts ==
  ASSUME IInv
  PROVE  /\ active = NoPlugin => shown = NoPlugin
         /\ shown \notin {active, NoPlugin} => RevealingInto(active) # {}
<1>1. RevealingInto(NoPlugin) = {}
  BY ExplorerAssumption DEF IInv, ReadsOwn, RevealingInto
<1>2. QED
  BY <1>1 DEF IInv, ScreenIsRight

\* A call that leaves the list and the active plugin alone, and renders unless it is
\* no go-to.
LEMMA Kept ==
  ASSUME IInv, NEW t \in Tasks, task[t].at # "removing",
         NEW state \in TaskSet, Become(t, state),
         state.at # "revealing", state.at # "idle" => state.plugin \in Plugins,
         \A u \in Tasks : u # t => Spares(u),
         UNCHANGED <<loaded, active>>,
         shown' = active \/ (shown' = shown /\ task[t].at # "revealing"),
         selected' \in Plugins \cup {NoPlugin},
         expanded' \in [Plugins -> SUBSET Groups],
         children' \in [Plugins -> [Keys -> Plugins \cup {NoPlugin}]],
         errors' \in [Plugins -> SUBSET Keys]
  PROVE  IInv'
<1>1. /\ task' \in [Tasks -> TaskSet]
      /\ \A u \in Tasks : (ReadsOwn(u) /\ Undisturbed(u))'
      /\ task'[t] = state /\ \A u \in Tasks : u # t => task'[u] = task[u]
  BY AllKept
<1>2. TypeOK'
  BY <1>1 DEF IInv, TypeOK
<1>3. OneIsActive'
  BY <1>1 DEF IInv, OneIsActive
<1>4. ScreenIsRight'
  <2>1. CASE shown' = active
    BY <2>1 DEF ScreenIsRight
  <2>2. CASE shown' = shown /\ task[t].at # "revealing"
    <3>1. RevealingInto(active) \subseteq RevealingInto(active)'
      BY <1>1, <2>2 DEF RevealingInto
    <3>2. QED
      BY <2>2, <3>1 DEF IInv, ScreenIsRight
  <2>3. QED
    BY <2>1, <2>2
<1>5. QED
  BY <1>1, <1>2, <1>3, <1>4 DEF IInv

\* The calls that a step of EnsureChildrenAsync leaves: the same ones, or one that reads.
LEMMA EnsureFacts ==
  ASSUME IInv, NEW t \in Tasks, task[t].at = "idle", NEW p \in Plugins, NEW key \in Keys,
         NEW owner \in Plugins \cup {NoPlugin},
         EnsureChildren(t, p, key, owner) \/ UNCHANGED task
  PROVE  \E state \in TaskSet :
           /\ Become(t, state) /\ state.at \in {"idle", "reading"}
           /\ state.at # "idle" => state.plugin \in Plugins
<1>1. task[t] \in TaskSet /\ (task' = task => Become(t, task[t]))
  BY DEF IInv, TypeOK, Become
<1> DEFINE r == Reading("reading", p, key, owner)
<1>2. r \in TaskSet /\ r.at = "reading" /\ r.plugin = p
  BY DEF Reading, Idle, TaskSet, Keys
<1>3. task' = task \/ Become(t, r)
  BY DEF EnsureChildren
<1> HIDE DEF r
<1>4. QED
  BY <1>1, <1>2, <1>3

LEMMA StoreFacts ==
  ASSUME IInv, NEW t \in Tasks, task[t].at # "idle", NEW ok \in BOOLEAN, Store(t, ok)
  PROVE  /\ children' \in [Plugins -> [Keys -> Plugins \cup {NoPlugin}]]
         /\ errors' \in [Plugins -> SUBSET Keys]
<1>1. /\ task[t].plugin \in Plugins /\ task[t].owner \in Plugins \cup {NoPlugin}
      /\ task[t].key \in Keys
      /\ children \in [Plugins -> [Keys -> Plugins \cup {NoPlugin}]]
      /\ errors \in [Plugins -> SUBSET Keys]
  BY DEF IInv, ReadsOwn, TypeOK, TaskSet
<1>2. \/ children' = children
      \/ children' = [children EXCEPT ![task[t].plugin][task[t].key] = task[t].owner]
  BY DEF Store
<1>3. \/ errors' = errors
      \/ errors' = [errors EXCEPT ![task[t].plugin] = @ \cup {task[t].key}]
  BY DEF Store
<1>4. errors' \in [Plugins -> SUBSET Keys]
  BY <1>1, <1>3
<1>5. children' \in [Plugins -> [Keys -> Plugins \cup {NoPlugin}]]
  BY <1>1, <1>2
<1>6. QED
  BY <1>4, <1>5

\* RevealAsync from step n on: it opens the groups it passes, and stops at the first one
\* that is not loaded or at the end.
LEMMA RevealFacts ==
  ASSUME IInv, NEW t \in Tasks, NEW q \in Plugins, NEW n \in 1..(Len(Steps) + 1),
         NEW lost \in BOOLEAN, RevealFrom(t, q, n, lost)
  PROVE  LET whole == ~ lost /\ \A j \in 2..(n - 1) : Steps[j] \in expanded[q] IN
         /\ expanded' \in [Plugins -> SUBSET Groups]
         /\ \A p \in Plugins : expanded[p] \subseteq expanded'[p]
         /\ \/ /\ \E stop \in 1..Len(Steps) :
                    /\ Become(t, [Reading("revealing", q, Steps[stop], q) EXCEPT !.lost = lost])
                    /\ whole => \A j \in 2..stop : Steps[j] \in expanded'[q]
               /\ UNCHANGED <<selected, shown, busy, scroll>>
            \/ /\ selected' = q /\ shown' = active'
               /\ Become(t, Idle)
               /\ whole => \A k \in 1..Len(Path) : Path[k] \in expanded'[q]
<1> DEFINE whole == ~ lost /\ \A j \in 2..(n - 1) : Steps[j] \in expanded[q]
           missing == {j \in n..Len(Steps) : ~ Cached(q, Steps[j])}
           stop == IF missing = {} THEN Len(Steps) ELSE Min(missing)
           opened == {Steps[j] : j \in (n..stop) \ {1}}
           reads == [Reading("revealing", q, Steps[stop], q) EXCEPT !.lost = lost]
<1>1. /\ expanded' = IF lost THEN expanded ELSE [expanded EXCEPT ![q] = @ \cup opened]
      /\ \/ /\ missing # {}
            /\ Become(t, reads)
            /\ UNCHANGED <<selected, shown, busy, scroll>>
         \/ /\ missing = {}
            /\ selected' = q /\ shown' = active'
            /\ Become(t, Idle)
  BY DEF RevealFrom, Notify
<1>2. Len(Steps) \in Nat /\ Len(Steps) >= 1 /\ n \in Nat /\ n >= 1
  BY StepsFacts
<1>3. missing # {} => stop \in missing
  <2>1. missing \in SUBSET Nat
    BY <1>2
  <2>2. QED
    BY <2>1, MinFacts
<1>4. /\ stop \in Nat /\ stop <= Len(Steps)
      /\ missing # {} => stop \in 1..Len(Steps) /\ stop >= n
      /\ missing = {} => stop = Len(Steps)
  BY <1>2, <1>3
<1> HIDE DEF missing, stop
<1>5. opened \subseteq Groups
  BY <1>2, <1>4, StepsFacts
<1>6. \A j \in n..stop : j = 1 \/ Steps[j] \in opened
  OBVIOUS
<1> HIDE DEF opened
<1>7. /\ expanded' \in [Plugins -> SUBSET Groups]
      /\ \A p \in Plugins : expanded[p] \subseteq expanded'[p]
      /\ ~ lost => expanded'[q] = expanded[q] \cup opened
  BY <1>1, <1>5 DEF IInv, TypeOK
<1>8. whole => \A j \in 2..stop : Steps[j] \in expanded'[q]
  <2>1. SUFFICES ASSUME whole, NEW j \in 2..stop PROVE Steps[j] \in expanded'[q]
    OBVIOUS
  <2>2. j # 1 /\ (j \in 2..(n - 1) \/ j \in n..stop)
    BY <1>2, <1>4
  <2>3. QED
    BY <1>6, <1>7, <2>1, <2>2
<1> HIDE DEF whole
<1>9. CASE missing # {}
  BY <1>1, <1>4, <1>7, <1>8, <1>9 DEF whole
<1>10. CASE missing = {}
  <2>1. ASSUME whole, NEW k \in 1..Len(Path)
        PROVE  Path[k] \in expanded'[q]
    <3>1. k + 1 \in 2..stop /\ Steps[k + 1] = Path[k]
      BY <1>2, <1>4, <1>10, StepsFacts
    <3>2. QED
      BY <1>8, <2>1, <3>1
  <2>2. QED
    BY <1>1, <1>7, <1>10, <2>1 DEF whole
<1>11. QED
  BY <1>9, <1>10

-----------------------------------------------------------------------------
(* The invariant is kept by every step                                     *)

LEMMA InitOK == Init => IInv
<1> SUFFICES ASSUME Init PROVE IInv
  OBVIOUS
<1>1. \A t \in Tasks : task[t] = Idle
  BY DEF Init
<1>2. TypeOK
  <2>1. loaded \in Seq(Plugins)
    BY DEF Init
  <2>2. task \in [Tasks -> TaskSet]
    BY IdleFacts DEF Init
  <2>3. QED
    BY <2>1, <2>2 DEF Init, TypeOK
<1>3. \A t \in Tasks : ReadsOwn(t) /\ Undisturbed(t)
  BY <1>1, IdleFacts DEF ReadsOwn, Undisturbed
<1>4. OneIsActive /\ ScreenIsRight
  BY DEF Init, OneIsActive, ScreenIsRight
<1>5. QED
  BY <1>2, <1>3, <1>4 DEF IInv

\* The call that a `foreach` over the sources leaves.
LEMMA NextSourceFacts ==
  ASSUME TypeOK, NEW t \in Tasks, NEW plugins \in Seq(Plugins), NEW instances,
         NextSource(t, plugins, instances)
  PROVE  \E state \in TaskSet :
           /\ Become(t, state) /\ state.plugin \in Plugins
           /\ \/ state.at = "adding"
              \/ state.at = "found" /\ Contains(plugins, state.plugin)
<1>1. PICK p \in Plugins :
        \/ Become(t, Waiting("adding", p))
        \/ Contains(plugins, p) /\ Become(t, Waiting("found", p))
  BY DEF NextSource
<1>2. \A at \in {"adding", "found"} :
        /\ Waiting(at, p) \in TaskSet /\ Waiting(at, p).at = at
        /\ Waiting(at, p).plugin = p
  BY DEF Waiting, Idle, TaskSet, Keys
<1>3. QED
  BY <1>1, <1>2

LEMMA MoreSourcesFacts ==
  ASSUME TypeOK, NEW t \in Tasks, NEW plugins \in Seq(Plugins), NEW instances,
         MoreSources(t, plugins, instances)
  PROVE  /\ shown' \in {shown, active'}
         /\ \E state \in TaskSet :
              /\ Become(t, state)
              /\ \/ state.at = "idle"
                 \/ /\ state.plugin \in Plugins
                    /\ \/ state.at = "adding"
                       \/ state.at = "found" /\ Contains(plugins, state.plugin)
<1>1. shown' \in {shown, active'}
  BY DEF MoreSources, Notify
<1>2. CASE NextSource(t, plugins, instances)
  BY <1>1, <1>2, NextSourceFacts
<1>3. CASE Become(t, Idle)
  BY <1>1, <1>3, IdleFacts
<1>4. QED
  BY <1>2, <1>3 DEF MoreSources

LEMMA AddKeeps ==
  ASSUME IInv, NEW t \in Tasks, Add(t)
  PROVE  IInv'
<1>1. /\ task[t].at = "idle" /\ NextSource(t, loaded, added)
      /\ UNCHANGED <<loaded, active, selected, shown, expanded, children, errors, crossed>>
  BY DEF Add, Free, trees
<1>2. PICK state \in TaskSet :
        Become(t, state) /\ state.plugin \in Plugins /\ state.at \in {"adding", "found"}
  BY <1>1, NextSourceFacts DEF IInv, TypeOK
<1>3. \A u \in Tasks : Spares(u)
  BY <1>1 DEF Spares
<1>4. QED
  BY <1>1, <1>2, <1>3, Kept DEF IInv, TypeOK

\* A source has been added, or not.
LEMMA AddedKeeps ==
  ASSUME IInv, NEW t \in Tasks, task[t].at \in {"adding", "found"},
         loaded' \in Seq(Plugins), loaded' = loaded \/ active' # NoPlugin,
         active' = active \/ ActivateIfNone(task[t].plugin),
         MoreSources(t, loaded', added) \/ \E instances : MoreSources(t, loaded', instances),
         UNCHANGED <<selected, expanded, children, errors, crossed>>
  PROVE  IInv'
<1>1. PICK state \in TaskSet :
        /\ Become(t, state) /\ state.at \in {"idle", "adding", "found"}
        /\ state.at # "idle" => state.plugin \in Plugins
  BY MoreSourcesFacts DEF IInv
<1>2. shown' \in {shown, active'}
  BY MoreSourcesFacts DEF IInv
<1>3. /\ task[t].plugin \in Plugins /\ active' \in Plugins \cup {NoPlugin}
      /\ active # NoPlugin => active' = active
  BY DEF IInv, ReadsOwn, TypeOK, ActivateIfNone
<1>4. \A u \in Tasks : Spares(u)
  BY <1>3, ExplorerAssumption DEF IInv, ReadsOwn, Spares
<1>5. /\ task' \in [Tasks -> TaskSet]
      /\ \A u \in Tasks : (ReadsOwn(u) /\ Undisturbed(u))'
      /\ task'[t] = state /\ \A u \in Tasks : u # t => task'[u] = task[u]
  BY <1>1, <1>4, AllKept
<1>6. TypeOK'
  BY <1>2, <1>3, <1>5 DEF IInv, TypeOK
<1>7. OneIsActive'
  <2>1. active' = NoPlugin => loaded' = loaded /\ active = NoPlugin
    BY <1>3
  <2>2. \A u \in Tasks : task[u].at = "removing" => task'[u].at = "removing"
    BY <1>5
  <2>3. QED
    BY <2>1, <2>2 DEF IInv, OneIsActive
<1>8. ScreenIsRight'
  <2>1. CASE shown' = active' \/ shown = NoPlugin
    BY <1>2, <2>1 DEF ScreenIsRight
  <2>2. CASE shown' = shown /\ shown # NoPlugin
    <3>1. active # NoPlugin /\ active' = active
      BY <1>3, <2>2, ScreenFacts
    <3>2. RevealingInto(active) \subseteq RevealingInto(active)'
      BY <1>5, <3>1 DEF RevealingInto
    <3>3. QED
      BY <2>2, <3>1, <3>2 DEF IInv, ScreenIsRight
  <2>3. QED
    BY <1>2, <2>1, <2>2
<1>9. QED
  BY <1>5, <1>6, <1>7, <1>8 DEF IInv

LEMMA AddEndsKeeps ==
  ASSUME IInv, NEW t \in Tasks, AddEnds(t)
  PROVE  IInv'
<1> DEFINE p == task[t].plugin
<1>1. /\ task[t].at = "adding"
      /\ UNCHANGED <<selected, expanded, children, errors, crossed>>
      /\ \/ /\ loaded' = Append(loaded, p) /\ ActivateIfNone(p)
            /\ MoreSources(t, loaded', added)
         \/ /\ UNCHANGED <<loaded, active>>
            /\ MoreSources(t, loaded', added \ {p})
  BY DEF AddEnds, trees
<1>2. p \in Plugins /\ p # NoPlugin /\ loaded \in Seq(Plugins)
  BY <1>1, ExplorerAssumption DEF IInv, ReadsOwn, TypeOK
<1>3. loaded' \in Seq(Plugins) /\ (loaded' = loaded \/ active' # NoPlugin)
  BY <1>1, <1>2, ListFacts DEF IInv, ActivateIfNone
<1>4. \E instances : MoreSources(t, loaded', instances)
  BY <1>1
<1>5. active' = active \/ ActivateIfNone(p)
  BY <1>1
<1>6. QED
  BY <1>1, <1>3, <1>4, <1>5, AddedKeeps

LEMMA FoundEndsKeeps ==
  ASSUME IInv, NEW t \in Tasks, FoundEnds(t)
  PROVE  IInv'
<1>1. /\ task[t].at = "found" /\ ActivateIfNone(task[t].plugin)
      /\ UNCHANGED <<loaded, selected, expanded, children, errors, crossed>>
      /\ MoreSources(t, loaded', added)
  BY DEF FoundEnds, trees
<1>2. loaded' \in Seq(Plugins)
  BY <1>1 DEF IInv, TypeOK
<1>3. QED
  BY <1>1, <1>2, AddedKeeps

\* The call of u after the removal of p: what reads p's tree is on its own.
Cut(state, p) ==
  IF state.plugin = p /\ state.at \in {"reading", "revealing"}
  THEN [state EXCEPT !.orphan = TRUE, !.lost = TRUE]
  ELSE state

LEMMA CutFacts ==
  ASSUME NEW state \in TaskSet, NEW p
  PROVE  /\ Cut(state, p) \in TaskSet
         /\ Cut(state, p).at = state.at /\ Cut(state, p).plugin = state.plugin
         /\ Cut(state, p).key = state.key /\ Cut(state, p).owner = state.owner
         /\ Cut(state, p) = state \/ (state.plugin = p /\ state.at \in {"reading", "revealing"})
BY DEF Cut, TaskSet

LEMMA RemovePluginFacts ==
  ASSUME IInv, NEW t \in Tasks, NEW p \in Plugins, RemovePlugin(t, p)
  PROVE  /\ task' \in [Tasks -> TaskSet]
         /\ task'[t].at = "removing" /\ task'[t].plugin = p
         /\ \A u \in Tasks : u # t => task'[u] = Cut(task[u], p)
<1>1. task' = [u \in Tasks |-> IF u = t THEN Waiting("removing", p) ELSE Cut(task[u], p)]
  BY DEF RemovePlugin, Cut
<1>2. /\ Waiting("removing", p) \in TaskSet /\ Waiting("removing", p).at = "removing"
      /\ Waiting("removing", p).plugin = p
  BY DEF Waiting, Idle, TaskSet, Keys
<1>3. \A u \in Tasks : Cut(task[u], p) \in TaskSet
  BY CutFacts DEF IInv, TypeOK
<1>4. QED
  BY <1>1, <1>2, <1>3

LEMMA RemovePluginKeeps ==
  ASSUME IInv, NEW t \in Tasks, NEW p \in Plugins, RemovePlugin(t, p)
  PROVE  IInv'
<1>1. /\ Contains(loaded, p) /\ loaded' = RemoveFirst(loaded, p) /\ shown' = active'
      /\ expanded' = [expanded EXCEPT ![p] = {}]
      /\ children' = [children EXCEPT ![p] = [k \in Keys |-> NoPlugin]]
      /\ errors' = [errors EXCEPT ![p] = {}]
      /\ active' = IF active = p THEN NoPlugin ELSE active
      /\ selected' = IF active = p THEN NoPlugin ELSE selected
      /\ crossed' = crossed \cup RevealingInto(p)
  BY DEF RemovePlugin, Notify
<1>2. /\ task' \in [Tasks -> TaskSet]
      /\ task'[t].at = "removing" /\ task'[t].plugin = p
      /\ \A u \in Tasks : u # t => task'[u] = Cut(task[u], p)
  BY RemovePluginFacts
<1>3. loaded' \in Seq(Plugins)
  BY <1>1, RemovedFacts DEF IInv
<1>4. TypeOK'
  BY <1>1, <1>2, <1>3 DEF IInv, TypeOK
<1>5. OneIsActive' /\ ScreenIsRight'
  BY <1>1, <1>2 DEF OneIsActive, ScreenIsRight
<1>6. (ReadsOwn(t) /\ Undisturbed(t))'
  BY <1>2 DEF ReadsOwn, Undisturbed
<1>7. ASSUME NEW u \in Tasks, u # t
      PROVE  (ReadsOwn(u) /\ Undisturbed(u))'
  <2>1. /\ task'[u].at = task[u].at /\ task'[u].plugin = task[u].plugin
        /\ task'[u].key = task[u].key /\ task'[u].owner = task[u].owner
        /\ task'[u] = task[u] \/ (task[u].plugin = p /\ task[u].at \in {"reading", "revealing"})
    BY <1>2, <1>7, CutFacts DEF IInv, TypeOK
  <2>2. ReadsOwn(u) /\ Undisturbed(u)
    BY DEF IInv
  <2>3. ReadsOwn(u)'
    BY <2>1, <2>2 DEF ReadsOwn
  <2>4. ASSUME task'[u].at = "revealing", u \notin crossed'
        PROVE  /\ active' = task'[u].plugin /\ ~ task'[u].lost
               /\ Opened(u)' \subseteq expanded'[task'[u].plugin]
    <3>1. task[u].plugin # p /\ u \notin crossed /\ task'[u] = task[u]
      BY <1>1, <2>1, <2>4 DEF RevealingInto
    <3>2. /\ active = task[u].plugin /\ ~ task[u].lost
          /\ Opened(u) \subseteq expanded[task[u].plugin]
      BY <2>2, <2>4, <3>1 DEF Undisturbed
    <3>3. Opened(u)' = Opened(u) /\ expanded'[task[u].plugin] = expanded[task[u].plugin]
      BY <1>1, <2>2, <2>4, <3>1 DEF Opened, IInv, TypeOK, ReadsOwn
    <3>4. QED
      BY <1>1, <3>1, <3>2, <3>3
  <2>5. QED
    BY <2>3, <2>4 DEF Undisturbed
<1>8. QED
  BY <1>4, <1>5, <1>6, <1>7 DEF IInv

LEMMA RemoveEndsKeeps ==
  ASSUME IInv, NEW t \in Tasks, RemoveEnds(t)
  PROVE  IInv'
<1>1. /\ task[t].at = "removing" /\ Become(t, Idle) /\ shown' = active'
      /\ active' = IF active = NoPlugin /\ loaded # <<>> THEN Head(loaded) ELSE active
      /\ UNCHANGED <<loaded, selected, expanded, children, errors, crossed>>
  BY DEF RemoveEnds, Notify, trees
<1>2. loaded # <<>> => Head(loaded) \in Plugins
  BY TailFacts DEF IInv, TypeOK
<1>3. active # NoPlugin => active' = active
  BY <1>1
<1>4. \A u \in Tasks : Spares(u)
  BY <1>1, <1>3, ExplorerAssumption DEF IInv, ReadsOwn, Spares
<1>5. /\ task' \in [Tasks -> TaskSet]
      /\ \A u \in Tasks : (ReadsOwn(u) /\ Undisturbed(u))'
  BY <1>1, <1>4, IdleFacts, AllKept
<1>6. TypeOK'
  BY <1>1, <1>2, <1>5 DEF IInv, TypeOK
<1>7. OneIsActive' /\ ScreenIsRight'
  BY <1>1, <1>2, ExplorerAssumption DEF OneIsActive, ScreenIsRight
<1>8. QED
  BY <1>5, <1>6, <1>7 DEF IInv

LEMMA PickPluginKeeps ==
  ASSUME IInv, NEW t \in Tasks, NEW p \in Plugins, PickPlugin(t, p)
  PROVE  IInv'
<1>1. /\ task[t].at = "idle" /\ active' = p /\ shown' = active'
      /\ selected' \in {selected, NoPlugin} /\ EnsureChildren(t, p, TopLevel, p)
      /\ crossed' = crossed \cup RevealingElsewhere(p)
      /\ UNCHANGED <<loaded, expanded, children, errors>>
  BY DEF PickPlugin, Free, Notify, trees
<1>2. TopLevel \in Keys
  BY DEF Keys
<1>3. PICK state \in TaskSet :
        /\ Become(t, state) /\ state.at \in {"idle", "reading"}
        /\ state.at # "idle" => state.plugin \in Plugins
  BY <1>1, <1>2, EnsureFacts
<1>4. \A u \in Tasks : Spares(u)
  BY <1>1 DEF Spares, RevealingElsewhere
<1>5. /\ task' \in [Tasks -> TaskSet]
      /\ \A u \in Tasks : (ReadsOwn(u) /\ Undisturbed(u))'
  BY <1>3, <1>4, AllKept
<1>6. TypeOK'
  BY <1>1, <1>5 DEF IInv, TypeOK
<1>7. OneIsActive' /\ ScreenIsRight'
  BY <1>1, ExplorerAssumption DEF OneIsActive, ScreenIsRight
<1>8. QED
  BY <1>5, <1>6, <1>7 DEF IInv

\* What is clicked or opened on the page.
LEMMA ClickKeeps ==
  ASSUME IInv, NEW t \in Tasks, task[t].at = "idle", active # NoPlugin,
         NEW key \in Keys, NEW owner \in Plugins \cup {NoPlugin},
         EnsureChildren(t, active, key, owner) \/ UNCHANGED task,
         \A u \in Tasks : Spares(u),
         UNCHANGED <<loaded, active, children, errors>>, shown' = active,
         selected' \in Plugins \cup {NoPlugin}, expanded' \in [Plugins -> SUBSET Groups]
  PROVE  IInv'
<1>1. active \in Plugins
  BY DEF IInv, TypeOK
<1>2. PICK state \in TaskSet :
        /\ Become(t, state) /\ state.at \in {"idle", "reading"}
        /\ state.at # "idle" => state.plugin \in Plugins
  BY <1>1, EnsureFacts
<1>3. QED
  BY <1>2, Kept DEF IInv, TypeOK

LEMMA OpenPageKeeps ==
  ASSUME IInv, NEW t \in Tasks, OpenPage(t)
  PROVE  IInv'
<1>1. /\ task[t].at = "idle" /\ active # NoPlugin /\ EnsureChildren(t, active, TopLevel, active)
      /\ shown' = active
      /\ UNCHANGED <<loaded, active, selected, expanded, children, errors, crossed>>
  BY DEF OpenPage, Free, trees
<1>2. \A u \in Tasks : Spares(u)
  BY <1>1 DEF Spares
<1>3. TopLevel \in Keys /\ active \in Plugins \cup {NoPlugin}
  BY DEF Keys, IInv, TypeOK
<1>4. QED
  BY <1>1, <1>2, <1>3, ClickKeeps DEF IInv, TypeOK

LEMMA FlipFacts ==
  ASSUME IInv, NEW t \in Tasks, NEW g \in Groups, active' = active, active # NoPlugin,
         Flip(t, g) \/ UNCHANGED <<expanded, task, crossed>>
  PROVE  /\ expanded' \in [Plugins -> SUBSET Groups]
         /\ EnsureChildren(t, active, g, shown) \/ UNCHANGED task
         /\ \A u \in Tasks : Spares(u)
<1>1. CASE /\ expanded' = [expanded EXCEPT ![active] = @ \ {g}]
           /\ crossed' = crossed \cup {u \in RevealingInto(active) : g \in Opened(u)}
           /\ UNCHANGED task
  <2>1. expanded' \in [Plugins -> SUBSET Groups]
    BY <1>1 DEF IInv, TypeOK
  <2>2. ASSUME NEW u \in Tasks, task[u].at = "revealing", u \notin crossed'
        PROVE  /\ u \notin crossed
               /\ Opened(u) \cap expanded[task[u].plugin] \subseteq expanded'[task[u].plugin]
    <3>1. task[u].plugin \in Plugins /\ active \in Plugins
      BY <2>2 DEF IInv, TypeOK, ReadsOwn
    <3>2. CASE task[u].plugin = active
      <4>1. g \notin Opened(u)
        BY <1>1, <2>2, <3>2 DEF RevealingInto
      <4>2. QED
        BY <1>1, <2>2, <3>1, <3>2, <4>1 DEF IInv, TypeOK
    <3>3. CASE task[u].plugin # active
      BY <1>1, <2>2, <3>1, <3>3 DEF IInv, TypeOK
    <3>4. QED
      BY <3>2, <3>3
  <2>3. QED
    BY <1>1, <2>1, <2>2 DEF Spares
<1>2. CASE /\ expanded' = [expanded EXCEPT ![active] = @ \cup {g}]
           /\ EnsureChildren(t, active, g, shown)
           /\ UNCHANGED crossed
  <2>1. /\ expanded' \in [Plugins -> SUBSET Groups]
        /\ \A p \in Plugins : expanded[p] \subseteq expanded'[p]
    BY <1>2 DEF IInv, TypeOK
  <2>2. QED
    BY <1>2, <2>1 DEF Spares, IInv, ReadsOwn
<1>3. CASE UNCHANGED <<expanded, task, crossed>>
  BY <1>3 DEF IInv, TypeOK, Spares
<1>4. QED
  BY <1>1, <1>2, <1>3 DEF Flip

LEMMA ToggleKeeps ==
  ASSUME IInv, NEW t \in Tasks, NEW g \in Groups, Toggle(t, g)
  PROVE  IInv'
<1>1. /\ task[t].at = "idle" /\ active # NoPlugin /\ Flip(t, g) /\ shown' = active
      /\ UNCHANGED <<loaded, active, selected, children, errors>>
  BY DEF Toggle, Free
<1>2. g \in Keys /\ {shown, selected} \subseteq Plugins \cup {NoPlugin}
  BY DEF Keys, IInv, TypeOK
<1>3. /\ expanded' \in [Plugins -> SUBSET Groups]
      /\ EnsureChildren(t, active, g, shown) \/ UNCHANGED task
      /\ \A u \in Tasks : Spares(u)
  BY <1>1, FlipFacts
<1>4. QED
  BY <1>1, <1>2, <1>3, ClickKeeps

LEMMA SelectGroupKeeps ==
  ASSUME IInv, NEW t \in Tasks, NEW g \in Groups, SelectGroup(t, g)
  PROVE  IInv'
<1>1. /\ task[t].at = "idle" /\ active # NoPlugin /\ shown' = active /\ selected' = shown
      /\ Flip(t, g) \/ UNCHANGED <<expanded, task, crossed>>
      /\ UNCHANGED <<loaded, active, children, errors>>
  BY DEF SelectGroup, Free
<1>2. g \in Keys /\ shown \in Plugins \cup {NoPlugin}
  BY DEF Keys, IInv, TypeOK
<1>3. /\ expanded' \in [Plugins -> SUBSET Groups]
      /\ EnsureChildren(t, active, g, shown) \/ UNCHANGED task
      /\ \A u \in Tasks : Spares(u)
  BY <1>1, FlipFacts
<1>4. QED
  BY <1>1, <1>2, <1>3, ClickKeeps

\* What changes neither the calls nor the trees, and renders or leaves the screen alone.
LEMMA ScreenKeeps ==
  ASSUME IInv, UNCHANGED <<loaded, active, trees, task, crossed>>,
         shown' \in {shown, active}, selected' \in Plugins \cup {NoPlugin}
  PROVE  IInv'
<1>1. \A u \in Tasks : (ReadsOwn(u) /\ Undisturbed(u))'
  BY DEF IInv, ReadsOwn, Undisturbed, Opened, trees
<1>2. TypeOK' /\ OneIsActive' /\ ScreenIsRight'
  BY DEF IInv, TypeOK, OneIsActive, ScreenIsRight, RevealingInto, trees
<1>3. QED
  BY <1>1, <1>2 DEF IInv

LEMMA ReadEndsKeeps ==
  ASSUME IInv, NEW t \in Tasks, NEW ok \in BOOLEAN, ReadEnds(t, ok)
  PROVE  IInv'
<1>1. /\ task[t].at = "reading" /\ Store(t, ok) /\ shown' = active /\ Become(t, Idle)
      /\ UNCHANGED <<loaded, active, selected, expanded, crossed>>
  BY DEF ReadEnds
<1>2. /\ children' \in [Plugins -> [Keys -> Plugins \cup {NoPlugin}]]
      /\ errors' \in [Plugins -> SUBSET Keys]
  BY <1>1, StoreFacts
<1>3. \A u \in Tasks : Spares(u)
  BY <1>1 DEF Spares
<1>4. QED
  BY <1>1, <1>2, <1>3, IdleFacts, Kept DEF IInv, TypeOK

\* A call ends, or goes on to resolve, and only the screen and the busy message change.
LEMMA TurnKeeps ==
  ASSUME IInv, NEW t \in Tasks, task[t].at # "removing",
         NEW state \in TaskSet, Become(t, state),
         state.at # "revealing", state.at # "idle" => state.plugin \in Plugins,
         UNCHANGED <<loaded, active, selected, trees>>,
         crossed' = crossed \/ crossed' = crossed \ {t},
         shown' = active \/ (shown' = shown /\ task[t].at # "revealing")
  PROVE  IInv'
<1>1. \A u \in Tasks : u # t => Spares(u)
  BY DEF Spares, trees
<1>2. UNCHANGED <<expanded, children, errors>>
  BY DEF trees
<1>3. QED
  BY <1>1, <1>2, Kept DEF IInv, TypeOK

LEMMA GoToKeeps ==
  ASSUME IInv, NEW t \in Tasks, NEW p \in Plugins, GoTo(t, p)
  PROVE  IInv'
<1>1. /\ task[t].at = "idle" /\ Become(t, Waiting("resolving", p)) /\ shown' = active
      /\ UNCHANGED <<loaded, active, selected, trees, crossed>>
  BY DEF GoTo, Free
<1>2. /\ Waiting("resolving", p) \in TaskSet /\ Waiting("resolving", p).at = "resolving"
      /\ Waiting("resolving", p).plugin = p
  BY DEF Waiting, Idle, TaskSet, Keys
<1>3. QED
  BY <1>1, <1>2, TurnKeeps

LEMMA EndsKeep ==
  ASSUME IInv, NEW t \in Tasks, ReadThrows(t) \/ NotResolved(t) \/ RevealThrows(t)
  PROVE  IInv'
<1>1. /\ task[t].at # "removing" /\ Become(t, Idle)
      /\ UNCHANGED <<loaded, active, selected, trees>>
      /\ crossed' = crossed \/ crossed' = crossed \ {t}
      /\ shown' = active \/ (shown' = shown /\ task[t].at # "revealing")
  BY DEF ReadThrows, NotResolved, RevealThrows, Forget
<1>2. QED
  BY <1>1, IdleFacts, TurnKeeps

\* RevealAsync goes on from step n.
LEMMA RevealKeeps ==
  ASSUME IInv, NEW t \in Tasks, NEW q \in Plugins, NEW n \in 1..(Len(Steps) + 1),
         NEW lost \in BOOLEAN, RevealFrom(t, q, n, lost),
         \A u \in Tasks : u # t /\ task[u].at = "revealing" /\ u \notin crossed' =>
           u \notin crossed /\ (active = task[u].plugin => active' = active),
         task'[t].at = "revealing" /\ t \notin crossed' =>
           active' = q /\ ~ lost /\ \A j \in 2..(n - 1) : Steps[j] \in expanded[q]
  PROVE  /\ task' \in [Tasks -> TaskSet] /\ expanded' \in [Plugins -> SUBSET Groups]
         /\ \A u \in Tasks : (ReadsOwn(u) /\ Undisturbed(u))'
         /\ \A u \in Tasks : u # t => task'[u] = task[u]
         /\ \/ task'[t] = Idle /\ shown' = active' /\ selected' = q
            \/ /\ task'[t].at = "revealing" /\ task'[t].plugin = q /\ task'[t].owner = q
               /\ UNCHANGED <<selected, shown>>
<1> DEFINE whole == ~ lost /\ \A j \in 2..(n - 1) : Steps[j] \in expanded[q]
           reads(i) == [Reading("revealing", q, Steps[i], q) EXCEPT !.lost = lost]
<1>1. /\ expanded' \in [Plugins -> SUBSET Groups]
      /\ \A p \in Plugins : expanded[p] \subseteq expanded'[p]
      /\ \/ /\ \E stop \in 1..Len(Steps) :
                 /\ Become(t, reads(stop))
                 /\ whole => \A j \in 2..stop : Steps[j] \in expanded'[q]
            /\ UNCHANGED <<selected, shown>>
         \/ selected' = q /\ shown' = active' /\ Become(t, Idle)
  BY RevealFacts
<1>2. \A u \in Tasks : u # t => Spares(u)
  BY <1>1 DEF Spares, IInv, ReadsOwn
<1>3. ASSUME NEW i \in 1..Len(Steps)
      PROVE  /\ reads(i) \in TaskSet /\ reads(i).at = "revealing" /\ reads(i).plugin = q
             /\ reads(i).owner = q /\ reads(i).key = Steps[i] /\ reads(i).lost = lost
  BY StepsFacts DEF Reading, Idle, TaskSet, Keys
<1>4. CASE selected' = q /\ shown' = active' /\ Become(t, Idle)
  BY <1>1, <1>2, <1>4, IdleFacts, AllKept
<1>5. CASE /\ \E stop \in 1..Len(Steps) :
                /\ Become(t, reads(stop))
                /\ whole => \A j \in 2..stop : Steps[j] \in expanded'[q]
           /\ UNCHANGED <<selected, shown>>
  <2>1. PICK stop \in 1..Len(Steps) :
          /\ Become(t, reads(stop))
          /\ whole => \A j \in 2..stop : Steps[j] \in expanded'[q]
    BY <1>5
  <2>2. /\ reads(stop) \in TaskSet /\ reads(stop).at = "revealing" /\ reads(stop).plugin = q
        /\ reads(stop).owner = q /\ reads(stop).key = Steps[stop] /\ reads(stop).lost = lost
    BY <1>3
  <2> HIDE DEF reads
  <2>3. /\ task' \in [Tasks -> TaskSet] /\ task'[t] = reads(stop)
        /\ \A u \in Tasks : u # t => (ReadsOwn(u) /\ Undisturbed(u))' /\ task'[u] = task[u]
    BY <1>2, <2>1, <2>2, OthersKept
  <2>4. ReadsOwn(t)'
    BY <2>2, <2>3 DEF ReadsOwn
  <2>5. ASSUME t \notin crossed'
        PROVE  active' = q /\ ~ lost /\ Opened(t)' \subseteq expanded'[q]
    <3>1. whole /\ active' = q
      BY <2>2, <2>3, <2>5
    <3>2. Position(task'[t].key) = stop
      BY <2>2, <2>3, PositionFacts
    <3>3. QED
      BY <2>1, <3>1, <3>2 DEF Opened
  <2>6. Undisturbed(t)'
    BY <2>2, <2>3, <2>5 DEF Undisturbed
  <2>7. QED
    BY <1>1, <1>5, <2>2, <2>3, <2>4, <2>6
<1>6. QED
  BY <1>1, <1>4, <1>5

LEMMA ResolvedFacts ==
  ASSUME IInv, NEW t \in Tasks, Resolved(t)
  PROVE  /\ task[t].at = "resolving" /\ task[t].plugin \in Plugins
         /\ active' = task[t].plugin /\ 1 \in 1..(Len(Steps) + 1)
         /\ RevealFrom(t, task[t].plugin, 1, FALSE)
         /\ crossed' = crossed \cup RevealingElsewhere(task[t].plugin)
         /\ UNCHANGED <<loaded, children, errors>>
<1>1. /\ task[t].at = "resolving" /\ RevealFrom(t, task[t].plugin, 1, FALSE)
      /\ active' = task[t].plugin
      /\ crossed' = crossed \cup RevealingElsewhere(task[t].plugin)
      /\ UNCHANGED <<loaded, children, errors>>
  BY DEF Resolved
<1>2. task[t].plugin \in Plugins
  BY <1>1 DEF IInv, ReadsOwn
<1>3. 1 \in 1..(Len(Steps) + 1)
  BY StepsFacts
<1>4. QED
  BY <1>1, <1>2, <1>3

LEMMA ResolvedKeeps ==
  ASSUME IInv, NEW t \in Tasks, Resolved(t)
  PROVE  IInv'
<1> DEFINE q == task[t].plugin
<1>1. /\ task[t].at = "resolving" /\ q \in Plugins /\ active' = q /\ 1 \in 1..(Len(Steps) + 1)
      /\ RevealFrom(t, q, 1, FALSE)
      /\ crossed' = crossed \cup RevealingElsewhere(q)
      /\ UNCHANGED <<loaded, children, errors>>
  BY ResolvedFacts
<1> HIDE DEF q
<1>2. \A u \in Tasks : task[u].at = "revealing" /\ u \notin crossed' =>
        u \notin crossed /\ (active = task[u].plugin => active' = active)
  BY <1>1 DEF RevealingElsewhere
<1>3. \A j \in 2..(1 - 1) : Steps[j] \in expanded[q]
  OBVIOUS
<1>4. /\ task' \in [Tasks -> TaskSet] /\ expanded' \in [Plugins -> SUBSET Groups]
      /\ \A u \in Tasks : (ReadsOwn(u) /\ Undisturbed(u))'
      /\ \/ shown' = active' /\ selected' = q
         \/ /\ task'[t].at = "revealing" /\ task'[t].plugin = q
            /\ UNCHANGED <<selected, shown>>
  BY <1>1, <1>2, <1>3, RevealKeeps
<1>5. TypeOK'
  BY <1>1, <1>4 DEF IInv, TypeOK
<1>6. OneIsActive' /\ ScreenIsRight'
  BY <1>1, <1>4, ExplorerAssumption DEF OneIsActive, ScreenIsRight, RevealingInto
<1>7. QED
  BY <1>4, <1>5, <1>6 DEF IInv

LEMMA RevealReadFacts ==
  ASSUME IInv, NEW t \in Tasks, NEW ok \in BOOLEAN, RevealRead(t, ok)
  PROVE  \E q \in Plugins, n \in 1..(Len(Steps) + 1), lost \in BOOLEAN :
           /\ task[t].at = "revealing" /\ task[t].plugin = q /\ task[t].owner = q
           /\ RevealFrom(t, q, n, lost)
           /\ t \notin crossed =>
                active = q /\ ~ lost /\ \A j \in 2..(n - 1) : Steps[j] \in expanded[q]
           /\ UNCHANGED <<loaded, active>> /\ Store(t, ok) /\ Forget(t)
<1> DEFINE q == task[t].plugin
           n == Position(task[t].key) + 1
           lost == task[t].lost
<1>1. /\ task[t].at = "revealing" /\ RevealFrom(t, q, n, lost)
      /\ UNCHANGED <<loaded, active>> /\ Store(t, ok) /\ Forget(t)
  BY DEF RevealRead
<1>2. q \in Plugins /\ lost \in BOOLEAN /\ task[t].owner = q
  BY <1>1 DEF IInv, ReadsOwn, TypeOK, TaskSet
<1>3. Position(task[t].key) \in 1..Len(Steps)
  BY <1>1, PositionFacts DEF IInv, ReadsOwn
<1>4. n \in 1..(Len(Steps) + 1) /\ n - 1 = Position(task[t].key)
  BY <1>3, StepsFacts
<1>5. t \notin crossed =>
        active = q /\ ~ lost /\ \A j \in 2..(n - 1) : Steps[j] \in expanded[q]
  BY <1>1, <1>4 DEF IInv, Undisturbed, Opened
<1> HIDE DEF q, n, lost
<1>6. QED
  BY <1>1, <1>2, <1>4, <1>5 DEF q

LEMMA RevealReadKeeps ==
  ASSUME IInv, NEW t \in Tasks, NEW ok \in BOOLEAN, RevealRead(t, ok)
  PROVE  IInv'
<1>1. PICK q \in Plugins, n \in 1..(Len(Steps) + 1), lost \in BOOLEAN :
        /\ task[t].at = "revealing" /\ task[t].plugin = q
        /\ RevealFrom(t, q, n, lost)
        /\ t \notin crossed =>
             active = q /\ ~ lost /\ \A j \in 2..(n - 1) : Steps[j] \in expanded[q]
        /\ UNCHANGED <<loaded, active>> /\ Store(t, ok) /\ Forget(t)
  BY RevealReadFacts
<1>2. /\ children' \in [Plugins -> [Keys -> Plugins \cup {NoPlugin}]]
      /\ errors' \in [Plugins -> SUBSET Keys]
  BY <1>1, StoreFacts
<1>3. /\ \A u \in Tasks : u # t /\ u \notin crossed' => u \notin crossed
      /\ task'[t].at = "revealing" => crossed' = crossed
  BY <1>1 DEF Forget
<1>4. /\ task' \in [Tasks -> TaskSet] /\ expanded' \in [Plugins -> SUBSET Groups]
      /\ \A u \in Tasks : (ReadsOwn(u) /\ Undisturbed(u))'
      /\ \A u \in Tasks : u # t => task'[u] = task[u]
      /\ \/ shown' = active' /\ selected' = q
         \/ /\ task'[t].at = "revealing" /\ task'[t].plugin = q
            /\ UNCHANGED <<selected, shown>>
  BY <1>1, <1>3, RevealKeeps
<1>5. TypeOK'
  BY <1>1, <1>2, <1>4 DEF IInv, TypeOK
<1>6. OneIsActive'
  BY <1>1, <1>4 DEF IInv, OneIsActive
<1>7. ScreenIsRight'
  <2>1. CASE shown' = active'
    BY <2>1 DEF ScreenIsRight
  <2>2. CASE task'[t].at = "revealing" /\ task'[t].plugin = q /\ UNCHANGED <<selected, shown>>
    <3>1. RevealingInto(active) \subseteq RevealingInto(active)'
      BY <1>1, <1>4, <2>2 DEF RevealingInto
    <3>2. QED
      BY <1>1, <2>2, <3>1 DEF IInv, ScreenIsRight
  <2>3. QED
    BY <1>4, <2>1, <2>2
<1>8. QED
  BY <1>4, <1>5, <1>6, <1>7 DEF IInv

\* A progress report, a click on a record, a render: nothing but the screen, the
\* selection and the two messages changes.
LEMMA PageStepKeeps ==
  ASSUME IInv, \/ SelectRecord \/ TakeScroll \/ Render \/ \E t \in Tasks : Progress(t)
  PROVE  IInv'
<1>1. /\ UNCHANGED <<loaded, active, trees, task, crossed>> /\ shown' \in {shown, active}
      /\ selected' \in {selected, shown}
  BY DEF SelectRecord, TakeScroll, Render, Progress
<1>2. selected' \in Plugins \cup {NoPlugin}
  BY <1>1 DEF IInv, TypeOK
<1>3. QED
  BY <1>1, <1>2, ScreenKeeps

LEMMA StepKeeps == IInv /\ [Next]_vars => IInv'
<1> SUFFICES ASSUME IInv, [Next]_vars PROVE IInv'
  OBVIOUS
<1>1. CASE UNCHANGED vars
  <2>1. UNCHANGED <<loaded, active, trees, task, crossed, shown, selected>>
    BY <1>1 DEF vars
  <2>2. selected' \in Plugins \cup {NoPlugin}
    BY <2>1 DEF IInv, TypeOK
  <2>3. QED
    BY <2>1, <2>2, ScreenKeeps
<1>2. CASE \E t \in Tasks : Starts(t)
  BY <1>2, AddKeeps, OpenPageKeeps, RemovePluginKeeps, PickPluginKeeps, GoToKeeps, ToggleKeeps,
     SelectGroupKeeps DEF Starts
<1>3. CASE \E t \in Tasks : Continues(t)
  BY <1>3, AddEndsKeeps, FoundEndsKeeps, RemoveEndsKeeps, ReadEndsKeeps, RevealReadKeeps,
     EndsKeep, ResolvedKeeps DEF Continues
<1>4. QED
  BY <1>1, <1>2, <1>3, PageStepKeeps DEF Next

-----------------------------------------------------------------------------
(* What a step may do to the active plugin, the selection and the trees    *)

\* The list and the active plugin change by six actions only.
LEMMA ListSteps ==
  ASSUME [Next]_vars
  PROVE  \/ UNCHANGED <<loaded, active>>
         \/ \E t \in Tasks :
              \/ AddEnds(t) \/ FoundEnds(t) \/ RemoveEnds(t) \/ Resolved(t)
              \/ \E p \in Plugins : RemovePlugin(t, p) \/ PickPlugin(t, p)
BY DEF Next, Starts, Continues, vars, Add, OpenPage, GoTo, Toggle, SelectGroup, ReadEnds,
       RevealRead, ReadThrows, RevealThrows, NotResolved, Progress, SelectRecord, TakeScroll, Render

LEMMA FoundBeforeStep ==
  ASSUME IInv, [Next]_vars
  PROVE  FoundBefore
<1>1. CASE UNCHANGED <<loaded, active>>
  BY <1>1 DEF FoundBefore
<1>2. ASSUME NEW t \in Tasks, AddEnds(t)
      PROVE  FoundBefore
  <2> DEFINE p == task[t].plugin
  <2>1. /\ task[t].at = "adding"
        /\ \/ loaded' = Append(loaded, p) /\ active' = (IF active = NoPlugin THEN p ELSE active)
           \/ UNCHANGED <<loaded, active>>
    BY <1>2 DEF AddEnds, ActivateIfNone
  <2>2. p \in Plugins
    BY <2>1 DEF IInv, ReadsOwn
  <2>3. /\ Contains(Append(loaded, p), p)
        /\ \A q : Contains(loaded, q) => Contains(Append(loaded, p), q)
    BY <2>2, ListFacts DEF IInv
  <2>4. QED
    BY <2>1, <2>3 DEF FoundBefore
<1>3. ASSUME NEW t \in Tasks, FoundEnds(t)
      PROVE  FoundBefore
  <2>1. /\ task[t].at = "found" /\ UNCHANGED loaded
        /\ active' = (IF active = NoPlugin THEN task[t].plugin ELSE active)
        /\ MoreSources(t, loaded, added)
    BY <1>3 DEF FoundEnds, ActivateIfNone
  <2>2. PICK state \in TaskSet :
          /\ Become(t, state)
          /\ state.at = "found" => Contains(loaded, state.plugin)
    BY <2>1, MoreSourcesFacts DEF IInv, TypeOK
  <2>3. task'[t] = state
    BY <2>2, BecomeFacts DEF IInv
  <2>4. QED
    BY <2>1, <2>2, <2>3 DEF FoundBefore
<1>4. ASSUME NEW t \in Tasks, RemoveEnds(t)
      PROVE  FoundBefore
  <2>1. /\ active' = (IF active = NoPlugin /\ loaded # <<>> THEN Head(loaded) ELSE active)
        /\ UNCHANGED loaded
    BY <1>4 DEF RemoveEnds
  <2>2. loaded # <<>> => Contains(loaded, Head(loaded))
    BY TailFacts DEF IInv, TypeOK, Contains
  <2>3. QED
    BY <2>1, <2>2 DEF FoundBefore
<1>5. ASSUME NEW t \in Tasks, Resolved(t)
      PROVE  FoundBefore
  <2>1. /\ task[t].at = "resolving" /\ active' = task[t].plugin
        /\ \E state \in TaskSet : Become(t, state) /\ state.at # "resolving"
    <3>1. /\ task[t].at = "resolving" /\ task[t].plugin \in Plugins /\ active' = task[t].plugin
          /\ 1 \in 1..(Len(Steps) + 1)
          /\ RevealFrom(t, task[t].plugin, 1, FALSE)
      BY <1>5, ResolvedFacts
    <3>2. \/ Become(t, Idle)
          \/ \E i \in 1..Len(Steps) :
               Become(t, [Reading("revealing", task[t].plugin, Steps[i], task[t].plugin)
                            EXCEPT !.lost = FALSE])
      BY <3>1, RevealFacts
    <3>3. ASSUME NEW i \in 1..Len(Steps)
          PROVE  LET r == [Reading("revealing", task[t].plugin, Steps[i], task[t].plugin)
                             EXCEPT !.lost = FALSE]
                 IN r \in TaskSet /\ r.at = "revealing"
      BY <3>1, StepsFacts DEF Reading, Idle, TaskSet, Keys
    <3>4. QED
      BY <3>1, <3>2, <3>3, IdleFacts
  <2>2. task'[t].at # "resolving"
    BY <2>1, BecomeFacts DEF IInv
  <2>3. QED
    BY <2>1, <2>2 DEF FoundBefore
<1>6. ASSUME NEW t \in Tasks, NEW p \in Plugins, RemovePlugin(t, p)
      PROVE  FoundBefore
  <2>1. /\ Contains(loaded, p) /\ loaded' = RemoveFirst(loaded, p)
        /\ active' = (IF active = p THEN NoPlugin ELSE active)
    BY <1>6 DEF RemovePlugin
  <2>2. \A q : q # p /\ Contains(loaded, q) => Contains(loaded', q)
    BY <2>1, RemovedFacts DEF IInv
  <2>3. QED
    BY <2>1, <2>2 DEF FoundBefore
<1>7. ASSUME NEW t \in Tasks, NEW p \in Plugins, PickPlugin(t, p)
      PROVE  FoundBefore
  BY <1>7 DEF PickPlugin, FoundBefore
<1>8. QED
  BY <1>1, <1>2, <1>3, <1>4, <1>5, <1>6, <1>7, ListSteps

LEMMA PartsInRevealStep ==
  ASSUME IInv, [Next]_vars
  PROVE  PartsInReveal
<1> SUFFICES ASSUME Agrees, \A t \in Tasks : task[t].at # "revealing" /\ task'[t].at # "revealing"
             PROVE  Agrees'
  BY DEF PartsInReveal
<1>1. shown \in {active, NoPlugin}
  BY DEF IInv, ScreenIsRight, RevealingInto
<1>2. CASE UNCHANGED active /\ selected' \in {selected, NoPlugin}
  BY <1>2 DEF Agrees
<1>3. CASE UNCHANGED active /\ selected' = shown
  BY <1>1, <1>3 DEF Agrees
<1>4. CASE active = NoPlugin /\ selected' = selected
  BY <1>4 DEF Agrees
<1>5. ASSUME NEW t \in Tasks, Resolved(t)
      PROVE  Agrees'
  <2>1. /\ task[t].plugin \in Plugins /\ active' = task[t].plugin
        /\ 1 \in 1..(Len(Steps) + 1)
        /\ RevealFrom(t, task[t].plugin, 1, FALSE)
        /\ crossed' = crossed \cup RevealingElsewhere(task[t].plugin)
    BY <1>5, ResolvedFacts
  <2>2. \A u \in Tasks : task[u].at # "revealing"
    OBVIOUS
  <2>3. task'[t].at # "revealing"
    OBVIOUS
  <2>4. selected' = task[t].plugin
    BY <2>1, <2>2, <2>3, RevealKeeps
  <2>5. QED
    BY <2>1, <2>4 DEF Agrees
<1>6. ASSUME NEW t \in Tasks, NEW p \in Plugins, RemovePlugin(t, p) \/ PickPlugin(t, p)
      PROVE  Agrees'
  BY <1>6 DEF RemovePlugin, PickPlugin, Agrees
<1>7. ASSUME NEW t \in Tasks, AddEnds(t) \/ FoundEnds(t) \/ RemoveEnds(t)
      PROVE  Agrees'
  BY <1>7 DEF AddEnds, FoundEnds, RemoveEnds, ActivateIfNone, Agrees
<1>8. ASSUME \A t \in Tasks : /\ ~ AddEnds(t) /\ ~ FoundEnds(t) /\ ~ RemoveEnds(t) /\ ~ Resolved(t)
                             /\ \A p \in Plugins : ~ RemovePlugin(t, p) /\ ~ PickPlugin(t, p)
      PROVE  UNCHANGED active /\ selected' \in {selected, shown}
  BY <1>8 DEF Next, Starts, Continues, vars, Add, OpenPage, GoTo, Toggle, SelectGroup, ReadEnds,
       RevealRead, ReadThrows, RevealThrows, NotResolved, Progress, SelectRecord, TakeScroll, Render
<1>9. QED
  BY <1>2, <1>3, <1>5, <1>6, <1>7, <1>8

LEMMA StoresOwnStep ==
  ASSUME IInv, [Next]_vars
  PROVE  StoresOwn
<1>1. CASE UNCHANGED children
  BY <1>1 DEF StoresOwn
<1>2. ASSUME NEW t \in Tasks, task[t].at \in {"reading", "revealing"},
             NEW ok \in BOOLEAN, Store(t, ok)
      PROVE  StoresOwn
  <2>1. /\ task[t].plugin \in Plugins /\ task[t].key \in Keys
        /\ children \in [Plugins -> [Keys -> Plugins \cup {NoPlugin}]]
        /\ task[t].at = "revealing" => task[t].owner = task[t].plugin
    BY <1>2 DEF IInv, ReadsOwn, TypeOK, TaskSet
  <2>2. \/ children' = children
        \/ /\ children' = [children EXCEPT ![task[t].plugin][task[t].key] = task[t].owner]
           /\ ~ task[t].orphan
    BY <1>2 DEF Store
  <2>3. ASSUME NEW p \in Plugins, NEW k \in Keys,
               children'[p][k] \notin {children[p][k], NoPlugin, p}
        PROVE  /\ task[t].at = "reading" /\ task[t].plugin = p /\ task[t].key = k
               /\ task[t].owner = children'[p][k] /\ ~ task[t].orphan
    <3>1. p = task[t].plugin /\ k = task[t].key /\ children'[p][k] = task[t].owner
      BY <2>1, <2>2, <2>3
    <3>2. QED
      BY <1>2, <2>1, <2>2, <2>3, <3>1
  <2>4. QED
    BY <2>3 DEF StoresOwn
<1>3. ASSUME NEW t \in Tasks, NEW p \in Plugins, RemovePlugin(t, p)
      PROVE  StoresOwn
  <2>1. children' = [children EXCEPT ![p] = [k \in Keys |-> NoPlugin]]
    BY <1>3 DEF RemovePlugin
  <2>2. \A q \in Plugins, k \in Keys : children'[q][k] \in {children[q][k], NoPlugin}
    BY <2>1 DEF IInv, TypeOK
  <2>3. QED
    BY <2>2 DEF StoresOwn
<1>4. \/ UNCHANGED children
      \/ \E t \in Tasks, p \in Plugins : RemovePlugin(t, p)
      \/ \E t \in Tasks, ok \in BOOLEAN :
           task[t].at \in {"reading", "revealing"} /\ Store(t, ok)
  BY DEF Next, Starts, Continues, vars, trees, Add, AddEnds, FoundEnds, RemoveEnds, PickPlugin, OpenPage,
       GoTo, Toggle, SelectGroup, ReadEnds, RevealRead, ReadThrows, RevealThrows, NotResolved, Resolved,
       Progress, SelectRecord, TakeScroll, Render
<1>5. QED
  BY <1>1, <1>2, <1>3, <1>4

\* One call at most changes, in each of these ways.
LEMMA TaskSteps ==
  ASSUME IInv, [Next]_vars
  PROVE  \/ UNCHANGED task
         \/ \E t \in Tasks, p \in Plugins : RemovePlugin(t, p)
         \/ \E t \in Tasks : Resolved(t) \/ \E ok \in BOOLEAN : RevealRead(t, ok)
         \/ \E t \in Tasks, state \in TaskSet :
              Become(t, state) /\ state.at \notin {"reading", "revealing"}
         \/ \E t \in Tasks, p \in Plugins, key \in Keys :
              \/ EnsureChildren(t, p, key, p)
              \/ p = active /\ shown # NoPlugin /\ EnsureChildren(t, p, key, shown)
<1> DEFINE Quiet == \E t \in Tasks, state \in TaskSet :
                      Become(t, state) /\ state.at \notin {"reading", "revealing"}
           Opens == \E t \in Tasks, p \in Plugins, key \in Keys :
                      \/ EnsureChildren(t, p, key, p)
                      \/ p = active /\ shown # NoPlugin /\ EnsureChildren(t, p, key, shown)
<1>1. ASSUME NEW t \in Tasks, \/ Add(t) \/ AddEnds(t) \/ FoundEnds(t)
      PROVE  Quiet
  <2>1. /\ loaded \in Seq(Plugins)
        /\ AddEnds(t) => Append(loaded, task[t].plugin) \in Seq(Plugins)
    BY ListFacts DEF IInv, TypeOK, ReadsOwn, AddEnds
  <2>2. \/ NextSource(t, loaded, added)
        \/ \E plugins \in Seq(Plugins) : \E instances : MoreSources(t, plugins, instances)
    BY <1>1, <2>1 DEF Add, AddEnds, FoundEnds
  <2>3. CASE NextSource(t, loaded, added)
    BY <2>1, <2>3, NextSourceFacts DEF IInv
  <2>4. CASE \E plugins \in Seq(Plugins) : \E instances : MoreSources(t, plugins, instances)
    BY <2>4, MoreSourcesFacts DEF IInv
  <2>5. QED
    BY <2>2, <2>3, <2>4
<1>2. ASSUME NEW t \in Tasks, Become(t, Idle)
      PROVE  Quiet
  BY <1>2, IdleFacts
<1>3. ASSUME NEW t \in Tasks, NEW p \in Plugins, GoTo(t, p)
      PROVE  Quiet
  <2>1. /\ Waiting("resolving", p) \in TaskSet /\ Waiting("resolving", p).at = "resolving"
        /\ Become(t, Waiting("resolving", p))
    BY <1>3 DEF GoTo, Waiting, Idle, TaskSet, Keys
  <2>2. QED
    BY <2>1
<1>4. active # NoPlugin => active \in Plugins
  BY DEF IInv, TypeOK
<1>5. ASSUME NEW t \in Tasks, OpenPage(t) \/ \E p \in Plugins : PickPlugin(t, p)
      PROVE  Opens
  BY <1>4, <1>5 DEF OpenPage, PickPlugin, Keys
<1>6. ASSUME NEW t \in Tasks, NEW g \in Groups, Toggle(t, g) \/ SelectGroup(t, g)
      PROVE  UNCHANGED task \/ Opens
  BY <1>4, <1>6 DEF Toggle, SelectGroup, Flip, Keys
<1> HIDE DEF Quiet, Opens
<1>7. UNCHANGED task \/ Quiet \/ Opens \/ (\E t \in Tasks, p \in Plugins : RemovePlugin(t, p))
      \/ \E t \in Tasks : Resolved(t) \/ \E ok \in BOOLEAN : RevealRead(t, ok)
  BY <1>1, <1>2, <1>3, <1>5, <1>6
     DEF Next, Starts, Continues, vars, RemoveEnds, ReadEnds, ReadThrows, RevealThrows, NotResolved,
         Progress, SelectRecord, TakeScroll, Render
<1>8. QED
  BY <1>7 DEF Quiet, Opens

LEMMA StartsOwnStep ==
  ASSUME IInv, [Next]_vars
  PROVE  StartsOwn
<1>1. \A u \in Tasks : task[u].at = "revealing" => task[u].owner = task[u].plugin
  BY DEF IInv, ReadsOwn
<1>2. CASE UNCHANGED task
  BY <1>1, <1>2 DEF StartsOwn
<1>3. ASSUME NEW t \in Tasks, NEW p \in Plugins, RemovePlugin(t, p)
      PROVE  StartsOwn
  <2>1. /\ task'[t].at = "removing"
        /\ \A u \in Tasks : u # t => task'[u] = Cut(task[u], p)
    BY <1>3, RemovePluginFacts
  <2>2. \A u \in Tasks : u # t => /\ task'[u].at = task[u].at /\ task'[u].plugin = task[u].plugin
                                 /\ task'[u].owner = task[u].owner
    BY <2>1, CutFacts DEF IInv, TypeOK
  <2>3. QED
    BY <1>1, <2>1, <2>2 DEF StartsOwn
<1>4. ASSUME NEW t \in Tasks, NEW state \in TaskSet, Become(t, state),
             \/ state.at \notin {"reading", "revealing"}
             \/ state.owner = state.plugin
             \/ RevealingInto(state.plugin) # {} /\ shown # active
      PROVE  StartsOwn
  <2>1. task'[t] = state /\ \A u \in Tasks : u # t => task'[u] = task[u]
    BY <1>4, BecomeFacts DEF IInv
  <2>2. QED
    BY <1>1, <1>4, <2>1 DEF StartsOwn
<1>5. ASSUME NEW t \in Tasks, NEW q \in Plugins, NEW n \in 1..(Len(Steps) + 1),
             NEW lost \in BOOLEAN, RevealFrom(t, q, n, lost)
      PROVE  StartsOwn
  <2>1. ASSUME NEW i \in 1..Len(Steps)
        PROVE  LET r == [Reading("revealing", q, Steps[i], q) EXCEPT !.lost = lost]
               IN r \in TaskSet /\ r.owner = r.plugin
    BY StepsFacts DEF Reading, Idle, TaskSet, Keys
  <2>2. \/ Become(t, Idle)
        \/ \E i \in 1..Len(Steps) :
             Become(t, [Reading("revealing", q, Steps[i], q) EXCEPT !.lost = lost])
    BY <1>5, RevealFacts
  <2>3. QED
    BY <1>4, <2>1, <2>2, IdleFacts
<1>6. ASSUME NEW t \in Tasks, Resolved(t) \/ \E ok \in BOOLEAN : RevealRead(t, ok)
      PROVE  StartsOwn
  <2>1. CASE Resolved(t)
    BY <1>5, <2>1, ResolvedFacts
  <2>2. CASE \E ok \in BOOLEAN : RevealRead(t, ok)
    BY <1>5, <2>2, RevealReadFacts
  <2>3. QED
    BY <1>6, <2>1, <2>2
<1>7. ASSUME NEW t \in Tasks, NEW p \in Plugins, NEW key \in Keys,
             \/ EnsureChildren(t, p, key, p)
             \/ p = active /\ shown # NoPlugin /\ EnsureChildren(t, p, key, shown)
      PROVE  StartsOwn
  <2>1. shown \in Plugins \cup {NoPlugin}
    BY DEF IInv, TypeOK
  <2>2. PICK owner \in Plugins \cup {NoPlugin} :
          /\ owner = p \/ (p = active /\ shown # NoPlugin /\ owner = shown)
          /\ EnsureChildren(t, p, key, owner)
    BY <1>7, <2>1
  <2> DEFINE r == Reading("reading", p, key, owner)
  <2>3. r \in TaskSet /\ r.plugin = p /\ r.owner = owner
    BY DEF Reading, Idle, TaskSet, Keys
  <2>4. UNCHANGED task \/ Become(t, r)
    BY <2>2 DEF EnsureChildren
  <2> HIDE DEF r
  <2>5. owner = p \/ (RevealingInto(p) # {} /\ shown # active)
    BY <2>2, ScreenFacts
  <2>6. QED
    BY <1>2, <1>4, <2>3, <2>4, <2>5
<1>8. QED
  BY <1>2, <1>3, <1>4, <1>6, <1>7, TaskSteps

LEMMA ArrivesStep ==
  ASSUME IInv, [Next]_vars
  PROVE  Arrives
<1> SUFFICES ASSUME scroll' # scroll, scroll'
             PROVE  Arrives
  BY DEF Arrives
<1>1. PICK t \in Tasks : Resolved(t) \/ \E ok \in BOOLEAN : RevealRead(t, ok)
  BY DEF Next, Starts, Continues, vars, Add, AddEnds, FoundEnds, RemovePlugin, RemoveEnds, PickPlugin,
         OpenPage, Toggle, SelectRecord, SelectGroup, ReadEnds, ReadThrows, GoTo, Progress,
         NotResolved, RevealThrows, TakeScroll, Render
<1>2. PICK q \in Plugins, n \in 1..(Len(Steps) + 1), lost \in BOOLEAN :
        /\ GoingTo(t) /\ task[t].plugin = q /\ RevealFrom(t, q, n, lost)
        /\ t \notin crossed =>
             active' = q /\ ~ lost /\ \A j \in 2..(n - 1) : Steps[j] \in expanded[q]
  <2>1. CASE Resolved(t)
    <3>1. /\ task[t].plugin \in Plugins /\ GoingTo(t) /\ 1 \in 1..(Len(Steps) + 1)
          /\ RevealFrom(t, task[t].plugin, 1, FALSE) /\ active' = task[t].plugin
      BY <2>1, ResolvedFacts DEF GoingTo
    <3>2. \A j \in 2..(1 - 1) : Steps[j] \in expanded[task[t].plugin]
      OBVIOUS
    <3>3. QED
      BY <3>1, <3>2
  <2>2. CASE \E ok \in BOOLEAN : RevealRead(t, ok)
    BY <2>2, RevealReadFacts DEF GoingTo
  <2>3. QED
    BY <1>1, <2>1, <2>2
<1>3. /\ selected' = q /\ Become(t, Idle)
      /\ (~ lost /\ \A j \in 2..(n - 1) : Steps[j] \in expanded[q]) =>
           \A k \in 1..Len(Path) : Path[k] \in expanded'[q]
  BY <1>2, RevealFacts
<1>4. task'[t].at = "idle"
  BY <1>3, BecomeFacts, IdleFacts DEF IInv
<1>5. QED
  BY <1>2, <1>3, <1>4 DEF Arrives

-----------------------------------------------------------------------------
(* Theorems                                                                *)

\* At every moment of any interleaving of calls and clicks: a screen that shows another
\* plugin than the active one is behind a go-to that reveals; a go-to that nobody
\* crossed has its plugin active and the groups on its way open; and some plugin is
\* active unless none is loaded or one is being removed.
THEOREM ExplorerInvariant ==
  Spec => []IInv
<1>1. Init => IInv
  BY InitOK
<1>2. IInv /\ [Next]_vars => IInv'
  BY StepKeeps
<1>3. QED
  BY <1>1, <1>2, PTL DEF Spec

\* A removed plugin becomes active only through a call that had found it before, and
\* the selection parts from the active plugin only while a go-to reveals.
THEOREM LiveSelection ==
  Spec => SelectionIsLive
<1>1. IInv => OneIsActive
  BY DEF IInv
<1>2. IInv /\ [Next]_vars => [FoundBefore]_vars /\ [PartsInReveal]_vars
  BY FoundBeforeStep, PartsInRevealStep
<1>3. QED
  BY <1>1, <1>2, ExplorerInvariant, PTL DEF Spec, SelectionIsLive

\* The children in a plugin's tree are its own, except under a group that was clicked
\* on a screen that was behind a go-to into that plugin.
THEOREM OwnChildren ==
  Spec => ChildrenOwn
<1>1. IInv /\ [Next]_vars => [StoresOwn]_vars /\ [StartsOwn]_vars
  BY StoresOwnStep, StartsOwnStep
<1>2. QED
  BY <1>1, ExplorerInvariant, PTL DEF Spec, ChildrenOwn

\* When a go-to asks for a scroll its record is selected, its plugin active and every
\* group above the record open, whatever else ran, unless a call made another plugin
\* active, removed this one or closed a group that the go-to had opened.
THEOREM GoToArrives ==
  Spec => GoToShows
<1>1. IInv /\ [Next]_vars => [Arrives]_vars
  BY ArrivesStep
<1>2. QED
  BY <1>1, ExplorerInvariant, PTL DEF Spec, GoToShows

-----------------------------------------------------------------------------
(* The details pane                                                        *)

\* What becomes of the reads under way when one is started, and when one returns that
\* is not the newest of several.
LEMMA QueueFacts ==
  ASSUME NEW S, NEW s \in Seq(S)
  PROVE  /\ \A e \in S : /\ Append(s, e) \in Seq(S)
                         /\ Append(s, e) # <<>>
                         /\ Append(s, e)[Len(Append(s, e))] = e
         /\ \A i \in 1..Len(s) :
              /\ RemoveAt(s, i) \in Seq(S)
              /\ ~ Overtakes(i, s) =>
                   IF RemoveAt(s, i) = <<>>
                   THEN s[i] = s[Len(s)]
                   ELSE RemoveAt(s, i)[Len(RemoveAt(s, i))] = s[Len(s)]
<1>1. ASSUME NEW e \in S
      PROVE  /\ Append(s, e) \in Seq(S)
             /\ Append(s, e) # <<>>
             /\ Append(s, e)[Len(Append(s, e))] = e
  <2> DEFINE r == Append(s, e)
  <2>1. r \in Seq(S) /\ Len(r) = Len(s) + 1 /\ r[Len(s) + 1] = e /\ Len(s) \in Nat
    BY AppendFacts
  <2> HIDE DEF r
  <2>2. QED
    BY <2>1 DEF r
<1>2. ASSUME NEW i \in 1..Len(s)
      PROVE  /\ RemoveAt(s, i) \in Seq(S)
             /\ ~ Overtakes(i, s) =>
                  IF RemoveAt(s, i) = <<>>
                  THEN s[i] = s[Len(s)]
                  ELSE RemoveAt(s, i)[Len(RemoveAt(s, i))] = s[Len(s)]
  <2> DEFINE r == RemoveAt(s, i)
             n == Len(s)
  <2>1. n \in Nat \ {0} /\ i \in 1..n
    OBVIOUS
  <2>2. /\ r \in Seq(S)
        /\ Len(r) = n - 1
        /\ \A j \in 1..(n - 1) : r[j] = IF j < i THEN s[j] ELSE s[j + 1]
    BY <2>1, RemoveAtFacts
  <2> HIDE DEF r, n
  <2>3. CASE n = 1
    BY <2>1, <2>2, <2>3 DEF n, r
  <2>4. CASE n # 1 /\ i # n
    <3>1. n - 1 \in 1..(n - 1) /\ ~ (n - 1 < i) /\ (n - 1) + 1 = n
      BY <2>1, <2>4
    <3>2. r[n - 1] = s[n] /\ r # <<>>
      BY <2>1, <2>2, <2>4, <3>1
    <3>3. QED
      BY <2>2, <3>2 DEF n, r
  <2>5. CASE n # 1 /\ i = n
    BY <2>2, <2>5 DEF Overtakes, n, r
  <2>6. QED
    BY <2>3, <2>4, <2>5
<1>3. QED
  BY <1>1, <1>2

LEMMA PaneInitFacts ==
  ASSUME PaneInit
  PROVE  PaneInv
<1>1. node \notin PaneNodes /\ node \notin Records
  BY NodeAssumption DEF PaneInit, DetailsInit, PaneNodes
<1>2. PaneTypeOK
  <2>1. overtaken \in BOOLEAN /\ pageOvertaken \in BOOLEAN
    BY DEF PaneInit, DetailsInit, HexInit
  <2>2. QED
    BY <2>1 DEF PaneInit, DetailsInit, HexInit, PaneTypeOK
<1>3. FieldsOfNode
  BY <1>1 DEF PaneInit, DetailsInit, FieldsOfNode
<1>4. BytesOfWindow
  BY <1>1 DEF PaneInit, DetailsInit, HexInit, BytesOfWindow
<1>5. QED
  BY <1>2, <1>3, <1>4 DEF PaneInv

\* A read of fields is started only if the selection changed.
LEMMA SetNodeFacts ==
  ASSUME PaneTypeOK, FieldsOfNode, NEW n \in PaneNodes \cup {Nothing}, SetNode(n)
  PROVE  /\ node' = n /\ recordReads' \in Seq(Records) /\ overtaken' \in BOOLEAN
         /\ FieldsOfNode'
<1>1. /\ node' = n /\ loadedFor = node /\ recordReads \in Seq(Records)
      /\ overtaken \in BOOLEAN
  BY DEF SetNode, PaneTypeOK, FieldsOfNode
<1>2. CASE loadedFor = n
  BY <1>1, <1>2 DEF SetNode, FieldsOfNode
<1>3. CASE loadedFor # n
  <2>1. /\ loadedFor' = n /\ recordData' = Nothing /\ recordError' = Nothing
        /\ overtaken' = FALSE
    BY <1>3 DEF SetNode
  <2>2. CASE n \notin Records
    BY <1>1, <1>3, <2>1, <2>2 DEF SetNode, FieldsOfNode
  <2>3. CASE n \in Records
    <3>1. recordReads' = Append(recordReads, n)
      BY <1>3, <2>3 DEF SetNode
    <3>2. /\ recordReads' \in Seq(Records)
          /\ recordReads' # <<>>
          /\ recordReads'[Len(recordReads')] = n
      BY <1>1, <2>3, <3>1, QueueFacts
    <3>3. QED
      BY <1>1, <2>1, <3>2 DEF FieldsOfNode
  <2>4. QED
    BY <2>2, <2>3
<1>4. QED
  BY <1>2, <1>3

\* When the last read that was started is not the first of several to return, it is
\* the last to return.
LEMMA FieldsReadFacts ==
  ASSUME PaneTypeOK, FieldsOfNode,
         NEW i \in 1..Len(recordReads), NEW ok \in BOOLEAN, FieldsRead(i, ok)
  PROVE  recordReads' \in Seq(Records) /\ overtaken' \in BOOLEAN /\ FieldsOfNode'
<1>1. /\ recordReads \in Seq(Records) /\ recordReads # <<>>
      /\ recordReads' = RemoveAt(recordReads, i)
      /\ loadedFor = node
      /\ recordData' = IF ok THEN recordReads[i] ELSE Nothing
      /\ recordError' = IF ok THEN Nothing ELSE recordReads[i]
      /\ node' = node /\ loadedFor' = loadedFor
      /\ overtaken' = (overtaken \/ Overtakes(i, recordReads))
  BY DEF FieldsRead, PaneTypeOK, FieldsOfNode
<1>2. /\ recordReads' \in Seq(Records)
      /\ ~ Overtakes(i, recordReads) =>
           IF recordReads' = <<>>
           THEN recordReads[i] = recordReads[Len(recordReads)]
           ELSE recordReads'[Len(recordReads')] = recordReads[Len(recordReads)]
  BY <1>1, QueueFacts
<1>3. overtaken' \in BOOLEAN
  BY <1>1 DEF PaneTypeOK, Overtakes
<1>4. ASSUME node \in Records, ~ overtaken'
      PROVE  IF recordReads' = <<>>
             THEN {recordData', recordError'} = {node, Nothing}
             ELSE recordReads'[Len(recordReads')] = node
  <2>1. ~ overtaken /\ ~ Overtakes(i, recordReads)
    BY <1>1, <1>4
  <2>2. recordReads[Len(recordReads)] = node
    BY <1>1, <1>4, <2>1 DEF FieldsOfNode
  <2>3. CASE recordReads' = <<>>
    <3>1. recordReads[i] = node
      BY <1>2, <2>1, <2>2, <2>3
    <3>2. QED
      BY <1>1, <2>3, <3>1
  <2>4. CASE recordReads' # <<>>
    BY <1>2, <2>1, <2>2, <2>4
  <2>5. QED
    BY <2>3, <2>4
<1>5. QED
  BY <1>1, <1>2, <1>3, <1>4 DEF FieldsOfNode

LEMMA PageOfAny ==
  ASSUME NEW p, NEW q, NEW w, NEW i
  PROVE  [PageRange(p, w, i) EXCEPT !.plugin = q] = PageRange(q, w, i)
BY DEF PageRange

\* The half of the invariant that is about the hex dump.
HexInv ==
  /\ pageReads \in Seq(Pages) /\ pageIndex \in Int /\ pageOvertaken \in BOOLEAN
  /\ BytesOfWindow

LEMMA LoadPageFacts ==
  ASSUME PaneTypeOK, NEW n \in PaneNodes, NEW i \in Int,
         LoadPage(PluginOf[n], WindowOf[n], i)
  PROVE  /\ pageReads' \in Seq(Pages)
         /\ pageReads' # <<>>
         /\ pageReads'[Len(pageReads')] = PageRange(PluginOf[n], WindowOf[n], i)
         /\ pageOvertaken' = FALSE
<1>1. PageRange(PluginOf[n], WindowOf[n], i) \in Pages
  BY DEF Pages
<1>2. /\ pageReads \in Seq(Pages) /\ pageOvertaken' = FALSE
      /\ pageReads' = Append(pageReads, PageRange(PluginOf[n], WindowOf[n], i))
  BY DEF PaneTypeOK, LoadPage
<1>3. QED
  BY <1>1, <1>2, QueueFacts

\* A window that is compared equal is that of the node shown before, or of its twin.
LEMMA SetWindowFacts ==
  ASSUME PaneTypeOK, BytesOfWindow, NEW n \in PaneNodes, node' = n,
         SetWindow(PluginOf[n], WindowOf[n])
  PROVE  HexInv'
<1>1. /\ plugin' = PluginOf[n] /\ window' = WindowOf[n] /\ loadedWindow = window
      /\ n # Nothing /\ pageReads \in Seq(Pages) /\ pageIndex \in Int
      /\ pageOvertaken \in BOOLEAN
  BY NodeAssumption DEF SetWindow, BytesOfWindow, PaneTypeOK
<1>2. CASE loadedWindow = WindowOf[n]
  <2>1. /\ window' = window /\ loadedWindow' = loadedWindow
        /\ UNCHANGED <<pageIndex, bytes, error, pageReads, pageOvertaken>>
    BY <1>1, <1>2 DEF SetWindow
  <2>2. node # Nothing
    BY <1>1, <1>2, HexAssumption DEF BytesOfWindow, NoWindow
  <2>3. ASSUME ~ pageOvertaken'
        PROVE  \E m \in PaneNodes :
                 /\ WindowOf[m] = window'
                 /\ IF pageReads' = <<>>
                    THEN {bytes', error'} = {PageOf(m)', Nothing}
                    ELSE pageReads'[Len(pageReads')] = PageOf(m)'
    <3>1. PICK m \in PaneNodes :
            /\ WindowOf[m] = window
            /\ IF pageReads = <<>>
               THEN {bytes, error} = {PageOf(m), Nothing}
               ELSE pageReads[Len(pageReads)] = PageOf(m)
      BY <2>1, <2>2, <2>3 DEF BytesOfWindow
    <3>2. PageOf(m)' = PageOf(m)
      BY <2>1, PageOfAny DEF PageOf, Shown
    <3>3. QED
      BY <2>1, <3>1, <3>2
  <2>4. QED
    BY <1>1, <1>2, <2>1, <2>3 DEF HexInv, BytesOfWindow
<1>3. CASE loadedWindow # WindowOf[n]
  <2>1. pageIndex' = 0 /\ loadedWindow' = WindowOf[n] /\ LoadPage(PluginOf[n], WindowOf[n], 0)
    BY <1>3 DEF SetWindow
  <2>2. /\ pageReads' \in Seq(Pages)
        /\ pageReads' # <<>>
        /\ pageReads'[Len(pageReads')] = PageRange(PluginOf[n], WindowOf[n], 0)
        /\ pageOvertaken' = FALSE
    BY <2>1, LoadPageFacts, 0 \in Int
  <2>3. PageOf(n)' = PageRange(PluginOf[n], WindowOf[n], 0)
    BY <1>1, <2>1, PageOfAny DEF PageOf, Shown
  <2>4. /\ WindowOf[n] = window'
        /\ IF pageReads' = <<>>
           THEN {bytes', error'} = {PageOf(n)', Nothing}
           ELSE pageReads'[Len(pageReads')] = PageOf(n)'
    BY <1>1, <2>2, <2>3
  <2>5. BytesOfWindow'
    BY <1>1, <2>1, <2>4 DEF BytesOfWindow
  <2>6. pageOvertaken' \in BOOLEAN
    BY <2>2, Zenon
  <2>7. pageIndex' \in Int
    BY <2>1
  <2>8. QED
    BY <2>2, <2>5, <2>6, <2>7 DEF HexInv
<1>4. QED
  BY <1>2, <1>3

LEMMA TurnFacts ==
  ASSUME PaneTypeOK, BytesOfWindow, NEW delta \in {-1, 1}, Turn(delta)
  PROVE  HexInv'
<1> DEFINE target == MaxOf(0, MinOf(pageIndex + delta, PageCount(window) - 1))
<1>1. /\ node # Nothing /\ node \in PaneNodes /\ node' = node
      /\ window = WindowOf[node] /\ plugin = PluginOf[node]
  BY DEF Turn, Mounted, details, BytesOfWindow, PaneTypeOK
<1>2. /\ pageIndex' = target /\ LoadPage(PluginOf[node], WindowOf[node], target)
      /\ plugin' = plugin /\ window' = window /\ loadedWindow' = loadedWindow
      /\ pageIndex + delta \in 0..(PageCount(window) - 1)
  BY <1>1 DEF Turn, Move
<1>3. target \in Int
  <2>1. target = pageIndex + delta \/ target = PageCount(window) - 1 \/ target = 0
    BY DEF MaxOf, MinOf
  <2>2. PageCount(window) - 1 \in Int
    BY <1>1, HexAssumption DEF PageCount
  <2>3. QED
    BY <2>1, <2>2 DEF PaneTypeOK
<1> HIDE DEF target
<1>4. /\ pageReads' \in Seq(Pages)
      /\ pageReads' # <<>>
      /\ pageReads'[Len(pageReads')] = PageRange(PluginOf[node], WindowOf[node], target)
      /\ pageOvertaken' = FALSE
  BY <1>1, <1>2, <1>3, LoadPageFacts
<1>5. PageOf(node)' = PageRange(PluginOf[node], WindowOf[node], target)
  BY <1>1, <1>2, PageOfAny DEF PageOf, Shown
<1>6. QED
  BY <1>1, <1>2, <1>3, <1>4, <1>5 DEF HexInv, BytesOfWindow

LEMMA PageReadFacts ==
  ASSUME PaneTypeOK, BytesOfWindow, node' = node,
         NEW i \in 1..Len(pageReads), NEW ok \in BOOLEAN, PageRead(i, ok)
  PROVE  HexInv'
<1>1. /\ pageReads \in Seq(Pages) /\ pageReads # <<>> /\ pageIndex' \in Int
      /\ pageReads' = RemoveAt(pageReads, i)
      /\ bytes' = IF ok THEN pageReads[i] ELSE Nothing
      /\ error' = IF ok THEN Nothing ELSE pageReads[i]
      /\ pageOvertaken' = (pageOvertaken \/ Overtakes(i, pageReads))
      /\ UNCHANGED <<plugin, window, loadedWindow, pageIndex>>
  BY DEF PageRead, PaneTypeOK
<1>2. /\ pageReads' \in Seq(Pages)
      /\ ~ Overtakes(i, pageReads) =>
           IF pageReads' = <<>>
           THEN pageReads[i] = pageReads[Len(pageReads)]
           ELSE pageReads'[Len(pageReads')] = pageReads[Len(pageReads)]
  BY <1>1, QueueFacts
<1>3. pageOvertaken' \in BOOLEAN
  BY <1>1 DEF PaneTypeOK, Overtakes
<1>4. ASSUME node # Nothing, ~ pageOvertaken'
      PROVE  \E m \in PaneNodes :
               /\ WindowOf[m] = window'
               /\ IF pageReads' = <<>>
                  THEN {bytes', error'} = {PageOf(m)', Nothing}
                  ELSE pageReads'[Len(pageReads')] = PageOf(m)'
  <2>1. ~ pageOvertaken /\ ~ Overtakes(i, pageReads)
    BY <1>1, <1>4
  <2>2. PICK m \in PaneNodes :
          WindowOf[m] = window /\ pageReads[Len(pageReads)] = PageOf(m)
    BY <1>1, <1>4, <2>1 DEF BytesOfWindow
  <2>3. PageOf(m)' = PageOf(m)
    BY <1>1 DEF PageOf, Shown
  <2>4. CASE pageReads' = <<>>
    <3>1. pageReads[i] = PageOf(m)'
      BY <1>2, <2>1, <2>2, <2>3, <2>4
    <3>2. {bytes', error'} = {PageOf(m)', Nothing}
      BY <1>1, <3>1
    <3>3. QED
      BY <1>1, <2>2, <2>4, <3>2
  <2>5. CASE pageReads' # <<>>
    <3>1. pageReads'[Len(pageReads')] = PageOf(m)'
      BY <1>2, <2>1, <2>2, <2>3, <2>5
    <3>2. QED
      BY <1>1, <2>2, <2>5, <3>1
  <2>6. QED
    BY <2>4, <2>5
<1>5. QED
  BY <1>1, <1>2, <1>3, <1>4 DEF HexInv, BytesOfWindow

LEMMA ShowFacts ==
  ASSUME PaneInv, NEW n \in PaneNodes \cup {Nothing}, Show(n)
  PROVE  PaneInv'
<1>1. PaneTypeOK /\ FieldsOfNode /\ BytesOfWindow
  BY DEF PaneInv
<1>2. node' = n /\ recordReads' \in Seq(Records) /\ overtaken' \in BOOLEAN /\ FieldsOfNode'
  BY <1>1, SetNodeFacts DEF Show
<1>3. HexInv'
  <2>1. CASE n = Nothing
    <3>1. /\ pageReads' = <<>> /\ pageIndex' = 0 /\ pageOvertaken' = FALSE
          /\ window' = NoWindow /\ loadedWindow' = NoWindow /\ node' = Nothing
      BY <1>2, <2>1 DEF Show, Unmount
    <3>2. pageOvertaken' \in BOOLEAN
      BY <3>1
    <3>3. BytesOfWindow'
      BY <3>1 DEF BytesOfWindow
    <3>4. pageReads' \in Seq(Pages) /\ pageIndex' \in Int
      BY <3>1
    <3>5. QED
      BY <3>2, <3>3, <3>4 DEF HexInv
  <2>2. CASE n # Nothing
    BY <1>1, <1>2, <2>2, SetWindowFacts DEF Show
  <2>3. QED
    BY <2>1, <2>2
<1>4. QED
  BY <1>2, <1>3 DEF PaneInv, PaneTypeOK, HexInv

\* Where half of the pane is left alone, what holds of it stays.
LEMMA PaneNextFacts ==
  ASSUME PaneInv, [PaneNext]_paneVars
  PROVE  PaneInv'
<1>1. PaneTypeOK /\ FieldsOfNode /\ BytesOfWindow
  BY DEF PaneInv
<1>2. UNCHANGED details =>
        node' = node /\ recordReads' \in Seq(Records) /\ overtaken' \in BOOLEAN /\ FieldsOfNode'
  <2>1. UNCHANGED details =>
          UNCHANGED <<node, loadedFor, recordData, recordError, recordReads, overtaken>>
    BY DEF details
  <2>2. UNCHANGED details => FieldsOfNode'
    BY <1>1, <2>1 DEF FieldsOfNode
  <2>3. QED
    BY <1>1, <2>1, <2>2 DEF PaneTypeOK
<1>3. UNCHANGED <<hex, node>> => HexInv'
  <2>1. UNCHANGED <<hex, node>> =>
          UNCHANGED <<node, plugin, window, loadedWindow, pageIndex, bytes, error, pageReads,
                      pageOvertaken>>
    BY DEF hex
  <2>2. UNCHANGED <<hex, node>> => \A n \in PaneNodes : PageOf(n)' = PageOf(n)
    BY <2>1 DEF PageOf, Shown
  <2>3. UNCHANGED <<hex, node>> => BytesOfWindow'
    BY <1>1, <2>1, <2>2 DEF BytesOfWindow
  <2>4. QED
    BY <1>1, <2>1, <2>3 DEF HexInv, PaneTypeOK
<1>4. CASE \E n \in PaneNodes \cup {Nothing} : Show(n)
  BY <1>4, ShowFacts
<1>5. CASE \E delta \in {-1, 1} : Turn(delta)
  <2>1. PICK delta \in {-1, 1} : Turn(delta)
    BY <1>5
  <2>2. UNCHANGED details
    BY <2>1 DEF Turn
  <2>3. HexInv'
    BY <1>1, <2>1, TurnFacts
  <2>4. QED
    BY <1>1, <1>2, <2>2, <2>3 DEF PaneInv, PaneTypeOK, HexInv
<1>6. ASSUME NEW i \in 1..Len(recordReads), NEW ok \in BOOLEAN,
             FieldsRead(i, ok), UNCHANGED hex
      PROVE  PaneInv'
  <2>1. recordReads' \in Seq(Records) /\ overtaken' \in BOOLEAN /\ FieldsOfNode'
    BY <1>1, <1>6, FieldsReadFacts
  <2>2. node' = node
    BY <1>6 DEF FieldsRead
  <2>3. QED
    BY <1>1, <1>3, <1>6, <2>1, <2>2 DEF PaneInv, PaneTypeOK, HexInv
<1>7. ASSUME NEW i \in 1..Len(pageReads), NEW ok \in BOOLEAN,
             PageRead(i, ok), UNCHANGED details
      PROVE  PaneInv'
  <2>1. node' = node
    BY <1>2, <1>7
  <2>2. HexInv'
    BY <1>1, <1>7, <2>1, PageReadFacts
  <2>3. QED
    BY <1>1, <1>2, <1>7, <2>2 DEF PaneInv, PaneTypeOK, HexInv
<1>8. CASE UNCHANGED paneVars
  BY <1>1, <1>2, <1>3, <1>8 DEF paneVars, details, PaneInv, PaneTypeOK, HexInv
<1>9. QED
  BY <1>4, <1>5, <1>6, <1>7, <1>8 DEF PaneNext, Returns

\* The last read that was started is for the selected node (for the current page, of a
\* plugin that has a node at this window), and returns last unless it overtakes another.
THEOREM PaneInvariant ==
  PaneSpec => []PaneInv
<1>1. PaneInit => PaneInv
  BY PaneInitFacts
<1>2. PaneInv /\ [PaneNext]_paneVars => PaneInv'
  BY PaneNextFacts
<1>3. QED
  BY <1>1, <1>2, PTL DEF PaneSpec

\* When every read has returned, the pane shows the fields of the selected record and
\* the current page of its bytes, or of the bytes of a twin of another plugin, except
\* where the newest read returned before an earlier one.
THEOREM PaneSettlesRight ==
  PaneSpec => []SettlesRight
<1>1. PaneInv => SettlesRight
  <2>1. SUFFICES ASSUME PaneInv, recordReads = <<>>, pageReads = <<>>
                 PROVE  SettlesRight
    BY DEF SettlesRight
  <2>2. node \in Records /\ ~ overtaken => {recordData, recordError} = {node, Nothing}
    BY <2>1 DEF PaneInv, FieldsOfNode
  <2>3. node # Nothing => window = WindowOf[node] /\ plugin = PluginOf[node]
    BY <2>1 DEF PaneInv, BytesOfWindow
  <2>4. ASSUME node # Nothing, ~ pageOvertaken
        PROVE  \E from \in {plugin} \cup (IF Twins(node) THEN Range(PluginOf) ELSE {}) :
                 {bytes, error} = {[Shown EXCEPT !.plugin = from], Nothing}
    <3>1. PICK m \in PaneNodes :
            WindowOf[m] = window /\ {bytes, error} = {[Shown EXCEPT !.plugin = PluginOf[m]], Nothing}
      BY <2>1, <2>4 DEF PaneInv, BytesOfWindow, PageOf
    <3>2. PluginOf[m] # plugin => Twins(node) /\ PluginOf[m] \in Range(PluginOf)
      BY <2>3, <2>4, <3>1, HexAssumption DEF Twins, Range
    <3>3. PluginOf[m] \in {plugin} \cup (IF Twins(node) THEN Range(PluginOf) ELSE {})
      BY <3>2
    <3>4. QED
      BY <3>1, <3>3
  <2>5. QED
    BY <2>2, <2>3, <2>4 DEF SettlesRight
<1>2. QED
  BY <1>1, PaneInvariant, PTL
=============================================================================
