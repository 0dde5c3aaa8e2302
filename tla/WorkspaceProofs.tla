--------------------------- MODULE WorkspaceProofs ---------------------------
(***************************************************************************)
(* Proofs about PluginWorkspace, for any number of calls and any plugins,  *)
(* and, from them, about HomePage, the pages that add to it, for any       *)
(* number of pages, selections and files.                                  *)
(***************************************************************************)
EXTENDS HomePage, SequenceFacts

-----------------------------------------------------------------------------
(* Lookups and calls                                                       *)

\* FindByName returns a loaded plugin of that name, or nothing if there is none.
LEMMA FindByNameFacts ==
  ASSUME loaded \in Seq(Sources), NEW name
  PROVE  \/ /\ FindByName(name) = NoPlugin
            /\ \A i \in 1..Len(loaded) : NameOf[loaded[i]] # name
         \/ /\ FindByName(name) \in Sources /\ FindByName(name) # NoPlugin
            /\ IsLoaded(FindByName(name))
            /\ NameOf[FindByName(name)] = name
<1> DEFINE I == {j \in 1..Len(loaded) : NameOf[loaded[j]] = name}
           first == IF I # {} THEN Min(I) ELSE 0
<1>1. I \in SUBSET Nat /\ 0 \notin I
  OBVIOUS
<1>2. I # {} => Min(I) \in I
  BY <1>1, MinFacts
<1>3. FindByName(name) = IF first = 0 THEN NoPlugin ELSE loaded[first]
  BY DEF FindByName, SelectInSeq
<1>4. /\ \A j \in 1..Len(loaded) : j \notin I => NameOf[loaded[j]] # name
      /\ \A j \in I : j \in 1..Len(loaded) /\ NameOf[loaded[j]] = name
  OBVIOUS
<1>5. \A j \in 1..Len(loaded) : loaded[j] \in Sources
  OBVIOUS
<1> HIDE DEF I
<1>6. CASE I = {}
  BY <1>3, <1>4, <1>6
<1>7. CASE I # {}
  <2>1. first \in I /\ first # 0
    BY <1>1, <1>2, <1>7
  <2>2. FindByName(name) = loaded[first]
    BY <1>3, <2>1
  <2> HIDE DEF first
  <2>3. QED
    BY <1>4, <1>5, <2>1, <2>2, WorkspaceAssumption DEF IsLoaded, Contains
<1>8. QED
  BY <1>6, <1>7

\* What a call works on is not null while it is in progress.
InProgress(c) == c.at \notin Results => c.plugin # NoPlugin

TasksOK == task \in [Tasks -> Calls] /\ \A t \in Tasks : InProgress(task[t])

LEMMA BecomeFacts ==
  ASSUME task \in [Tasks -> Calls], NEW t \in Tasks, NEW c \in Calls, Become(t, c)
  PROVE  /\ task' \in [Tasks -> Calls]
         /\ task'[t] = c
         /\ \A u \in Tasks \ {t} : task'[u] = task[u]
  BY DEF Become

LEMMA ReturnedFacts ==
  /\ Returned \in Calls /\ Returned.at = "none" /\ InProgress(Returned) /\ AnswerOK(Returned)
  BY DEF Returned, Call, Calls, Results, InProgress, AnswerOK

\* A call goes on to another point.
LEMMA AtFacts ==
  ASSUME NEW c \in Calls, NEW a,
         a \in Results \cup {"opening", "discarding", "removing", "waiting", "granted", "building",
                             "finishing", "indexed", "locating", "orphaned"}
  PROVE  /\ [c EXCEPT !.at = a] \in Calls
         /\ [c EXCEPT !.at = a].at = a
         /\ [c EXCEPT !.at = a].plugin = c.plugin
         /\ [c EXCEPT !.at = a].question = c.question
  BY DEF Calls

-----------------------------------------------------------------------------
(* The gate                                                                *)

\* The holder of the gate does not wait, and nobody else is past it.
LEMMA HolderFacts ==
  ASSUME TypeOK, GateAgrees, NEW t \in Tasks, task[t].at \in PastGate
  PROVE  /\ holder = t
         /\ \A u \in Tasks \ {t} : task[u].at \notin PastGate
         /\ ~ Contains(queue, t)
  BY DEF GateAgrees, PastGate

\* A call moves and the gate does not.
LEMMA MoveKeeps ==
  ASSUME TypeOK, GateAgrees, Answers, NEW t \in Tasks, NEW c \in Calls,
         Become(t, c), UNCHANGED <<gate, life>>,
         InProgress(c), AnswerOK(c),
         c.at \in PastGate <=> task[t].at \in PastGate,
         c.at = "waiting" <=> task[t].at = "waiting"
  PROVE  TasksOK' /\ GateAgrees' /\ Answers'
<1>1. /\ task' \in [Tasks -> Calls]
      /\ task'[t] = c
      /\ \A u \in Tasks \ {t} : task'[u] = task[u]
  BY BecomeFacts DEF TypeOK
<1>2. TasksOK'
  BY <1>1 DEF TasksOK, InProgress, TypeOK, Over
<1>3. GateAgrees'
  BY <1>1 DEF GateAgrees, gate, Contains
<1>4. Answers'
  BY <1>1 DEF Answers
<1>5. QED
  BY <1>2, <1>3, <1>4

\* The holder releases the gate: the first in line, if any, is granted it.
LEMMA ReleaseKeeps ==
  ASSUME TypeOK, GateAgrees, Answers, NEW t \in Tasks, NEW c \in Calls,
         task[t].at \in PastGate, Release(t, c), UNCHANGED life,
         InProgress(c), AnswerOK(c), c.at \notin PastGate \cup {"waiting", "opening"}
  PROVE  /\ TasksOK' /\ GateAgrees' /\ Answers'
         /\ holder' \in Tasks \cup {NoOne} /\ queue' \in Seq(Tasks)
         /\ \A u \in Tasks : task'[u].at = "opening" => task'[u] = task[u]
         /\ \A u \in Tasks : task'[u].at \notin {"building", "finishing"}
<1> DEFINE n == NextInLine
<1>1. /\ holder = t
      /\ \A u \in Tasks \ {t} : task[u].at \notin PastGate
      /\ ~ Contains(queue, t)
  BY HolderFacts
<1>2. queue \in Seq(Tasks) /\ Len(queue) \in Nat /\ task \in [Tasks -> Calls]
  BY DEF TypeOK
<1>3. /\ holder' = n
      /\ queue' = IF queue = <<>> THEN <<>> ELSE Tail(queue)
  BY DEF Release, PassOn
<1>4. CASE queue = <<>>
  <2>1. holder' = NoOne /\ queue' = <<>>
    BY <1>3, <1>4 DEF NextInLine
  <2>2. PICK d \in Calls :
          /\ d.at \notin PastGate \cup {"waiting", "opening"} /\ InProgress(d) /\ AnswerOK(d)
          /\ task' \in [Tasks -> Calls] /\ task'[t] = d
          /\ \A u \in Tasks \ {t} : task'[u] = task[u]
    <3>1. CASE life = "disposed" /\ Become(t, Returned)
      <4>1. Returned.at \notin PastGate \cup {"waiting", "opening"}
        BY ReturnedFacts DEF PastGate
      <4>2. QED
        BY <1>2, <3>1, <4>1, ReturnedFacts, BecomeFacts
    <3>2. CASE life # "disposed"
      <4>1. n \notin Tasks
        BY <1>4, WorkspaceAssumption DEF NextInLine
      <4>2. task' = [u \in Tasks |-> IF u = t THEN c ELSE IF u = n THEN [task[u] EXCEPT !.at = "granted"]
                                     ELSE task[u]]
        BY <3>2 DEF Release
      <4> HIDE DEF n
      <4>3. task' = [u \in Tasks |-> IF u = t THEN c ELSE task[u]]
        BY <4>1, <4>2
      <4>4. QED
        BY <1>2, <4>3
    <3>3. QED
      BY <3>1, <3>2 DEF Release
  <2>3. TasksOK'
    BY <2>2 DEF TasksOK, InProgress, TypeOK, Over
  <2>4. GateAgrees'
    <3>1. \A u \in Tasks : task[u].at # "waiting"
      BY <1>4 DEF GateAgrees, Contains
    <3>2. \A u \in Tasks : task'[u].at # "waiting" /\ task'[u].at \notin PastGate
      BY <1>1, <2>2, <3>1
    <3>3. QED
      BY <2>1, <3>2, WorkspaceAssumption DEF GateAgrees, Contains
  <2>5. Answers'
    BY <2>2 DEF Answers
  <2>6. QED
    BY <1>1, <2>1, <2>2, <2>3, <2>4, <2>5 DEF PastGate
<1>5. CASE queue # <<>>
  <2>1. /\ Tail(queue) \in Seq(Tasks)
        /\ Len(Tail(queue)) = Len(queue) - 1
        /\ \A j \in 1..(Len(queue) - 1) : Tail(queue)[j] = queue[j + 1]
        /\ n = queue[1] /\ n \in Tasks
        /\ Len(queue) \in Nat \ {0}
    BY <1>2, <1>5, TailFacts DEF NextInLine
  <2>2. holder' = n /\ queue' = Tail(queue)
    BY <1>3, <1>5
  <2> HIDE DEF n
  <2>3. life # "disposed" /\ Contains(queue, n) /\ n # t
    BY <1>1, <1>5, <2>1 DEF GateAgrees, Contains
  <2>4. task' = [u \in Tasks |-> IF u = t THEN c ELSE IF u = n THEN [task[u] EXCEPT !.at = "granted"]
                                 ELSE task[u]]
    BY <2>3 DEF Release, n
  <2>5. /\ task[n].at = "waiting" /\ task[n] \in Calls
        /\ [task[n] EXCEPT !.at = "granted"] \in Calls
        /\ [task[n] EXCEPT !.at = "granted"].at = "granted"
        /\ [task[n] EXCEPT !.at = "granted"].plugin = task[n].plugin
        /\ [task[n] EXCEPT !.at = "granted"].question = task[n].question
    <3>1. task[n].at = "waiting" /\ task[n] \in Calls
      BY <1>2, <2>1, <2>3 DEF GateAgrees
    <3>2. QED
      BY <3>1, AtFacts
  <2>6. PICK g \in Calls :
          /\ g.at = "granted" /\ g.plugin = task[n].plugin /\ g.question = task[n].question
          /\ task' \in [Tasks -> Calls] /\ task'[t] = c /\ task'[n] = g
          /\ \A u \in Tasks \ {t, n} : task'[u] = task[u]
    BY <1>2, <2>1, <2>3, <2>4, <2>5
  <2>7. TasksOK'
    BY <2>5, <2>6 DEF TasksOK, InProgress, TypeOK, Over, Results
  <2>8. Answers'
    <3>1. AnswerOK(g)
      BY <2>1, <2>5, <2>6 DEF Answers, AnswerOK, PastGate
    <3>2. QED
      BY <2>6, <3>1 DEF Answers
  <2>9. GateAgrees'
    <3>1. \A i, j \in 1..Len(queue') : queue'[i] = queue'[j] => i = j
      BY <2>1, <2>2 DEF GateAgrees
    <3>2. ASSUME NEW u \in Tasks
          PROVE  Contains(queue', u) <=> Contains(queue, u) /\ u # n
      <4>1. \A i, j \in 1..Len(queue) : queue[i] = queue[j] => i = j
        BY DEF GateAgrees
      <4>2. ASSUME NEW j \in 1..Len(queue), queue[j] = u, u # n
            PROVE  j - 1 \in 1..(Len(queue) - 1) /\ Tail(queue)[j - 1] = u
        BY <2>1, <4>2
      <4>3. ASSUME NEW j \in 1..(Len(queue) - 1), Tail(queue)[j] = u
            PROVE  j + 1 \in 1..Len(queue) /\ queue[j + 1] = u /\ u # n
        BY <2>1, <4>1, <4>3
      <4>4. QED
        BY <2>1, <2>2, <4>2, <4>3 DEF Contains
    <3>3. \A u \in Tasks : task'[u].at = "waiting" <=> task[u].at = "waiting" /\ u # n
      BY <1>1, <2>3, <2>6 DEF GateAgrees
    <3>4. \A u \in Tasks : task'[u].at \in PastGate <=> u = n
      BY <1>1, <2>3, <2>6 DEF PastGate
    <3>5. holder' # NoOne /\ life' # "disposed"
      BY <2>1, <2>2, <2>3, WorkspaceAssumption
    <3>6. QED
      BY <2>2, <3>1, <3>2, <3>3, <3>4, <3>5 DEF GateAgrees
  <2>10. QED
    BY <1>1, <2>1, <2>2, <2>6, <2>7, <2>8, <2>9 DEF PastGate
<1>6. QED
  BY <1>4, <1>5

\* A call that is over asks again and comes to the gate.
LEMMA ArriveKeeps ==
  ASSUME TypeOK, GateAgrees, Answers, NEW t \in Tasks, NEW p \in Sources, NEW ref \in References,
         Over(t), Arrive(t, p, ref), UNCHANGED life,
         NameOf[p] = ResolveOrigin(ref.context, ref.id)
  PROVE  /\ TasksOK' /\ GateAgrees' /\ Answers'
         /\ holder' \in Tasks \cup {NoOne} /\ queue' \in Seq(Tasks)
         /\ \A u \in Tasks : task'[u].at = "opening" => task'[u] = task[u]
         /\ \A u \in Tasks : task'[u].at \in {"building", "finishing"} => task'[u] = task[u]
<1>1. task[t].at \notin PastGate /\ task[t].at # "waiting"
  BY DEF Over, Results, PastGate
<1>2. task \in [Tasks -> Calls] /\ queue \in Seq(Tasks) /\ Len(queue) \in Nat
  BY DEF TypeOK
<1>3. ~ Contains(queue, t) /\ holder # t
  BY <1>1 DEF GateAgrees
<1>4. CASE Become(t, Returned) /\ UNCHANGED gate
  <2>1. Returned.at \notin PastGate /\ Returned.at # "waiting"
    BY ReturnedFacts DEF PastGate
  <2>2. TasksOK' /\ GateAgrees' /\ Answers'
    BY <1>1, <1>4, <2>1, ReturnedFacts, MoveKeeps
  <2>3. task'[t] = Returned /\ \A u \in Tasks \ {t} : task'[u] = task[u]
    BY <1>2, <1>4, ReturnedFacts, BecomeFacts
  <2>4. QED
    BY <1>4, <2>2, <2>3, ReturnedFacts DEF TypeOK, gate
<1>5. ASSUME NEW a \in {"granted", "waiting"}, Become(t, Call(a, p, ref))
      PROVE  /\ TasksOK' /\ Answers'
             /\ task'[t].at = a /\ \A u \in Tasks \ {t} : task'[u] = task[u]
  <2> DEFINE d == Call(a, p, ref)
  <2>1. /\ d \in Calls
        /\ d.at = a /\ d.plugin = p /\ d.question = ref
    BY DEF Call, Calls
  <2> HIDE DEF d
  <2>2. /\ task' \in [Tasks -> Calls]
        /\ task'[t] = d
        /\ \A u \in Tasks \ {t} : task'[u] = task[u]
    BY <1>2, <1>5, <2>1, BecomeFacts DEF d
  <2>3. InProgress(d) /\ AnswerOK(d)
    BY <2>1, WorkspaceAssumption DEF InProgress, AnswerOK
  <2>4. QED
    BY <2>1, <2>2, <2>3 DEF TasksOK, Answers, InProgress, TypeOK, Over
<1>6. CASE life # "disposed" /\ Take(t) /\ Become(t, Call("granted", p, ref))
  <2>1. /\ TasksOK' /\ Answers'
        /\ task'[t].at = "granted" /\ \A u \in Tasks \ {t} : task'[u] = task[u]
    BY <1>5, <1>6
  <2>2. holder = NoOne /\ holder' = t /\ queue' = queue
    BY <1>6 DEF Take
  <2>3. GateAgrees'
    <3>1. \A u \in Tasks : task'[u].at \in PastGate <=> u = t
      BY <2>1, <2>2, WorkspaceAssumption DEF GateAgrees, PastGate
    <3>2. \A u \in Tasks : task'[u].at = "waiting" <=> task[u].at = "waiting"
      BY <1>1, <2>1
    <3>3. QED
      BY <1>6, <2>2, <3>1, <3>2 DEF GateAgrees, Contains
  <2>4. QED
    BY <1>2, <2>1, <2>2, <2>3
<1>7. CASE life # "disposed" /\ Join(t) /\ Become(t, Call("waiting", p, ref))
  <2>1. /\ TasksOK' /\ Answers'
        /\ task'[t].at = "waiting" /\ \A u \in Tasks \ {t} : task'[u] = task[u]
    BY <1>5, <1>7
  <2>2. holder # NoOne /\ holder' = holder /\ queue' = Append(queue, t)
    BY <1>7 DEF Join
  <2>3. /\ queue' \in Seq(Tasks)
        /\ \A i, j \in 1..Len(queue') : queue'[i] = queue'[j] => i = j
        /\ \A u : Contains(queue', u) <=> Contains(queue, u) \/ u = t
    <3>1. \A i, j \in 1..Len(queue) : queue[i] = queue[j] => i = j
      BY DEF GateAgrees
    <3>2. QED
      BY <1>2, <1>3, <2>2, <3>1, AppendOnceFacts
  <2>4. GateAgrees'
    <3>1. \A u \in Tasks : task'[u].at = "waiting" <=> task[u].at = "waiting" \/ u = t
      BY <2>1
    <3>2. \A u \in Tasks : task'[u].at \in PastGate <=> holder' = u
      BY <1>3, <2>1, <2>2 DEF GateAgrees, PastGate
    <3>3. holder' # NoOne /\ life' # "disposed"
      BY <1>7, <2>2
    <3>4. QED
      BY <2>3, <3>1, <3>2, <3>3 DEF GateAgrees
  <2>5. QED
    BY <2>1, <2>2, <2>3, <2>4 DEF TypeOK
<1>8. QED
  BY <1>4, <1>6, <1>7 DEF Arrive

\* A waiting call leaves the line.
LEMMA WithdrawKeeps ==
  ASSUME TypeOK, GateAgrees, Answers, NEW t \in Tasks,
         task[t].at = "waiting", Withdraw(t), Become(t, Returned), UNCHANGED life
  PROVE  /\ TasksOK' /\ GateAgrees' /\ Answers'
         /\ holder' \in Tasks \cup {NoOne} /\ queue' \in Seq(Tasks)
         /\ \A u \in Tasks : task'[u].at = "opening" => task'[u] = task[u]
         /\ \A u \in Tasks : task'[u].at \in {"building", "finishing"} => task'[u] = task[u]
<1>1. /\ task' \in [Tasks -> Calls] /\ task'[t] = Returned
      /\ \A u \in Tasks \ {t} : task'[u] = task[u]
  BY ReturnedFacts, BecomeFacts DEF TypeOK
<1>2. queue \in Seq(Tasks) /\ Len(queue) \in Nat /\ holder' = holder
  BY DEF TypeOK, Withdraw
<1>3. PICK i \in 1..Len(queue) : queue[i] = t /\ queue' = RemoveAt(queue, i)
  BY DEF Withdraw
<1>4. /\ queue' \in Seq(Tasks)
      /\ \A j, k \in 1..Len(queue') : queue'[j] = queue'[k] => j = k
      /\ \A u : Contains(queue', u) <=> Contains(queue, u) /\ u # t
  <2>1. \A j, k \in 1..Len(queue) : queue[j] = queue[k] => j = k
    BY DEF GateAgrees
  <2>2. QED
    BY <1>2, <1>3, <2>1, RemoveOnceFacts
<1>5. TasksOK'
  BY <1>1, ReturnedFacts DEF TasksOK, InProgress, TypeOK, Over
<1>6. Answers'
  BY <1>1, ReturnedFacts DEF Answers
<1>7. GateAgrees'
  <2>1. \A u \in Tasks : task'[u].at = "waiting" <=> task[u].at = "waiting" /\ u # t
    BY <1>1, ReturnedFacts
  <2>2. \A u \in Tasks : task'[u].at \in PastGate <=> task[u].at \in PastGate
    BY <1>1, ReturnedFacts DEF PastGate
  <2>3. holder' = NoOne \/ life' = "disposed" => queue' = <<>>
    BY <1>2, <1>3, WorkspaceAssumption DEF GateAgrees
  <2>4. QED
    BY <1>2, <1>4, <2>1, <2>2, <2>3 DEF GateAgrees
<1>8. QED
  BY <1>1, <1>2, <1>4, <1>5, <1>6, <1>7, ReturnedFacts DEF TypeOK

-----------------------------------------------------------------------------
(* What a step has to show                                                 *)

GateTypes == holder \in Tasks \cup {NoOne} /\ queue \in Seq(Tasks)

ListTypes ==
  /\ loaded \in Seq(Sources)
  /\ indexes \subseteq Sources
  /\ life \in {"open", "disposing", "disposed", "broken"}
  /\ cursor \in Nat
  /\ modified \in BOOLEAN
  /\ source \in [Sources -> {"unused", "opening", "open", "duplicate", "rejected"}]
  /\ closes \in [Sources -> Nat]

\* A call that builds an index has none yet.
NoneBefore(c) == c.at \in {"building", "finishing"} => c.plugin \notin indexes

LEMMA Assemble ==
  ASSUME TasksOK', GateTypes', ListTypes', GateAgrees', Answers',
         EachOnce', OwnershipKept', PrefixDisposed',
         \A u \in Tasks : NoneBefore(task[u])'
  PROVE  IInv'
<1>1. TypeOK'
  BY DEF TypeOK, TasksOK, GateTypes, ListTypes, InProgress, Over
<1>2. BuiltOnce'
  BY DEF BuiltOnce, NoneBefore, GateAgrees, PastGate
<1>3. QED
  BY <1>1, <1>2 DEF IInv

\* A step that leaves the list, the sources and the disposal alone, and starts to
\* open nothing.
LEMMA QuietLists ==
  ASSUME IInv, UNCHANGED <<loaded, source, closes, disposal>>,
         \A u \in Tasks : task'[u].at = "opening" => task'[u] = task[u]
  PROVE  EachOnce' /\ OwnershipKept' /\ PrefixDisposed'
<1>1. EachOnce'
  BY DEF IInv, EachOnce
<1>2. OwnershipKept'
  BY DEF IInv, OwnershipKept, IsLoaded, Contains, disposal
<1>3. PrefixDisposed'
  BY DEF IInv, PrefixDisposed, disposal
<1>4. QED
  BY <1>1, <1>2, <1>3

\* A call moves, and nothing else changes.
LEMMA QuietMove ==
  ASSUME IInv, NEW t \in Tasks, NEW c \in Calls, Become(t, c),
         UNCHANGED <<loaded, indexes, gate, disposal, source, closes>>,
         InProgress(c), AnswerOK(c), NoneBefore(c), c.at # "opening",
         c.at \in PastGate <=> task[t].at \in PastGate,
         c.at = "waiting" <=> task[t].at = "waiting"
  PROVE  IInv'
<1>1. TasksOK' /\ GateAgrees' /\ Answers'
  BY MoveKeeps DEF IInv, disposal
<1>2. task'[t] = c /\ \A u \in Tasks \ {t} : task'[u] = task[u]
  BY BecomeFacts DEF IInv, TypeOK
<1>3. EachOnce' /\ OwnershipKept' /\ PrefixDisposed'
  BY <1>2, QuietLists
<1>4. GateTypes' /\ ListTypes'
  BY DEF IInv, TypeOK, GateTypes, ListTypes, gate, disposal
<1>5. \A u \in Tasks : NoneBefore(task[u])'
  BY <1>2 DEF IInv, BuiltOnce, NoneBefore
<1>6. QED
  BY <1>1, <1>3, <1>4, <1>5, Assemble

\* A call ends, and nothing else changes.
LEMMA ReturnKeeps ==
  ASSUME IInv, NEW t \in Tasks, Become(t, Returned),
         task[t].at \notin PastGate \cup {"waiting"},
         UNCHANGED <<loaded, indexes, gate, disposal, source, closes>>
  PROVE  IInv'
<1>1. /\ NoneBefore(Returned) /\ Returned.at # "opening"
      /\ Returned.at \notin PastGate /\ Returned.at # "waiting"
  BY ReturnedFacts DEF NoneBefore, PastGate
<1>2. QED
  BY <1>1, ReturnedFacts, QuietMove

\* A call goes on to another point, and nothing else changes.
LEMMA ContinueKeeps ==
  ASSUME IInv, NEW t \in Tasks,
         NEW a, a \in {"building", "finishing", "not found", "locating", "resolved"},
         Continue(t, a), task[t].at \notin Results \cup {"waiting"},
         UNCHANGED <<loaded, indexes, gate, disposal, source, closes>>,
         a \in PastGate <=> task[t].at \in PastGate,
         a = "building" => task[t].plugin \notin indexes,
         a = "finishing" => task[t].at = "building",
         task[t].at \in PastGate \cup {"indexed", "locating"},
         a \in {"locating", "resolved"} => Stored(task[t]),
         a = "not found" => ~ Stored(task[t])
  PROVE  IInv'
<1> DEFINE c == [task[t] EXCEPT !.at = a]
<1>1. task[t] \in Calls /\ InProgress(task[t]) /\ AnswerOK(task[t]) /\ NoneBefore(task[t])
  BY DEF IInv, TypeOK, InProgress, Over, Answers, BuiltOnce, NoneBefore
<1>2. /\ c \in Calls
      /\ c.at = a /\ c.plugin = task[t].plugin /\ c.question = task[t].question
  BY <1>1, AtFacts DEF Results
<1>3. Become(t, c)
  BY DEF Continue
<1> HIDE DEF c
<1>4. InProgress(c) /\ NoneBefore(c)
  BY <1>1, <1>2 DEF InProgress, NoneBefore
<1>5. AnswerOK(c)
  BY <1>1, <1>2 DEF AnswerOK, Stored
<1>6. QED
  BY <1>2, <1>3, <1>4, <1>5, QuietMove

\* A step at the gate.
LEMMA GateStepKeeps ==
  ASSUME IInv, UNCHANGED <<loaded, disposal, source, closes>>, indexes' \subseteq Sources,
         TasksOK', GateAgrees', Answers', GateTypes',
         \A u \in Tasks : task'[u].at = "opening" => task'[u] = task[u],
         \A u \in Tasks : NoneBefore(task[u])'
  PROVE  IInv'
<1>1. EachOnce' /\ OwnershipKept' /\ PrefixDisposed'
  BY QuietLists
<1>2. ListTypes'
  BY DEF IInv, TypeOK, ListTypes, disposal
<1>3. QED
  BY <1>1, <1>2, Assemble

-----------------------------------------------------------------------------
(* The invariant is kept by every step                                     *)

LEMMA InitOK == Init => IInv
<1> SUFFICES ASSUME Init PROVE IInv
  OBVIOUS
<1> USE ReturnedFacts
<1>1. TypeOK
  <2>1. loaded \in Seq(Sources) /\ queue \in Seq(Tasks)
    BY DEF Init, GateInit
  <2>2. /\ source \in [Sources -> {"unused", "opening", "open", "duplicate", "rejected"}]
        /\ closes \in [Sources -> Nat]
    BY DEF Init
  <2>3. task \in [Tasks -> Calls] /\ \A t \in Tasks : ~ Over(t) => task[t].plugin # NoPlugin
    BY DEF Init, Over, Results
  <2>4. QED
    BY <2>1, <2>2, <2>3 DEF Init, GateInit, TypeOK
<1>2. GateAgrees
  <2>1. holder = NoOne /\ queue = <<>> /\ \A t \in Tasks : task[t].at = "none"
    BY DEF Init, GateInit
  <2>2. QED
    BY <2>1, WorkspaceAssumption DEF GateAgrees, Contains, PastGate
<1>3. EachOnce /\ OwnershipKept /\ PrefixDisposed
  BY DEF Init, EachOnce, OwnershipKept, PrefixDisposed
<1>4. BuiltOnce /\ Answers
  BY DEF Init, BuiltOnce, Answers
<1>5. QED
  BY <1>1, <1>2, <1>3, <1>4 DEF IInv

LEMMA AddKeeps ==
  ASSUME IInv, NEW t \in Tasks, NEW s \in Sources, Add(t, s)
  PROVE  IInv'
<1> DEFINE existing == FindByName(NameOf[s])
<1>1. /\ Over(t) /\ source[s] = "unused"
      /\ UNCHANGED <<loaded, indexes, gate, disposal>>
      /\ task[t].at \notin PastGate /\ task[t].at # "waiting"
  BY DEF Add, Over, Results, PastGate
<1>2. /\ task \in [Tasks -> Calls] /\ NoQuestion \in References \cup {NoQuestion}
      /\ source \in [Sources -> {"unused", "opening", "open", "duplicate", "rejected"}]
      /\ closes \in [Sources -> Nat] /\ loaded \in Seq(Sources)
  BY DEF IInv, TypeOK
<1>3. \A i \in 1..Len(loaded) : loaded[i] \in Sources /\ loaded[i] # s
  BY <1>1, <1>2 DEF IInv, EachOnce
<1>4. GateTypes'
  BY <1>1 DEF IInv, TypeOK, GateTypes, gate
<1>5. CASE /\ existing # NoPlugin
           /\ source' = [source EXCEPT ![s] = "duplicate"]
           /\ Close(s)
           /\ Become(t, Call("discarding", existing, NoQuestion))
  <2> DEFINE c == Call("discarding", existing, NoQuestion)
  <2>1. existing \in Sources
    BY <1>2, <1>5, FindByNameFacts
  <2> HIDE DEF existing
  <2>2. c \in Calls /\ c.at = "discarding" /\ InProgress(c) /\ AnswerOK(c) /\ NoneBefore(c)
    BY <1>5, <2>1 DEF Call, Calls, InProgress, AnswerOK, NoneBefore, PastGate
  <2>3. Become(t, c)
    BY <1>5
  <2> HIDE DEF c
  <2>4. TasksOK' /\ GateAgrees' /\ Answers'
    BY <1>1, <2>2, <2>3, MoveKeeps DEF IInv, PastGate, disposal
  <2>5. task'[t] = c /\ \A u \in Tasks \ {t} : task'[u] = task[u]
    BY <1>2, <2>2, <2>3, BecomeFacts
  <2>6. closes' = [closes EXCEPT ![s] = @ + 1]
    BY <1>5 DEF Close
  <2>7. ListTypes'
    BY <1>1, <1>2, <1>5, <2>6 DEF IInv, TypeOK, ListTypes, disposal
  <2>8. EachOnce'
    BY <1>1, <1>2, <1>3, <1>5, <2>2, <2>5 DEF IInv, EachOnce
  <2>9. OwnershipKept'
    BY <1>1, <1>2, <1>3, <1>5, <2>6 DEF IInv, OwnershipKept, IsLoaded, Contains, disposal
  <2>10. PrefixDisposed'
    BY <1>1, <1>2, <1>3, <2>6 DEF IInv, PrefixDisposed, disposal
  <2>11. \A u \in Tasks : NoneBefore(task[u])'
    BY <1>1, <2>2, <2>5 DEF IInv, BuiltOnce, NoneBefore
  <2>12. QED
    BY <1>4, <2>4, <2>7, <2>8, <2>9, <2>10, <2>11, Assemble
<1>6. CASE /\ existing = NoPlugin
           /\ source' = [source EXCEPT ![s] = "opening"]
           /\ Become(t, Call("opening", s, NoQuestion))
           /\ UNCHANGED closes
  <2> DEFINE c == Call("opening", s, NoQuestion)
  <2>1. s # NoPlugin
    BY WorkspaceAssumption
  <2>2. /\ c \in Calls /\ c.at = "opening" /\ c.plugin = s
        /\ InProgress(c) /\ AnswerOK(c) /\ NoneBefore(c)
    BY <2>1 DEF Call, Calls, InProgress, AnswerOK, NoneBefore, PastGate
  <2>3. Become(t, c)
    BY <1>6
  <2> HIDE DEF c
  <2>4. TasksOK' /\ GateAgrees' /\ Answers'
    BY <1>1, <2>2, <2>3, MoveKeeps DEF IInv, PastGate, disposal
  <2>5. task'[t] = c /\ \A u \in Tasks \ {t} : task'[u] = task[u]
    BY <1>2, <2>2, <2>3, BecomeFacts
  <2>7. ListTypes'
    BY <1>1, <1>2, <1>6 DEF IInv, TypeOK, ListTypes, disposal
  <2>8. EachOnce'
    <3>1. \A u \in Tasks \ {t} : task[u].at = "opening" =>
            task[u].plugin # s /\ task[u].plugin \in Sources
      BY <1>1, <1>2 DEF IInv, EachOnce, TypeOK, Over, Results, Calls
    <3>2. \A u \in Tasks : task'[u].at = "opening" => source'[task'[u].plugin] = "opening"
      BY <1>2, <1>6, <2>2, <2>5, <3>1 DEF IInv, EachOnce
    <3>3. \A u, v \in Tasks :
            task'[u].at = "opening" /\ task'[v].at = "opening" /\ task'[u].plugin = task'[v].plugin
              => u = v
      BY <2>2, <2>5, <3>1 DEF IInv, EachOnce
    <3>4. \A i \in 1..Len(loaded) : source'[loaded[i]] = "open"
      BY <1>2, <1>3, <1>6 DEF IInv, EachOnce
    <3>5. QED
      BY <1>1, <3>2, <3>3, <3>4 DEF IInv, EachOnce
  <2>9. OwnershipKept'
    BY <1>1, <1>2, <1>3, <1>6 DEF IInv, OwnershipKept, IsLoaded, Contains, disposal
  <2>10. PrefixDisposed'
    BY <1>1, <1>6 DEF IInv, PrefixDisposed, disposal
  <2>11. \A u \in Tasks : NoneBefore(task[u])'
    BY <1>1, <2>2, <2>5 DEF IInv, BuiltOnce, NoneBefore
  <2>12. QED
    BY <1>4, <2>4, <2>7, <2>8, <2>9, <2>10, <2>11, Assemble
<1>7. QED
  BY <1>5, <1>6 DEF Add

LEMMA OpenedKeeps ==
  ASSUME IInv, NEW t \in Tasks, Opened(t)
  PROVE  IInv'
<1> DEFINE s == task[t].plugin
<1>1. /\ task[t].at = "opening" /\ Become(t, Returned)
      /\ loaded' = Append(loaded, s) /\ source' = [source EXCEPT ![s] = "open"]
      /\ modified' = (modified \/ life = "disposing")
      /\ UNCHANGED <<indexes, gate, life, cursor, closes>>
  BY DEF Opened, Touch
<1>2. /\ task \in [Tasks -> Calls] /\ loaded \in Seq(Sources) /\ Len(loaded) \in Nat
      /\ source \in [Sources -> {"unused", "opening", "open", "duplicate", "rejected"}]
  BY DEF IInv, TypeOK
<1>3. s \in Sources /\ source[s] = "opening"
  BY <1>1, <1>2 DEF IInv, TypeOK, EachOnce, Over, Results, Calls
<1>4. \A u \in Tasks \ {t} : task[u].at = "opening" => task[u].plugin # s
  BY <1>1 DEF IInv, EachOnce
<1> HIDE DEF s
<1>5. \A i \in 1..Len(loaded) : loaded[i] \in Sources /\ loaded[i] # s /\ source[loaded[i]] = "open"
  BY <1>2, <1>3 DEF IInv, EachOnce
<1>6. /\ loaded' \in Seq(Sources)
      /\ \A i, j \in 1..Len(loaded') : loaded'[i] = loaded'[j] => i = j
      /\ \A r : Contains(loaded', r) <=> Contains(loaded, r) \/ r = s
      /\ ~ Contains(loaded, s)
  <2>1. ~ Contains(loaded, s) /\ \A i, j \in 1..Len(loaded) : loaded[i] = loaded[j] => i = j
    BY <1>5 DEF Contains, IInv, EachOnce
  <2>2. QED
    BY <1>1, <1>2, <1>3, <2>1, AppendOnceFacts
<1>7. task'[t] = Returned /\ \A u \in Tasks \ {t} : task'[u] = task[u]
  BY <1>1, <1>2, ReturnedFacts, BecomeFacts
<1>8. TasksOK' /\ GateAgrees' /\ Answers'
  <2>1. Returned.at \notin PastGate /\ Returned.at # "waiting" /\ task[t].at \notin PastGate
    BY <1>1, ReturnedFacts DEF PastGate
  <2>2. QED
    BY <1>1, <2>1, ReturnedFacts, MoveKeeps DEF IInv
<1>9. GateTypes' /\ ListTypes'
  BY <1>1, <1>2, <1>3, <1>6 DEF IInv, TypeOK, GateTypes, ListTypes, gate
<1>10. EachOnce'
  <2>1. \A i \in 1..Len(loaded') : Contains(loaded', loaded'[i])
    BY DEF Contains
  <2>2. ASSUME NEW i \in 1..Len(loaded')
        PROVE  source'[loaded'[i]] = "open"
    <3>1. Contains(loaded, loaded'[i]) \/ loaded'[i] = s
      BY <1>6, <2>1
    <3>2. CASE loaded'[i] = s
      BY <1>1, <1>2, <1>3, <3>2
    <3>3. CASE Contains(loaded, loaded'[i])
      <4>1. PICK j \in 1..Len(loaded) : loaded[j] = loaded'[i]
        BY <3>3 DEF Contains
      <4>2. QED
        BY <1>1, <1>2, <1>5, <4>1
    <3>4. QED
      BY <3>1, <3>2, <3>3
  <2>3. \A u \in Tasks : task'[u].at = "opening" => source'[task'[u].plugin] = "opening"
    <3>1. \A u \in Tasks \ {t} : task[u].at = "opening" => source[task[u].plugin] = "opening"
      BY DEF IInv, EachOnce
    <3>2. \A u \in Tasks \ {t} : task[u].at = "opening" => task[u].plugin \in Sources
      BY <1>2 DEF IInv, TypeOK, Over, Results, Calls
    <3>3. QED
      BY <1>1, <1>2, <1>4, <1>7, <3>1, <3>2, ReturnedFacts
  <2>4. QED
    BY <1>6, <1>7, <2>2, <2>3, ReturnedFacts DEF IInv, EachOnce
<1>11. OwnershipKept'
  <2>1. \A r \in Sources : IsLoaded(r)' <=> IsLoaded(r) \/ r = s
    BY <1>6 DEF IsLoaded
  <2>2. ~ IsLoaded(s)
    BY <1>6 DEF IsLoaded
  <2>3. QED
    BY <1>1, <1>2, <1>3, <2>1, <2>2 DEF IInv, OwnershipKept
<1>12. PrefixDisposed'
  BY <1>1 DEF PrefixDisposed
<1>13. \A u \in Tasks : NoneBefore(task[u])'
  BY <1>1, <1>7, ReturnedFacts DEF IInv, BuiltOnce, NoneBefore
<1>14. QED
  BY <1>8, <1>9, <1>10, <1>11, <1>12, <1>13, Assemble

LEMMA OpenFailedKeeps ==
  ASSUME IInv, NEW t \in Tasks, OpenFailed(t)
  PROVE  IInv'
<1> DEFINE s == task[t].plugin
<1>1. /\ task[t].at = "opening" /\ Become(t, Returned)
      /\ source' = [source EXCEPT ![s] = "rejected"]
      /\ UNCHANGED <<loaded, indexes, gate, disposal, closes>>
  BY DEF OpenFailed
<1>2. /\ task \in [Tasks -> Calls] /\ loaded \in Seq(Sources)
      /\ source \in [Sources -> {"unused", "opening", "open", "duplicate", "rejected"}]
  BY DEF IInv, TypeOK
<1>3. s \in Sources /\ source[s] = "opening"
  BY <1>1, <1>2 DEF IInv, TypeOK, EachOnce, Over, Results, Calls
<1>4. \A u \in Tasks \ {t} : task[u].at = "opening" =>
        /\ task[u].plugin # s /\ task[u].plugin \in Sources /\ source[task[u].plugin] = "opening"
  BY <1>1, <1>2 DEF IInv, EachOnce, TypeOK, Over, Results, Calls
<1> HIDE DEF s
<1>5. task'[t] = Returned /\ \A u \in Tasks \ {t} : task'[u] = task[u]
  BY <1>1, <1>2, ReturnedFacts, BecomeFacts
<1>6. TasksOK' /\ GateAgrees' /\ Answers'
  <2>1. Returned.at \notin PastGate /\ Returned.at # "waiting" /\ task[t].at \notin PastGate
    BY <1>1, ReturnedFacts DEF PastGate
  <2>2. QED
    BY <1>1, <2>1, ReturnedFacts, MoveKeeps DEF IInv, disposal
<1>7. GateTypes' /\ ListTypes'
  BY <1>1, <1>2, <1>3 DEF IInv, TypeOK, GateTypes, ListTypes, gate, disposal
<1>8. EachOnce'
  <2>1. \A i \in 1..Len(loaded) : loaded[i] \in Sources /\ source'[loaded[i]] = "open"
    BY <1>1, <1>2, <1>3 DEF IInv, EachOnce
  <2>2. \A u \in Tasks : task'[u].at = "opening" => source'[task'[u].plugin] = "opening"
    BY <1>1, <1>2, <1>4, <1>5, ReturnedFacts
  <2>3. QED
    BY <1>1, <1>5, <2>1, <2>2, ReturnedFacts DEF IInv, EachOnce
<1>9. OwnershipKept'
  BY <1>1, <1>2, <1>3 DEF IInv, OwnershipKept, IsLoaded, Contains, disposal
<1>10. PrefixDisposed'
  BY <1>1 DEF IInv, PrefixDisposed, disposal
<1>11. \A u \in Tasks : NoneBefore(task[u])'
  BY <1>1, <1>5, ReturnedFacts DEF IInv, BuiltOnce, NoneBefore
<1>12. QED
  BY <1>6, <1>7, <1>8, <1>9, <1>10, <1>11, Assemble

LEMMA RemovePluginKeeps ==
  ASSUME IInv, NEW t \in Tasks, NEW p \in Sources, RemovePlugin(t, p)
  PROVE  IInv'
<1> DEFINE c == Call("removing", p, NoQuestion)
<1>1. /\ Over(t) /\ Contains(loaded, p)
      /\ loaded' = RemoveFirst(loaded, p)
      /\ indexes' = indexes \ {p}
      /\ closes' = [closes EXCEPT ![p] = @ + 1]
      /\ modified' = (modified \/ life = "disposing")
      /\ Become(t, c)
      /\ UNCHANGED <<gate, life, cursor, source>>
      /\ task[t].at \notin PastGate /\ task[t].at # "waiting"
  BY DEF RemovePlugin, IsLoaded, Close, Touch, Over, Results, PastGate
<1>2. /\ task \in [Tasks -> Calls] /\ loaded \in Seq(Sources) /\ Len(loaded) \in Nat
      /\ closes \in [Sources -> Nat]
  BY DEF IInv, TypeOK
<1>3. /\ c \in Calls /\ c.at = "removing" /\ InProgress(c) /\ AnswerOK(c)
  BY WorkspaceAssumption DEF Call, Calls, InProgress, AnswerOK, PastGate
<1> HIDE DEF c
<1>4. task'[t] = c /\ \A u \in Tasks \ {t} : task'[u] = task[u]
  BY <1>1, <1>2, <1>3, BecomeFacts
<1>5. TasksOK' /\ GateAgrees' /\ Answers'
  BY <1>1, <1>3, MoveKeeps DEF IInv, PastGate
<1>6. PICK k \in 1..Len(loaded) : loaded[k] = p /\ loaded' = RemoveAt(loaded, k)
  BY <1>1, <1>2, RemoveFirstFacts
<1>7. \A i, j \in 1..Len(loaded) : loaded[i] = loaded[j] => i = j
  BY DEF IInv, EachOnce
<1>8. /\ loaded' \in Seq(Sources)
      /\ \A i, j \in 1..Len(loaded') : loaded'[i] = loaded'[j] => i = j
      /\ \A r : Contains(loaded', r) <=> Contains(loaded, r) /\ r # p
  BY <1>2, <1>6, <1>7, RemoveOnceFacts
<1>9. GateTypes' /\ ListTypes'
  BY <1>1, <1>2, <1>8 DEF IInv, TypeOK, GateTypes, ListTypes, gate
<1>10. EachOnce'
  <2>1. \A i \in 1..Len(loaded') : Contains(loaded, loaded'[i])
    BY <1>8 DEF Contains
  <2>2. \A i \in 1..Len(loaded') : source'[loaded'[i]] = "open"
    BY <1>1, <2>1 DEF IInv, EachOnce, Contains
  <2>3. QED
    BY <1>1, <1>3, <1>4, <1>8, <2>2 DEF IInv, EachOnce
<1>11. \A r \in Sources : IsLoaded(r)' <=> IsLoaded(r) /\ r # p
  BY <1>8 DEF IsLoaded
<1>12. OwnershipKept'
  <2>1. IsLoaded(p) /\ source[p] = "open"
    BY <1>1, <1>6 DEF IsLoaded, IInv, EachOnce
  <2>2. QED
    BY <1>1, <1>2, <1>11, <2>1 DEF IInv, OwnershipKept
<1>13. PrefixDisposed'
  BY <1>1 DEF PrefixDisposed
<1>14. \A u \in Tasks : NoneBefore(task[u])'
  BY <1>1, <1>3, <1>4 DEF IInv, BuiltOnce, NoneBefore
<1>15. QED
  BY <1>5, <1>9, <1>10, <1>12, <1>13, <1>14, Assemble

LEMMA ResolveKeeps ==
  ASSUME IInv, NEW t \in Tasks, NEW ref \in References, Resolve(t, ref)
  PROVE  IInv'
<1> DEFINE target == FindByName(ResolveOrigin(ref.context, ref.id))
<1>1. /\ Over(t) /\ UNCHANGED <<loaded, indexes, disposal, source, closes>>
      /\ task[t].at \notin PastGate /\ task[t].at # "waiting"
  BY DEF Resolve, Over, Results, PastGate
<1>2. ASSUME NEW a \in {"not found", "missing master"}, Become(t, Call(a, NoPlugin, NoQuestion)),
             UNCHANGED gate
      PROVE  IInv'
  <2> DEFINE c == Call(a, NoPlugin, NoQuestion)
  <2>1. /\ c \in Calls /\ c.at = a /\ InProgress(c) /\ AnswerOK(c) /\ NoneBefore(c)
        /\ c.at \notin PastGate \cup {"waiting", "opening"}
    BY DEF Call, Calls, Results, InProgress, AnswerOK, NoneBefore, PastGate
  <2> HIDE DEF c
  <2>2. Become(t, c)
    BY <1>2 DEF c
  <2>3. QED
    BY <1>1, <1>2, <2>1, <2>2, QuietMove
<1>3. CASE target # NoPlugin /\ Arrive(t, target, ref)
  <2>1. target \in Sources /\ NameOf[target] = ResolveOrigin(ref.context, ref.id)
    BY <1>3, FindByNameFacts DEF IInv, TypeOK
  <2> HIDE DEF target
  <2>2. /\ TasksOK' /\ GateAgrees' /\ Answers'
        /\ holder' \in Tasks \cup {NoOne} /\ queue' \in Seq(Tasks)
        /\ \A u \in Tasks : task'[u].at = "opening" => task'[u] = task[u]
        /\ \A u \in Tasks : task'[u].at \in {"building", "finishing"} => task'[u] = task[u]
    BY <1>1, <1>3, <2>1, ArriveKeeps DEF IInv, disposal
  <2>3. QED
    BY <1>1, <2>2, GateStepKeeps DEF IInv, TypeOK, GateTypes, BuiltOnce, NoneBefore
<1>4. QED
  BY <1>1, <1>2, <1>3 DEF Resolve

LEMMA LookUpIndexKeeps ==
  ASSUME IInv, NEW t \in Tasks, LookUpIndex(t)
  PROVE  IInv'
<1>1. /\ task[t].at = "granted" /\ UNCHANGED <<loaded, indexes, disposal, source, closes>>
      /\ task[t].at \in PastGate /\ task[t].at \notin Results \cup {"waiting"}
  BY DEF LookUpIndex, PastGate, Results
<1>2. CASE task[t].plugin \in indexes /\ Release(t, [task[t] EXCEPT !.at = "indexed"])
  <2>1. task[t] \in Calls /\ InProgress(task[t]) /\ AnswerOK(task[t])
    BY DEF IInv, TypeOK, InProgress, Over, Answers
  <2>2. PICK c \in Calls : /\ c = [task[t] EXCEPT !.at = "indexed"]
                           /\ c.at = "indexed" /\ c.plugin = task[t].plugin
                           /\ c.question = task[t].question
    BY <2>1, AtFacts
  <2>3. InProgress(c) /\ AnswerOK(c) /\ c.at \notin PastGate \cup {"waiting", "opening"}
    BY <1>1, <2>1, <2>2 DEF InProgress, AnswerOK, PastGate
  <2>4. Release(t, c)
    BY <1>2, <2>2
  <2>5. /\ TasksOK' /\ GateAgrees' /\ Answers'
        /\ holder' \in Tasks \cup {NoOne} /\ queue' \in Seq(Tasks)
        /\ \A u \in Tasks : task'[u].at = "opening" => task'[u] = task[u]
        /\ \A u \in Tasks : task'[u].at \notin {"building", "finishing"}
    BY <1>1, <2>3, <2>4, ReleaseKeeps DEF IInv, disposal
  <2>6. QED
    BY <1>1, <2>5, GateStepKeeps DEF IInv, TypeOK, GateTypes, NoneBefore
<1>3. CASE task[t].plugin \notin indexes /\ Continue(t, "building") /\ UNCHANGED gate
  <2>1. "building" \in PastGate
    BY DEF PastGate
  <2>2. QED
    BY <1>1, <1>3, <2>1, ContinueKeeps
<1>4. QED
  BY <1>2, <1>3 DEF LookUpIndex

LEMMA LastReadKeeps ==
  ASSUME IInv, NEW t \in Tasks, LastRead(t)
  PROVE  IInv'
<1>1. /\ task[t].at = "building" /\ Continue(t, "finishing")
      /\ UNCHANGED <<loaded, indexes, gate, disposal, source, closes>>
      /\ task[t].at \in PastGate /\ task[t].at \notin Results \cup {"waiting"}
      /\ "finishing" \in PastGate
  BY DEF LastRead, PastGate, Results
<1>2. QED
  BY <1>1, ContinueKeeps

LEMMA BuiltKeeps ==
  ASSUME IInv, NEW t \in Tasks, Built(t)
  PROVE  IInv'
<1>1. /\ task[t].at = "finishing" /\ UNCHANGED <<loaded, disposal, source, closes>>
      /\ indexes' = indexes \cup {task[t].plugin}
      /\ task[t].at \in PastGate /\ task[t].at \notin Results \cup {"waiting"}
      /\ Release(t, [task[t] EXCEPT !.at = "indexed"])
  BY DEF Built, PastGate, Results
<1>2. task[t] \in Calls /\ InProgress(task[t]) /\ AnswerOK(task[t])
  BY DEF IInv, TypeOK, InProgress, Over, Answers
<1>3. PICK c \in Calls : /\ c = [task[t] EXCEPT !.at = "indexed"]
                         /\ c.at = "indexed" /\ c.plugin = task[t].plugin
                         /\ c.question = task[t].question
  BY <1>2, AtFacts
<1>4. InProgress(c) /\ AnswerOK(c) /\ c.at \notin PastGate \cup {"waiting", "opening"}
  BY <1>1, <1>2, <1>3 DEF InProgress, AnswerOK, PastGate
<1>5. Release(t, c)
  BY <1>1, <1>3
<1>6. /\ TasksOK' /\ GateAgrees' /\ Answers'
      /\ holder' \in Tasks \cup {NoOne} /\ queue' \in Seq(Tasks)
      /\ \A u \in Tasks : task'[u].at = "opening" => task'[u] = task[u]
      /\ \A u \in Tasks : task'[u].at \notin {"building", "finishing"}
  BY <1>1, <1>4, <1>5, ReleaseKeeps DEF IInv, disposal
<1>7. indexes' \subseteq Sources
  BY <1>1, <1>2 DEF IInv, TypeOK, InProgress, Calls
<1>8. QED
  BY <1>1, <1>6, <1>7, GateStepKeeps DEF GateTypes, NoneBefore

LEMMA BuildFailedKeeps ==
  ASSUME IInv, NEW t \in Tasks, BuildFailed(t)
  PROVE  IInv'
<1>1. /\ task[t].at \in PastGate /\ UNCHANGED <<loaded, indexes, disposal, source, closes>>
      /\ Release(t, Returned)
  BY DEF BuildFailed, PastGate
<1>2. Returned.at \notin PastGate \cup {"waiting", "opening"}
  BY ReturnedFacts DEF PastGate
<1>3. /\ TasksOK' /\ GateAgrees' /\ Answers'
      /\ holder' \in Tasks \cup {NoOne} /\ queue' \in Seq(Tasks)
      /\ \A u \in Tasks : task'[u].at = "opening" => task'[u] = task[u]
      /\ \A u \in Tasks : task'[u].at \notin {"building", "finishing"}
  BY <1>1, <1>2, ReturnedFacts, ReleaseKeeps DEF IInv, disposal
<1>4. QED
  BY <1>1, <1>3, GateStepKeeps DEF IInv, TypeOK, GateTypes, NoneBefore

LEMMA FindOffsetKeeps ==
  ASSUME IInv, NEW t \in Tasks, FindOffset(t)
  PROVE  IInv'
<1>1. /\ task[t].at = "indexed" /\ UNCHANGED <<loaded, indexes, gate, disposal, source, closes>>
      /\ task[t].at \notin PastGate /\ task[t].at \notin Results \cup {"waiting"}
      /\ {"not found", "locating"} \cap PastGate = {}
  BY DEF FindOffset, PastGate, Results
<1>2. CASE ~ Stored(task[t]) /\ Continue(t, "not found")
  BY <1>1, <1>2, ContinueKeeps
<1>3. CASE Stored(task[t]) /\ Continue(t, "locating")
  BY <1>1, <1>3, ContinueKeeps
<1>4. QED
  BY <1>2, <1>3 DEF FindOffset, Stored

LEMMA LocatedKeeps ==
  ASSUME IInv, NEW t \in Tasks, Located(t)
  PROVE  IInv'
<1>1. /\ task[t].at = "locating" /\ Continue(t, "resolved")
      /\ UNCHANGED <<loaded, indexes, gate, disposal, source, closes>>
      /\ task[t].at \notin PastGate /\ task[t].at \notin Results \cup {"waiting"}
      /\ "resolved" \notin PastGate
  BY DEF Located, PastGate, Results
<1>2. Stored(task[t])
  BY <1>1, WorkspaceAssumption DEF IInv, TypeOK, Answers, AnswerOK, Over, Results
<1>3. QED
  BY <1>1, <1>2, ContinueKeeps

LEMMA CancelWaitKeeps ==
  ASSUME IInv, NEW t \in Tasks, CancelWait(t)
  PROVE  IInv'
<1>1. /\ task[t].at = "waiting" /\ Withdraw(t) /\ Become(t, Returned)
      /\ UNCHANGED <<loaded, indexes, disposal, source, closes>>
  BY DEF CancelWait
<1>2. /\ TasksOK' /\ GateAgrees' /\ Answers'
      /\ holder' \in Tasks \cup {NoOne} /\ queue' \in Seq(Tasks)
      /\ \A u \in Tasks : task'[u].at = "opening" => task'[u] = task[u]
      /\ \A u \in Tasks : task'[u].at \in {"building", "finishing"} => task'[u] = task[u]
  BY <1>1, WithdrawKeeps DEF IInv, disposal
<1>3. QED
  BY <1>1, <1>2, GateStepKeeps DEF IInv, TypeOK, GateTypes, BuiltOnce, NoneBefore

LEMMA DisposeDoneKeeps ==
  ASSUME IInv, DisposeDone, UNCHANGED <<cursor, closes, modified, source>>
  PROVE  IInv'
<1>1. /\ life' = "disposed" /\ loaded' = <<>> /\ indexes' = {}
      /\ queue' = <<>> /\ holder' = holder
      /\ task' = [t \in Tasks |-> IF task[t].at = "waiting" THEN [task[t] EXCEPT !.at = "orphaned"]
                                  ELSE task[t]]
  BY DEF DisposeDone, ForgetWaiters
<1>2. ASSUME NEW t \in Tasks
      PROVE  /\ task[t] \in Calls /\ task'[t] \in Calls
             /\ task'[t].at = IF task[t].at = "waiting" THEN "orphaned" ELSE task[t].at
             /\ task'[t].plugin = task[t].plugin /\ task'[t].question = task[t].question
  <2>1. task[t] \in Calls
    BY DEF IInv, TypeOK
  <2>2. task'[t] = IF task[t].at = "waiting" THEN [task[t] EXCEPT !.at = "orphaned"] ELSE task[t]
    BY <1>1
  <2>3. CASE task[t].at = "waiting"
    <3>1. task'[t] = [task[t] EXCEPT !.at = "orphaned"]
      BY <2>2, <2>3
    <3>2. QED
      BY <2>1, <2>3, <3>1, AtFacts
  <2>4. QED
    BY <2>1, <2>2, <2>3
<1>3. TasksOK'
  <2>1. task' \in [Tasks -> Calls]
    BY <1>1, <1>2
  <2>2. \A t \in Tasks : InProgress(task'[t])
    BY <1>2 DEF IInv, TypeOK, InProgress, Over, Results
  <2>3. QED
    BY <2>1, <2>2 DEF TasksOK, InProgress
<1>4. GateAgrees'
  <2>1. \A t \in Tasks : task'[t].at # "waiting" /\ (task'[t].at \in PastGate <=> task[t].at \in PastGate)
    BY <1>2 DEF PastGate
  <2>2. QED
    BY <1>1, <2>1 DEF IInv, GateAgrees, Contains
<1>5. Answers'
  <2>1. \A t \in Tasks : AnswerOK(task[t])
    BY DEF IInv, Answers
  <2>2. \A t \in Tasks : AnswerOK(task'[t])
    BY <1>2, <2>1 DEF AnswerOK, PastGate, Stored
  <2>3. QED
    BY <2>2 DEF Answers, AnswerOK, Stored
<1>6. GateTypes' /\ ListTypes'
  BY <1>1 DEF IInv, TypeOK, GateTypes, ListTypes
<1>7. EachOnce'
  <2>1. \A t \in Tasks : task'[t].at = "opening" => task[t].at = "opening" /\ task'[t].plugin = task[t].plugin
    BY <1>2
  <2>2. QED
    BY <1>1, <2>1 DEF IInv, EachOnce
<1>8. OwnershipKept' /\ PrefixDisposed'
  BY <1>1 DEF OwnershipKept, PrefixDisposed
<1>9. \A u \in Tasks : NoneBefore(task[u])'
  BY <1>1 DEF NoneBefore
<1>10. QED
  BY <1>3, <1>4, <1>5, <1>6, <1>7, <1>8, <1>9, Assemble

\* DisposeAsync goes on to the plugin at position n.
LEMMA DisposeOneKeeps ==
  ASSUME IInv, life \in {"open", "disposing"}, NEW n \in 1..Len(loaded),
         life' = "disposing", cursor' = n, Close(loaded[n]),
         ~ modified => \A i \in 1..(n - 1) : closes[loaded[i]] > 0,
         UNCHANGED <<loaded, indexes, gate, modified, source, task>>
  PROVE  IInv'
<1>1. /\ loaded \in Seq(Sources) /\ closes \in [Sources -> Nat] /\ Len(loaded) \in Nat
      /\ \A i \in 1..Len(loaded) : loaded[i] \in Sources
  BY DEF IInv, TypeOK
<1>2. closes' = [closes EXCEPT ![loaded[n]] = @ + 1]
  BY DEF Close
<1>3. /\ closes' \in [Sources -> Nat] /\ closes'[loaded[n]] > 0
      /\ \A s \in Sources : closes'[s] >= closes[s]
  BY <1>1, <1>2
<1>4. TasksOK' /\ GateTypes' /\ ListTypes'
  BY <1>1, <1>3 DEF IInv, TypeOK, TasksOK, InProgress, Over, GateTypes, ListTypes, gate
<1>5. GateAgrees' /\ Answers'
  <2>1. GateAgrees'
    BY DEF IInv, GateAgrees, Contains, gate
  <2>2. Answers'
    BY DEF IInv, Answers, AnswerOK, Stored
  <2>3. QED
    BY <2>1, <2>2
<1>6. EachOnce' /\ OwnershipKept'
  BY DEF IInv, EachOnce, OwnershipKept
<1>7. PrefixDisposed'
  <2>1. ASSUME ~ modified, NEW i \in 1..n
        PROVE  closes'[loaded[i]] > 0
    <3>1. CASE i = n
      BY <1>3, <3>1
    <3>2. CASE i # n
      <4>1. i \in 1..(n - 1) /\ i \in 1..Len(loaded)
        BY <1>1, <3>2
      <4>2. /\ closes[loaded[i]] > 0 /\ loaded[i] \in Sources
        BY <1>1, <2>1, <4>1
      <4>3. closes[loaded[i]] \in Nat /\ closes'[loaded[i]] \in Nat
        BY <1>1, <1>3, <4>2
      <4>4. QED
        BY <1>3, <4>2, <4>3
    <3>3. QED
      BY <3>1, <3>2
  <2>2. QED
    BY <2>1 DEF PrefixDisposed
<1>8. \A u \in Tasks : NoneBefore(task[u])'
  BY DEF IInv, BuiltOnce, NoneBefore
<1>9. QED
  BY <1>4, <1>5, <1>6, <1>7, <1>8, Assemble

LEMMA DisposeStartKeeps ==
  ASSUME IInv, DisposeStart
  PROVE  IInv'
<1>1. loaded \in Seq(Sources) /\ life = "open"
  BY DEF IInv, TypeOK, DisposeStart
<1>2. CASE loaded = <<>>
  BY <1>2, DisposeDoneKeeps DEF DisposeStart
<1>3. CASE loaded # <<>>
  <2>1. Head(loaded) = loaded[1] /\ 1 \in 1..Len(loaded)
    BY <1>1, <1>3, TailFacts
  <2>2. /\ life' = "disposing" /\ cursor' = 1 /\ Close(loaded[1])
        /\ UNCHANGED <<loaded, indexes, gate, modified, source, task>>
    BY <1>3, <2>1 DEF DisposeStart
  <2>3. QED
    BY <1>1, <2>1, <2>2, DisposeOneKeeps
<1>4. QED
  BY <1>2, <1>3

LEMMA DisposeNextKeeps ==
  ASSUME IInv, DisposeNext
  PROVE  IInv'
<1>1. life = "disposing" /\ UNCHANGED <<modified, source>>
  BY DEF DisposeNext
<1>2. CASE modified /\ life' = "broken" /\ UNCHANGED <<loaded, indexes, gate, cursor, closes, task>>
  <2>1. TasksOK' /\ GateTypes' /\ ListTypes'
    BY <1>1, <1>2 DEF IInv, TypeOK, TasksOK, InProgress, Over, GateTypes, ListTypes, gate
  <2>2. GateAgrees'
    BY <1>1, <1>2 DEF IInv, GateAgrees, Contains, gate
  <2>3. Answers'
    BY <1>2 DEF IInv, Answers, AnswerOK, Stored
  <2>4. EachOnce' /\ OwnershipKept' /\ PrefixDisposed'
    BY <1>1, <1>2 DEF IInv, EachOnce, OwnershipKept, PrefixDisposed
  <2>5. \A u \in Tasks : NoneBefore(task[u])'
    BY <1>2 DEF IInv, BuiltOnce, NoneBefore
  <2>6. QED
    BY <2>1, <2>2, <2>3, <2>4, <2>5, Assemble
<1>3. CASE /\ ~ modified /\ cursor < Len(loaded)
           /\ cursor' = cursor + 1 /\ Close(loaded[cursor + 1])
           /\ UNCHANGED <<loaded, indexes, gate, life, task>>
  <2>1. cursor \in 1..Len(loaded) /\ \A i \in 1..cursor : closes[loaded[i]] > 0
    BY <1>1, <1>3 DEF IInv, PrefixDisposed
  <2>2. PICK n : n = cursor + 1
    OBVIOUS
  <2>3. n \in 1..Len(loaded) /\ n - 1 = cursor
    BY <1>3, <2>1, <2>2
  <2>4. QED
    BY <1>1, <1>3, <2>1, <2>2, <2>3, DisposeOneKeeps
<1>4. CASE ~ modified /\ cursor >= Len(loaded) /\ DisposeDone /\ UNCHANGED <<cursor, closes>>
  BY <1>1, <1>4, DisposeDoneKeeps
<1>5. QED
  BY <1>2, <1>3, <1>4 DEF DisposeNext

LEMMA StepKeeps == IInv /\ [Next]_vars => IInv'
<1> SUFFICES ASSUME IInv, [Next]_vars PROVE IInv'
  OBVIOUS
<1>1. ASSUME NEW t \in Tasks, Start(t) PROVE IInv'
  BY <1>1, AddKeeps, RemovePluginKeeps, ResolveKeeps DEF Start
<1>2. ASSUME NEW t \in Tasks, Progress(t) PROVE IInv'
  <2>1. CASE Discarded(t)
    BY <2>1, ReturnKeeps DEF Discarded, PastGate
  <2>2. CASE Removed(t)
    BY <2>2, ReturnKeeps DEF Removed, PastGate
  <2>3. CASE LocateFailed(t)
    BY <2>3, ReturnKeeps DEF LocateFailed, PastGate
  <2>4. CASE Opened(t) \/ OpenFailed(t)
    BY <2>4, OpenedKeeps, OpenFailedKeeps
  <2>5. CASE LookUpIndex(t) \/ LastRead(t) \/ Built(t) \/ BuildFailed(t)
    BY <2>5, LookUpIndexKeeps, LastReadKeeps, BuiltKeeps, BuildFailedKeeps
  <2>6. CASE FindOffset(t) \/ Located(t)
    BY <2>6, FindOffsetKeeps, LocatedKeeps
  <2>7. QED
    BY <1>2, <2>1, <2>2, <2>3, <2>4, <2>5, <2>6 DEF Progress
<1>3. ASSUME NEW t \in Tasks, CancelWait(t) PROVE IInv'
  BY <1>3, CancelWaitKeeps
<1>4. CASE DisposeStart \/ DisposeNext
  BY <1>4, DisposeStartKeeps, DisposeNextKeeps
<1>5. CASE UNCHANGED vars
  <2>1. UNCHANGED <<loaded, indexes, holder, queue, life, cursor, modified, source, closes, task>>
    BY <1>5 DEF vars, gate, disposal
  <2>2. TasksOK' /\ GateTypes' /\ ListTypes' /\ GateAgrees'
    BY <2>1 DEF IInv, TypeOK, TasksOK, InProgress, Over, GateTypes, ListTypes, GateAgrees, Contains
  <2>3. Answers' /\ \A u \in Tasks : NoneBefore(task[u])'
    BY <2>1 DEF IInv, Answers, AnswerOK, Stored, BuiltOnce, NoneBefore
  <2>4. EachOnce' /\ OwnershipKept' /\ PrefixDisposed'
    BY <2>1, QuietLists DEF disposal
  <2>5. QED
    BY <2>2, <2>3, <2>4, Assemble
<1>6. QED
  BY <1>1, <1>2, <1>3, <1>4, <1>5 DEF Next

-----------------------------------------------------------------------------
(* The theorems                                                            *)

\* The inductive invariant of the workspace holds in every reachable state, for
\* any number of calls, sources and plugins.
THEOREM WorkspaceInvariant == Spec => []IInv
<1>1. IInv /\ [Next]_vars => IInv'
  BY StepKeeps
<1>2. QED
  BY <1>1, InitOK, PTL DEF Spec

\* AddAsync and RemoveAsync dispose a duplicate and a removed plugin once, and
\* nothing else: a loaded plugin reads from an open source.
THEOREM Ownership == Spec => []OwnershipKept
<1>1. IInv => OwnershipKept
  BY DEF IInv
<1>2. QED
  BY <1>1, WorkspaceInvariant, PTL

\* GetIndexAsync builds an index only for a plugin that has none, one at a time.
THEOREM IndexesBuiltOnce == Spec => []BuiltOnce
<1>1. IInv => BuiltOnce
  BY DEF IInv
<1>2. QED
  BY <1>1, WorkspaceInvariant, PTL

\* What ResolveAsync answers is right, if the plugin files are well formed: only
\* then is the id it searches for, with the number of masters as its top byte, the
\* one under which the file stores a form of its own.
THEOREM Resolution ==
  ASSUME WellFormed
  PROVE  Spec => []ResolvesRight
<1>1. ASSUME NEW p \in Sources, NEW object
      PROVE  LocalId(p, object) \in RecordsOf[p] <=>
               \E id \in RecordsOf[p] : ResolveOrigin(p, id) = NameOf[p] /\ id.object = object
  <2> DEFINE n == Len(MastersOf[p])
  <2>1. /\ n \in Nat
        /\ \A i \in 1..n : MastersOf[p][i] # NameOf[p]
        /\ RecordsOf[p] \subseteq [index : 0..n, object : Nat]
    BY WellFormed DEF WellFormed
  <2> HIDE DEF n
  <2>2. LocalId(p, object) = [index |-> n, object |-> object]
    BY DEF LocalId, n
  <2>3. ASSUME LocalId(p, object) \in RecordsOf[p]
        PROVE  ResolveOrigin(p, LocalId(p, object)) = NameOf[p] /\ LocalId(p, object).object = object
    BY <2>1, <2>2 DEF ResolveOrigin, n
  <2>4. ASSUME NEW id \in RecordsOf[p], ResolveOrigin(p, id) = NameOf[p], id.object = object
        PROVE  LocalId(p, object) \in RecordsOf[p]
    <3>1. id \in [index : 0..n, object : Nat]
      BY <2>1
    <3>2. id.index < n => ResolveOrigin(p, id) = MastersOf[p][id.index + 1] /\ id.index + 1 \in 1..n
      BY <2>1, <3>1 DEF ResolveOrigin, n
    <3>3. id.index = n
      BY <2>1, <2>4, <3>1, <3>2
    <3>4. id = [index |-> n, object |-> object]
      BY <2>4, <3>1, <3>3
    <3>5. QED
      BY <2>2, <3>4
  <2>5. QED
    BY <2>3, <2>4
<1>2. IInv => ResolvesRight
  <2> SUFFICES ASSUME IInv, NEW t \in Tasks,
                      task[t].at \in {"resolved", "not found"}, task[t].plugin # NoPlugin
               PROVE  LET p == task[t].plugin
                          ref == task[t].question
                          own == {id \in RecordsOf[p] : ResolveOrigin(p, id) = NameOf[p]}
                      IN  /\ NameOf[p] = ResolveOrigin(ref.context, ref.id)
                          /\ task[t].at = "resolved" <=> \E id \in own : id.object = ref.id.object
    BY DEF ResolvesRight
  <2>1. task[t].plugin \in Sources
    BY DEF IInv, TypeOK, Calls
  <2>2. /\ NameOf[task[t].plugin] = ResolveOrigin(task[t].question.context, task[t].question.id)
        /\ task[t].at = "resolved" <=> Stored(task[t])
    BY DEF IInv, Answers, AnswerOK
  <2>3. PICK p \in Sources : p = task[t].plugin
    BY <2>1
  <2>4. PICK object : object = task[t].question.id.object
    OBVIOUS
  <2>5. Stored(task[t]) <=> \E id \in RecordsOf[p] : ResolveOrigin(p, id) = NameOf[p] /\ id.object = object
    <3>1. LocalId(p, object) \in RecordsOf[p] <=>
            \E id \in RecordsOf[p] : ResolveOrigin(p, id) = NameOf[p] /\ id.object = object
      BY <1>1
    <3>2. Stored(task[t]) <=> LocalId(p, object) \in RecordsOf[p]
      BY <2>3, <2>4 DEF Stored
    <3>3. QED
      BY <3>1, <3>2
  <2>6. QED
    BY <2>2, <2>3, <2>4, <2>5
<1>3. QED
  BY <1>2, WorkspaceInvariant, PTL

\* A DisposeAsync that runs to its end has disposed every plugin it drops.
THEOREM DisposalIsComplete == Spec => DisposalComplete
<1> DEFINE Ends == life # "disposed" /\ life' = "disposed"
           Complete == Ends => \A p \in Sources : IsLoaded(p) => closes'[p] > 0
<1>1. IInv /\ [Next]_vars => [Complete]_vars
  <2> SUFFICES ASSUME IInv, Next, Ends, NEW p \in Sources, IsLoaded(p)
               PROVE  closes'[p] > 0
    OBVIOUS
  <2>1. /\ loaded \in Seq(Sources) /\ Len(loaded) \in Nat /\ closes \in [Sources -> Nat]
    BY DEF IInv, TypeOK
  <2>2. ASSUME NEW t \in Tasks, Start(t) \/ Progress(t) \/ CancelWait(t)
        PROVE  life' = life
    BY <2>2 DEF Start, Progress, CancelWait, Add, RemovePlugin, Resolve, Discarded, Opened, OpenFailed,
                Removed, LookUpIndex, LastRead, Built, BuildFailed, FindOffset, Located, LocateFailed,
                disposal
  <2>3. CASE DisposeStart
    BY <2>1, <2>3 DEF DisposeStart, IsLoaded, Contains
  <2>4. CASE DisposeNext
    <3>1. life = "disposing" /\ ~ modified /\ cursor >= Len(loaded) /\ closes' = closes
      BY <2>4 DEF DisposeNext
    <3>2. cursor \in 1..Len(loaded) /\ \A i \in 1..cursor : closes[loaded[i]] > 0
      BY <3>1 DEF IInv, PrefixDisposed
    <3>3. \A i \in 1..Len(loaded) : i \in 1..cursor
      BY <2>1, <3>1, <3>2
    <3>4. QED
      BY <3>1, <3>2, <3>3 DEF IsLoaded, Contains
  <2>5. QED
    BY <2>2, <2>3, <2>4 DEF Next
<1>2. QED
  BY <1>1, WorkspaceInvariant, PTL DEF Spec, DisposalComplete

-----------------------------------------------------------------------------
(* What the workspace does in a step                                       *)

\* The plugins and their sources stay as they are.
Quiet == UNCHANGED <<loaded, source, closes, life>>

\* No call begins to open a plugin.
NoneOpens ==
  \A u \in Tasks : task'[u].at = "opening" => task[u].at = "opening" /\ task'[u].plugin = task[u].plugin

\* One call moves, and does not open anything after it.
LEMMA MovesOnly ==
  ASSUME task \in [Tasks -> Calls], NEW t \in Tasks, NEW c, Become(t, c), c.at # "opening"
  PROVE  /\ NoneOpens /\ task'[t] = c
         /\ \A u \in Tasks \ {t} : task'[u] = task[u]
  BY DEF Become, NoneOpens

\* A call goes on to another point than opening.
LEMMA ContinuesOnly ==
  ASSUME task \in [Tasks -> Calls], NEW t \in Tasks, NEW a, Continue(t, a), a # "opening"
  PROVE  NoneOpens
<1>1. task[t] \in Calls
  OBVIOUS
<1>2. [task[t] EXCEPT !.at = a].at = a
  BY <1>1 DEF Calls
<1>3. QED
  BY <1>2, MovesOnly DEF Continue

\* The gate is passed on.
LEMMA ReleasesOnly ==
  ASSUME task \in [Tasks -> Calls], NEW t \in Tasks, NEW c, Release(t, c), c.at # "opening"
  PROVE  NoneOpens
<1>1. CASE Become(t, Returned)
  BY <1>1, MovesOnly DEF Returned, Call
<1>2. CASE task' = [u \in Tasks |-> IF u = t THEN c
                                   ELSE IF u = NextInLine THEN [task[u] EXCEPT !.at = "granted"]
                                   ELSE task[u]]
  <2>1. \A u \in Tasks : [task[u] EXCEPT !.at = "granted"].at = "granted"
    BY DEF Calls
  <2>2. QED
    BY <1>2, <2>1 DEF NoneOpens
<1>3. QED
  BY <1>1, <1>2 DEF Release

\* The calls that neither add nor remove: a resolve, what goes on of it, the end of
\* a call, a wait that is cancelled.
LEMMA QuietCalls ==
  ASSUME IInv, NEW t \in Tasks,
         \/ Discarded(t) \/ Removed(t) \/ LookUpIndex(t) \/ LastRead(t) \/ Built(t) \/ BuildFailed(t)
         \/ FindOffset(t) \/ Located(t) \/ LocateFailed(t) \/ CancelWait(t)
         \/ \E ref \in References : Resolve(t, ref)
  PROVE  Quiet /\ NoneOpens
<1>1. task \in [Tasks -> Calls] /\ Returned.at # "opening"
  BY DEF IInv, TypeOK, Returned, Call
<1>2. [task[t] EXCEPT !.at = "indexed"].at = "indexed"
  BY <1>1 DEF Calls
<1>3. CASE Discarded(t) \/ Removed(t) \/ LocateFailed(t) \/ CancelWait(t)
  BY <1>1, <1>3, MovesOnly DEF Discarded, Removed, LocateFailed, CancelWait, Quiet, disposal
<1>4. CASE LookUpIndex(t) \/ Built(t) \/ BuildFailed(t)
  BY <1>1, <1>2, <1>4, ReleasesOnly, ContinuesOnly
  DEF LookUpIndex, Built, BuildFailed, Quiet, disposal
<1>5. CASE LastRead(t) \/ FindOffset(t) \/ Located(t)
  BY <1>1, <1>5, ContinuesOnly DEF LastRead, FindOffset, Located, Quiet, disposal
<1>6. ASSUME NEW ref \in References, Resolve(t, ref)
      PROVE  Quiet /\ NoneOpens
  <2>1. PICK c : Become(t, c) /\ c.at # "opening"
    <3>1. \A plugin, question : /\ Call("not found", plugin, question).at # "opening"
                               /\ Call("missing master", plugin, question).at # "opening"
                               /\ Call("granted", plugin, question).at # "opening"
                               /\ Call("waiting", plugin, question).at # "opening"
      BY DEF Call
    <3>2. \E plugin, question :
            \/ Become(t, Call("not found", plugin, question)) \/ Become(t, Call("missing master", plugin, question))
            \/ Arrive(t, plugin, question)
      BY <1>6 DEF Resolve
    <3>3. ASSUME NEW plugin, NEW question, Arrive(t, plugin, question)
          PROVE  \/ Become(t, Returned) \/ Become(t, Call("granted", plugin, question))
                 \/ Become(t, Call("waiting", plugin, question))
      BY <3>3 DEF Arrive
    <3>4. QED
      BY <1>1, <3>1, <3>2, <3>3
  <2>2. QED
    BY <1>1, <1>6, <2>1, MovesOnly DEF Resolve, Quiet, disposal
<1>7. QED
  BY <1>3, <1>4, <1>5, <1>6

\* The disposal ends the life of the workspace, and disposes what it has.
LEMMA DisposalOnly ==
  ASSUME IInv, DisposeStart \/ DisposeNext
  PROVE  /\ life' # "open" /\ UNCHANGED source /\ NoneOpens
         /\ loaded' \in {loaded, <<>>}
         /\ \A s \in Sources : closes'[s] # closes[s] => IsLoaded(s)
<1>1. /\ task \in [Tasks -> Calls] /\ loaded \in Seq(Sources)
      /\ closes \in [Sources -> Nat] /\ cursor \in Nat
  BY DEF IInv, TypeOK
<1>2. ASSUME DisposeDone
      PROVE  life' # "open" /\ loaded' = <<>> /\ NoneOpens
  <2>1. \A u \in Tasks : [task[u] EXCEPT !.at = "orphaned"].at = "orphaned"
    BY <1>1 DEF Calls
  <2>2. QED
    BY <1>1, <1>2, <2>1 DEF DisposeDone, NoneOpens
<1>3. UNCHANGED task => NoneOpens
  BY DEF NoneOpens
<1>4. CASE DisposeStart
  <2>1. CASE loaded = <<>> /\ DisposeDone /\ UNCHANGED <<cursor, closes>>
    BY <1>2, <1>4, <2>1 DEF DisposeStart
  <2>2. CASE loaded # <<>> /\ life' = "disposing" /\ Close(Head(loaded)) /\ UNCHANGED <<loaded, indexes, gate, task>>
    <3>1. Head(loaded) = loaded[1] /\ 1 \in 1..Len(loaded)
      BY <1>1, <2>2
    <3>2. \A s \in Sources : closes'[s] # closes[s] => s = loaded[1]
      BY <1>1, <2>2, <3>1 DEF Close
    <3>3. QED
      BY <1>3, <1>4, <2>2, <3>1, <3>2 DEF DisposeStart, IsLoaded, Contains
  <2>3. QED
    BY <1>4, <2>1, <2>2 DEF DisposeStart
<1>5. CASE DisposeNext
  <2>1. CASE modified /\ life' = "broken" /\ UNCHANGED <<loaded, indexes, gate, cursor, closes, task>>
    BY <1>3, <1>5, <2>1 DEF DisposeNext
  <2>2. CASE cursor < Len(loaded) /\ Close(loaded[cursor + 1]) /\ UNCHANGED <<loaded, indexes, gate, life, task>>
    <3>1. cursor + 1 \in 1..Len(loaded)
      BY <1>1, <2>2
    <3>2. \A s \in Sources : closes'[s] # closes[s] => s = loaded[cursor + 1]
      BY <1>1, <2>2 DEF Close
    <3>3. QED
      BY <1>3, <1>5, <2>2, <3>1, <3>2 DEF DisposeNext, IsLoaded, Contains
  <2>3. CASE DisposeDone /\ UNCHANGED <<cursor, closes>>
    BY <1>2, <1>5, <2>3 DEF DisposeNext
  <2>4. QED
    BY <1>5, <2>1, <2>2, <2>3 DEF DisposeNext
<1>6. QED
  BY <1>4, <1>5

-----------------------------------------------------------------------------
(* Numbers and files                                                       *)

\* The files of plugins that are loaded or being opened are in use.
Used(s) == source[s] = "opening" \/ IsLoaded(s)

\* No source of this number came to anything.
GivenUp(id) == \A s \in Sources : s.id = id => source[s] \in {"unused", "rejected"}

UseOK ==
  /\ \A s \in Sources : Used(s) => s.id \in DOMAIN files /\ files[s.id] = s.file
  /\ WaitingIds \subseteq DOMAIN files
  /\ \A id \in DOMAIN files \ WaitingIds : GivenUp(id) \/ \E s \in Sources : s.id = id /\ Used(s)

LEMMA FilesInUseIs == FilesInUse <=> (life = "open" => UseOK)
  BY DEF FilesInUse, UseOK, Used, GivenUp

\* A plugin in use is not given up.
LEMMA UsedFacts ==
  ASSUME IInv, NEW s \in Sources, Used(s)
  PROVE  source[s] \in {"opening", "open"}
<1>1. IsLoaded(s) => \E i \in 1..Len(loaded) : loaded[i] = s
  BY DEF IsLoaded, Contains
<1>2. QED
  BY <1>1 DEF Used, IInv, EachOnce

\* The numbers of the sources of some lists.
LEMMA IdsOfLists ==
  ASSUME NEW w \in [ToSet(Pages) -> Seq(Sources)], NEW id
  PROVE  id \in UNION {{s.id : s \in ToSet(w[p])} : p \in ToSet(Pages)} <=>
           \E p \in ToSet(Pages) : \E i \in 1..Len(w[p]) : w[p][i].id = id
<1>1. \A p \in ToSet(Pages) : ToSet(w[p]) = {w[p][i] : i \in 1..Len(w[p])}
  BY DEF ToSet
<1>2. QED
  BY <1>1

LEMMA WaitingFacts ==
  ASSUME HomeTypeOK
  PROVE  /\ \A p \in ToSet(Pages) : Waiting(p) \in Seq(Sources)
         /\ \A id : id \in WaitingIds <=> \E p \in ToSet(Pages) : \E i \in 1..Len(Waiting(p)) : Waiting(p)[i].id = id
<1>1. \A p \in ToSet(Pages) : Waiting(p) \in Seq(Sources)
  BY DEF HomeTypeOK, Handlers, Waiting
<1>2. PICK w \in [ToSet(Pages) -> Seq(Sources)] : \A p \in ToSet(Pages) : w[p] = Waiting(p)
  <2>1. [p \in ToSet(Pages) |-> Waiting(p)] \in [ToSet(Pages) -> Seq(Sources)]
    BY <1>1
  <2>2. QED
    BY <2>1
<1>3. WaitingIds = UNION {{s.id : s \in ToSet(w[p])} : p \in ToSet(Pages)}
  BY <1>2 DEF WaitingIds
<1>4. ASSUME NEW id
      PROVE  id \in WaitingIds <=> \E p \in ToSet(Pages) : \E i \in 1..Len(w[p]) : w[p][i].id = id
  <2>1. id \in UNION {{s.id : s \in ToSet(w[p])} : p \in ToSet(Pages)} <=>
          \E p \in ToSet(Pages) : \E i \in 1..Len(w[p]) : w[p][i].id = id
    BY IdsOfLists
  <2>2. QED
    BY <1>3, <2>1
<1>5. QED
  BY <1>1, <1>2, <1>4

LEMMA WaitingFactsNext ==
  ASSUME HomeTypeOK'
  PROVE  /\ \A p \in ToSet(Pages) : Waiting(p)' \in Seq(Sources)
         /\ \A id : id \in WaitingIds' <=>
              \E p \in ToSet(Pages) : \E i \in 1..Len(Waiting(p)') : Waiting(p)'[i].id = id
<1>1. \A p \in ToSet(Pages) : Waiting(p)' \in Seq(Sources)
  BY DEF HomeTypeOK, Handlers, Waiting
<1>2. PICK w \in [ToSet(Pages) -> Seq(Sources)] : \A p \in ToSet(Pages) : w[p] = Waiting(p)'
  <2>1. [p \in ToSet(Pages) |-> Waiting(p)'] \in [ToSet(Pages) -> Seq(Sources)]
    BY <1>1
  <2>2. QED
    BY <2>1
<1>3. WaitingIds' = UNION {{s.id : s \in ToSet(w[p])} : p \in ToSet(Pages)}
  BY <1>2 DEF WaitingIds
<1>4. ASSUME NEW id
      PROVE  id \in WaitingIds' <=> \E p \in ToSet(Pages) : \E i \in 1..Len(w[p]) : w[p][i].id = id
  <2>1. id \in UNION {{s.id : s \in ToSet(w[p])} : p \in ToSet(Pages)} <=>
          \E p \in ToSet(Pages) : \E i \in 1..Len(w[p]) : w[p][i].id = id
    BY IdsOfLists
  <2>2. QED
    BY <1>3, <2>1
<1>5. QED
  BY <1>1, <1>2, <1>4

\* Files that are released are gone, the others stay.
LEMMA ReleasedFacts ==
  ASSUME HomeTypeOK, Released
  PROVE  /\ \A id : id \in DOMAIN files' <=>
              id \in DOMAIN files /\ \A s \in Sources : closes'[s] # closes[s] => s.id # id
         /\ \A id \in DOMAIN files' : files'[id] = files[id]
         /\ files' \in [DOMAIN files' -> Selectable]
         /\ nextId' = nextId
<1> DEFINE gone == {s.id : s \in {s \in Sources : closes'[s] # closes[s]}}
<1>1. \A id : id \in gone <=> \E s \in Sources : closes'[s] # closes[s] /\ s.id = id
  OBVIOUS
<1>2. files' = [id \in DOMAIN files \ gone |-> files[id]] /\ nextId' = nextId
  BY DEF Released, ReleaseFiles
<1> HIDE DEF gone
<1>3. QED
  BY <1>1, <1>2 DEF HomeTypeOK

\* What a step of the workspace does not change of the pages: it releases numbers
\* that no page has.
LEMMA CallKeepsNumbers ==
  ASSUME HomeInv, Released, UNCHANGED pageVars,
         \A s \in Sources : source'[s] = "unused" <=> source[s] = "unused",
         \A s \in Sources : closes'[s] # closes[s] => source[s] # "unused"
  PROVE  HomeTypeOK' /\ NumbersGivenOnce' /\ WaitingIds' = WaitingIds
<1>1. HomeTypeOK'
  BY ReleasedFacts DEF HomeInv, HomeTypeOK, pageVars
<1>2. \A p : Waiting(p)' = Waiting(p)
  BY DEF Waiting, pageVars
<1>3. WaitingIds' = WaitingIds
  BY <1>2 DEF WaitingIds
<1>4. ASSUME NEW p \in ToSet(Pages), NEW i \in 1..Len(Waiting(p))
      PROVE  Waiting(p)[i].id \in DOMAIN files' /\ files'[Waiting(p)[i].id] = Waiting(p)[i].file
  BY ReleasedFacts DEF HomeInv, NumbersGivenOnce
<1>5. NumbersGivenOnce'
  BY <1>2, <1>4, ReleasedFacts DEF HomeInv, NumbersGivenOnce
<1>6. QED
  BY <1>1, <1>3, <1>5

\* Files stay in use: only a plugin that is disposed or rejected goes out of use.
LEMMA CallKeepsUse ==
  ASSUME HomeInv, Released, UNCHANGED pageVars, life' = "open" => life = "open",
         \A s \in Sources : source'[s] = "unused" <=> source[s] = "unused",
         \A s \in Sources : closes'[s] # closes[s] => source[s] # "unused",
         life' = "open" => \A s \in Sources :
           /\ Used(s)' => Used(s) /\ closes'[s] = closes[s]
           /\ Used(s) => Used(s)' \/ closes'[s] # closes[s] \/ source'[s] = "rejected"
           /\ source[s] = "rejected" => source'[s] = "rejected"
  PROVE  FilesInUse'
<1>1. SUFFICES ASSUME life' = "open" PROVE UseOK'
  BY FilesInUseIs DEF FilesInUse, UseOK, Used, GivenUp
<1>2. life = "open" /\ UseOK
  BY <1>1, FilesInUseIs DEF HomeInv
<1>3. HomeTypeOK' /\ NumbersGivenOnce' /\ WaitingIds' = WaitingIds
  BY CallKeepsNumbers
<1>4. ASSUME NEW s \in Sources, Used(s)'
      PROVE  s.id \in DOMAIN files' /\ files'[s.id] = s.file
  <2>1. Used(s) /\ closes'[s] = closes[s] /\ source[s] # "unused"
    BY <1>1, <1>4, UsedFacts DEF HomeInv
  <2>2. s.id \in DOMAIN files /\ files[s.id] = s.file
    BY <1>2, <2>1 DEF UseOK
  <2>3. \A u \in Sources : closes'[u] # closes[u] => u.id # s.id
    BY <2>1 DEF HomeInv, NumbersGivenOnce
  <2>4. QED
    BY <2>2, <2>3, ReleasedFacts DEF HomeInv
<1>5. WaitingIds' \subseteq DOMAIN files'
  BY <1>3, WaitingFactsNext DEF NumbersGivenOnce
<1>6. ASSUME NEW id \in DOMAIN files', id \notin WaitingIds'
      PROVE  GivenUp(id)' \/ \E s \in Sources : s.id = id /\ Used(s)'
  <2>1. id \in DOMAIN files \ WaitingIds
    BY <1>3, <1>6, ReleasedFacts DEF HomeInv
  <2>2. CASE GivenUp(id)
    BY <1>1, <2>2 DEF GivenUp
  <2>3. ASSUME NEW s \in Sources, s.id = id, Used(s)
        PROVE  GivenUp(id)' \/ \E u \in Sources : u.id = id /\ Used(u)'
    <3>1. closes'[s] = closes[s]
      BY <1>6, <2>3, ReleasedFacts DEF HomeInv
    <3>2. CASE Used(s)'
      BY <2>3, <3>2
    <3>3. CASE source'[s] = "rejected"
      <4>1. source[s] # "unused"
        BY <2>3, UsedFacts DEF HomeInv
      <4>2. \A u \in Sources : u.id = id /\ u # s => source'[u] = "unused"
        BY <2>3, <4>1 DEF HomeInv, NumbersGivenOnce
      <4>3. QED
        BY <3>3, <4>2 DEF GivenUp
    <3>4. QED
      BY <1>1, <2>3, <3>1, <3>2, <3>3
  <2>4. QED
    BY <1>2, <2>1, <2>2, <2>3 DEF UseOK
<1>7. QED
  BY <1>4, <1>5, <1>6 DEF UseOK

-----------------------------------------------------------------------------
(* Steps of the workspace                                                  *)

\* Nothing is opened that was not, nothing loaded, and no handler starts or ends.
LEMMA CallKeepsOrder ==
  ASSUME HomeInv, NoneOpens, UNCHANGED overlapped,
         \A p \in ToSet(Pages) : handler'[p].at = "adding" <=> handler[p].at = "adding",
         \A i \in 1..Len(loaded') : \E k \in 1..Len(loaded) : loaded'[i] = loaded[k],
         NamesUnique => NamesUnique'
  PROVE  OneByOne'
<1>1. \A t \in Tasks : task'[t].at = "opening" => t \in ToSet(Pages) /\ handler'[t].at = "adding"
  BY DEF HomeInv, OneByOne, NoneOpens
<1>2. ASSUME ~ overlapped
      PROVE  /\ \A p, q \in ToSet(Pages) : handler'[p].at = "adding" /\ handler'[q].at = "adding" => p = q
             /\ NamesUnique'
  BY <1>2 DEF HomeInv, OneByOne
<1>3. ASSUME ~ overlapped, NEW t \in Tasks, task'[t].at = "opening", NEW i \in 1..Len(loaded')
      PROVE  NameOf[loaded'[i]] # NameOf[task'[t].plugin]
  <2>1. task[t].at = "opening" /\ task'[t].plugin = task[t].plugin
    BY <1>3 DEF NoneOpens
  <2>2. PICK k \in 1..Len(loaded) : loaded'[i] = loaded[k]
    BY <1>3
  <2>3. QED
    BY <1>3, <2>1, <2>2 DEF HomeInv, OneByOne
<1>4. QED
  BY <1>1, <1>2, <1>3 DEF OneByOne

LEMMA QuietKeeps ==
  ASSUME HomeInv, Quiet, NoneOpens, Released, UNCHANGED pageVars
  PROVE  HomeTypeOK' /\ OneByOne' /\ NumbersGivenOnce' /\ FilesInUse'
<1>1. OneByOne'
  BY CallKeepsOrder DEF Quiet, pageVars, NamesUnique
<1>2. \A s : Used(s)' <=> Used(s)
  BY DEF Used, Quiet, IsLoaded
<1>3. HomeTypeOK' /\ NumbersGivenOnce'
  BY CallKeepsNumbers DEF Quiet
<1>4. FilesInUse'
  BY <1>2, CallKeepsUse DEF Quiet
<1>5. QED
  BY <1>1, <1>3, <1>4

\* A plugin that was opened is loaded: it was the only one being opened, and had
\* the name of none that is loaded, unless pages overlapped.
LEMMA OpenedKeepsPages ==
  ASSUME HomeInv, NEW t \in Tasks, Opened(t), Released, UNCHANGED pageVars
  PROVE  HomeTypeOK' /\ OneByOne' /\ NumbersGivenOnce' /\ FilesInUse'
<1> DEFINE s == task[t].plugin
<1>1. /\ task[t].at = "opening" /\ Become(t, Returned)
      /\ loaded' = Append(loaded, s) /\ source' = [source EXCEPT ![s] = "open"]
      /\ UNCHANGED <<life, closes>>
  BY DEF Opened
<1>2. /\ task \in [Tasks -> Calls] /\ loaded \in Seq(Sources) /\ Len(loaded) \in Nat
      /\ source \in [Sources -> {"unused", "opening", "open", "duplicate", "rejected"}]
  BY DEF HomeInv, IInv, TypeOK
<1>3. s \in Sources /\ source[s] = "opening"
  BY <1>1, <1>2 DEF HomeInv, IInv, TypeOK, EachOnce, Over, Results, Calls
<1>4. /\ task'[t].at # "opening" /\ \A u \in Tasks \ {t} : task'[u] = task[u]
      /\ NoneOpens
  BY <1>1, <1>2, MovesOnly DEF Returned, Call
<1> HIDE DEF s
<1>5. /\ Len(loaded') = Len(loaded) + 1 /\ loaded'[Len(loaded) + 1] = s
      /\ \A i \in 1..Len(loaded) : loaded'[i] = loaded[i]
  BY <1>1, <1>2, <1>3, AppendFacts
<1>6. \A u \in Sources : IsLoaded(u)' <=> IsLoaded(u) \/ u = s
  BY <1>2, <1>5 DEF IsLoaded, Contains
<1>7. OneByOne'
  <2>1. \A u \in Tasks : task'[u].at = "opening" => u \in ToSet(Pages) /\ handler'[u].at = "adding"
    BY <1>4 DEF HomeInv, OneByOne, NoneOpens, pageVars
  <2>2. ASSUME ~ overlapped
        PROVE  /\ \A p, q \in ToSet(Pages) : handler'[p].at = "adding" /\ handler'[q].at = "adding" => p = q
               /\ NamesUnique
               /\ \A i \in 1..Len(loaded) : NameOf[loaded[i]] # NameOf[s]
               /\ \A u \in Tasks : task'[u].at # "opening"
    <3>1. /\ \A p, q \in ToSet(Pages) : handler[p].at = "adding" /\ handler[q].at = "adding" => p = q
          /\ NamesUnique
          /\ \A i \in 1..Len(loaded) : NameOf[loaded[i]] # NameOf[s]
      BY <1>1, <2>2 DEF HomeInv, OneByOne, s
    <3>2. t \in ToSet(Pages) /\ handler[t].at = "adding"
      BY <1>1 DEF HomeInv, OneByOne
    <3>3. \A u \in Tasks : task'[u].at # "opening"
      BY <1>4, <2>1, <3>1, <3>2 DEF pageVars
    <3>4. QED
      BY <3>1, <3>3 DEF pageVars
  <2>3. ASSUME ~ overlapped
        PROVE  NamesUnique'
    <3>1. SUFFICES ASSUME NEW i \in 1..Len(loaded'), NEW j \in 1..Len(loaded'),
                          NameOf[loaded'[i]] = NameOf[loaded'[j]]
                   PROVE  i = j
      BY DEF NamesUnique
    <3>2. CASE i \in 1..Len(loaded) /\ j \in 1..Len(loaded)
      BY <1>5, <2>2, <2>3, <3>1, <3>2 DEF NamesUnique
    <3>3. CASE i = Len(loaded) + 1 /\ j # i
      <4>1. j \in 1..Len(loaded)
        BY <1>2, <1>5, <3>3
      <4>2. QED
        BY <1>5, <2>2, <2>3, <3>1, <3>3, <4>1
    <3>4. CASE j = Len(loaded) + 1 /\ j # i
      <4>1. i \in 1..Len(loaded)
        BY <1>2, <1>5, <3>4
      <4>2. QED
        BY <1>5, <2>2, <2>3, <3>1, <3>4, <4>1
    <3>5. QED
      BY <1>2, <1>5, <3>2, <3>3, <3>4
  <2>4. QED
    BY <2>1, <2>2, <2>3 DEF OneByOne, pageVars
<1>8. HomeTypeOK' /\ NumbersGivenOnce'
  BY <1>1, <1>2, <1>3, CallKeepsNumbers
<1>9. FilesInUse'
  <2>1. \A u \in Sources : Used(u)' <=> Used(u)
    BY <1>1, <1>2, <1>3, <1>6 DEF Used
  <2>2. QED
    BY <1>1, <1>2, <1>3, <2>1, CallKeepsUse
<1>10. QED
  BY <1>7, <1>8, <1>9

\* A plugin that could not be opened is out of use, and its file given up.
LEMMA OpenFailedKeepsPages ==
  ASSUME HomeInv, NEW t \in Tasks, OpenFailed(t), Released, UNCHANGED pageVars
  PROVE  HomeTypeOK' /\ OneByOne' /\ NumbersGivenOnce' /\ FilesInUse'
<1> DEFINE s == task[t].plugin
<1>1. /\ task[t].at = "opening" /\ Become(t, Returned)
      /\ source' = [source EXCEPT ![s] = "rejected"]
      /\ UNCHANGED <<loaded, life, closes>>
  BY DEF OpenFailed, disposal
<1>2. /\ task \in [Tasks -> Calls]
      /\ source \in [Sources -> {"unused", "opening", "open", "duplicate", "rejected"}]
  BY DEF HomeInv, IInv, TypeOK
<1>3. s \in Sources /\ source[s] = "opening"
  BY <1>1, <1>2 DEF HomeInv, IInv, TypeOK, EachOnce, Over, Results, Calls
<1>4. NoneOpens
  BY <1>1, <1>2, MovesOnly DEF Returned, Call
<1> HIDE DEF s
<1>5. OneByOne'
  BY <1>1, <1>4, CallKeepsOrder DEF pageVars, NamesUnique
<1>6. HomeTypeOK' /\ NumbersGivenOnce'
  BY <1>1, <1>2, <1>3, CallKeepsNumbers
<1>7. FilesInUse'
  <2>1. \A u \in Sources : IsLoaded(u)' <=> IsLoaded(u)
    BY <1>1 DEF IsLoaded
  <2>2. ASSUME NEW u \in Sources
        PROVE  /\ Used(u)' => Used(u)
               /\ Used(u) => Used(u)' \/ source'[u] = "rejected"
    BY <1>1, <1>2, <1>3, <2>1 DEF Used
  <2>3. QED
    BY <1>1, <1>2, <1>3, <2>2, CallKeepsUse
<1>8. QED
  BY <1>5, <1>6, <1>7

\* A plugin that is removed is out of use, and its file released.
LEMMA RemoveKeepsPages ==
  ASSUME HomeInv, NEW t \in Tasks, NEW s \in Sources, RemovePlugin(t, s), Released, UNCHANGED pageVars
  PROVE  HomeTypeOK' /\ OneByOne' /\ NumbersGivenOnce' /\ FilesInUse'
<1>1. /\ Contains(loaded, s) /\ loaded' = RemoveFirst(loaded, s)
      /\ closes' = [closes EXCEPT ![s] = @ + 1]
      /\ Become(t, Call("removing", s, NoQuestion))
      /\ UNCHANGED <<life, source>>
  BY DEF RemovePlugin, IsLoaded, Close
<1>2. /\ task \in [Tasks -> Calls] /\ loaded \in Seq(Sources) /\ Len(loaded) \in Nat
      /\ closes \in [Sources -> Nat]
  BY DEF HomeInv, IInv, TypeOK
<1>3. NoneOpens
  <2>1. Call("removing", s, NoQuestion).at # "opening"
    BY DEF Call
  <2>2. QED
    BY <1>1, <1>2, <2>1, MovesOnly
<1>4. PICK k \in 1..Len(loaded) : loaded[k] = s /\ loaded' = RemoveAt(loaded, k)
  BY <1>1, <1>2, RemoveFirstFacts
<1>5. /\ Len(loaded') = Len(loaded) - 1
      /\ \A j \in 1..(Len(loaded) - 1) : loaded'[j] = IF j < k THEN loaded[j] ELSE loaded[j + 1]
  BY <1>2, <1>4, RemoveAtFacts
<1>6. \A i \in 1..Len(loaded') : \E j \in 1..Len(loaded) : loaded'[i] = loaded[j]
  <2>1. SUFFICES ASSUME NEW i \in 1..Len(loaded') PROVE \E j \in 1..Len(loaded) : loaded'[i] = loaded[j]
    OBVIOUS
  <2>2. i \in 1..Len(loaded) /\ i + 1 \in 1..Len(loaded) /\ i \in 1..(Len(loaded) - 1)
    BY <1>2, <1>5
  <2>3. QED
    BY <1>5, <2>2
<1>7. NamesUnique => NamesUnique'
  <2>1. SUFFICES ASSUME NamesUnique, NEW i \in 1..Len(loaded'), NEW j \in 1..Len(loaded'),
                        NameOf[loaded'[i]] = NameOf[loaded'[j]]
                 PROVE  i = j
    BY DEF NamesUnique
  <2>2. /\ i \in 1..(Len(loaded) - 1) /\ j \in 1..(Len(loaded) - 1)
        /\ i \in 1..Len(loaded) /\ i + 1 \in 1..Len(loaded)
        /\ j \in 1..Len(loaded) /\ j + 1 \in 1..Len(loaded)
    BY <1>2, <1>5
  <2>3. QED
    BY <1>5, <2>1, <2>2 DEF NamesUnique
<1>8. OneByOne'
  BY <1>3, <1>6, <1>7, CallKeepsOrder DEF pageVars
<1>9. source[s] = "open"
  BY <1>4 DEF HomeInv, IInv, EachOnce
<1>10. \A u \in Sources : closes'[u] # closes[u] <=> u = s
  BY <1>1, <1>2
<1>11. HomeTypeOK' /\ NumbersGivenOnce'
  BY <1>1, <1>9, <1>10, CallKeepsNumbers
<1>12. \A u \in Sources : IsLoaded(u)' <=> IsLoaded(u) /\ u # s
  <2>1. \A i, j \in 1..Len(loaded) : loaded[i] = loaded[j] => i = j
    BY DEF HomeInv, IInv, EachOnce
  <2>2. QED
    BY <1>2, <1>4, <2>1, RemoveOnceFacts DEF IsLoaded
<1>13. FilesInUse'
  <2>1. \A u \in Sources : /\ Used(u)' => Used(u) /\ u # s
                           /\ Used(u) => Used(u)' \/ u = s
    BY <1>1, <1>9, <1>12 DEF Used
  <2>2. QED
    BY <1>1, <1>9, <1>10, <2>1, CallKeepsUse
<1>14. QED
  BY <1>8, <1>11, <1>13

\* The disposal of the workspace.
LEMMA DisposalKeepsPages ==
  ASSUME HomeInv, DisposeStart \/ DisposeNext, Released, UNCHANGED pageVars
  PROVE  HomeTypeOK' /\ OneByOne' /\ NumbersGivenOnce' /\ FilesInUse'
<1>1. /\ life' # "open" /\ UNCHANGED source /\ NoneOpens /\ loaded' \in {loaded, <<>>}
      /\ \A s \in Sources : closes'[s] # closes[s] => IsLoaded(s)
  BY DisposalOnly DEF HomeInv
<1>2. \A s \in Sources : closes'[s] # closes[s] => source[s] # "unused"
  BY <1>1, UsedFacts DEF HomeInv, Used
<1>3. HomeTypeOK' /\ NumbersGivenOnce'
  BY <1>1, <1>2, CallKeepsNumbers
<1>4. FilesInUse'
  BY <1>1 DEF FilesInUse
<1>5. OneByOne'
  BY <1>1, CallKeepsOrder DEF pageVars, NamesUnique
<1>6. QED
  BY <1>3, <1>4, <1>5

-----------------------------------------------------------------------------
(* Steps of the pages                                                      *)

\* A handler goes on.
LEMMA ProceedFacts ==
  ASSUME HomeTypeOK, NEW p \in ToSet(Pages), NEW at, NEW list, Proceed(p, at, list)
  PROVE  /\ handler'[p].at = at /\ handler'[p].list = list
         /\ \A q \in ToSet(Pages) : q # p => handler'[q] = handler[q]
         /\ [at |-> at, list |-> list] \in Handlers => handler' \in [ToSet(Pages) -> Handlers]
  BY DEF Proceed, HomeTypeOK

\* Every page has what it had to add.
LEMMA SameWaiting ==
  ASSUME HomeInv, UNCHANGED <<source, loaded, life, files, nextId>>,
         \A p \in ToSet(Pages) : Waiting(p)' = Waiting(p)
  PROVE  NumbersGivenOnce' /\ FilesInUse'
<1>1. NumbersGivenOnce'
  BY DEF HomeInv, NumbersGivenOnce
<1>2. WaitingIds' = WaitingIds
  BY DEF WaitingIds
<1>3. FilesInUse'
  BY <1>2 DEF HomeInv, FilesInUse, IsLoaded
<1>4. QED
  BY <1>1, <1>3

\* The workspace does nothing, and no handler begins or ends to add.
LEMMA SameOrder ==
  ASSUME HomeInv, UNCHANGED <<task, loaded, overlapped>>,
         \A p \in ToSet(Pages) : handler'[p].at = "adding" <=> handler[p].at = "adding"
  PROVE  OneByOne'
<1>1. NoneOpens
  BY DEF NoneOpens
<1>2. QED
  BY <1>1, CallKeepsOrder DEF NamesUnique

\* The user selects files, leaves the page, or comes back.
LEMMA UserKeeps ==
  ASSUME HomeInv, UserStep
  PROVE  HomeTypeOK' /\ OneByOne' /\ NumbersGivenOnce' /\ FilesInUse' /\ UNCHANGED vars
<1>1. ASSUME NEW p \in ToSet(Pages), NEW selection \in Selections, Select(p, selection)
      PROVE  HomeTypeOK' /\ OneByOne' /\ NumbersGivenOnce' /\ FilesInUse'
  <2>1. /\ handler[p].at = "idle" /\ Proceed(p, "importing", selection)
        /\ UNCHANGED <<task, loaded, source, life, files, nextId, shown, visited, overlapped>>
    BY <1>1 DEF Select, Loading, vars, disposal, fileAccess
  <2>2. [at |-> "importing", list |-> selection] \in Handlers
    BY HomeAssumption DEF Handlers
  <2>3. /\ handler'[p].at = "importing"
        /\ \A q \in ToSet(Pages) : q # p => handler'[q] = handler[q]
        /\ handler' \in [ToSet(Pages) -> Handlers]
    BY <2>1, <2>2, ProceedFacts DEF HomeInv
  <2>4. HomeTypeOK'
    BY <2>1, <2>3 DEF HomeInv, HomeTypeOK
  <2>5. \A q \in ToSet(Pages) : Waiting(q)' = Waiting(q)
    BY <2>1, <2>3 DEF Waiting
  <2>6. \A q \in ToSet(Pages) : handler'[q].at = "adding" <=> handler[q].at = "adding"
    BY <2>1, <2>3
  <2>7. QED
    BY <2>1, <2>4, <2>5, <2>6, SameWaiting, SameOrder
<1>2. ASSUME Leave \/ Return
      PROVE  HomeTypeOK' /\ OneByOne' /\ NumbersGivenOnce' /\ FilesInUse'
  <2>1. UNCHANGED <<task, loaded, source, life, files, nextId, handler, overlapped>>
    BY <1>2 DEF Leave, Return, vars, disposal, fileAccess
  <2>2. shown' \in ToSet(Pages) \cup {Elsewhere} /\ visited' \in 1..Len(Pages)
    <3>1. CASE Leave
      BY <3>1 DEF Leave, HomeInv, HomeTypeOK
    <3>2. CASE Return
      <4>1. visited + 1 \in 1..Len(Pages)
        BY <3>2, HomeAssumption DEF Return, HomeInv, HomeTypeOK
      <4>2. Pages[visited + 1] \in ToSet(Pages)
        BY <4>1, HomeAssumption DEF ToSet
      <4>3. QED
        BY <3>2, <4>1, <4>2 DEF Return
    <3>3. QED
      BY <1>2, <3>1, <3>2
  <2>3. HomeTypeOK'
    BY <2>1, <2>2 DEF HomeInv, HomeTypeOK
  <2>4. \A q \in ToSet(Pages) : Waiting(q)' = Waiting(q)
    BY <2>1 DEF Waiting
  <2>5. QED
    BY <2>1, <2>3, <2>4, SameWaiting, SameOrder
<1>3. UNCHANGED vars
  BY DEF UserStep, Select, Leave, Return
<1>4. QED
  BY <1>1, <1>2, <1>3 DEF UserStep

\* The sources are made: the page adds, and if another one does, they overlap.
LEMMA WrappedKeeps ==
  ASSUME HomeInv, NEW p \in ToSet(Pages), Wrapped(p)
  PROVE  HomeTypeOK' /\ OneByOne' /\ NumbersGivenOnce' /\ FilesInUse'
<1>1. /\ handler[p].at = "wrapping" /\ Proceed(p, "adding", handler[p].list)
      /\ overlapped' = (overlapped \/ \E q \in ToSet(Pages) \ {p} : handler[q].at = "adding")
      /\ UNCHANGED <<task, loaded, source, life, files, nextId, shown, visited>>
  BY DEF Wrapped, vars, disposal, fileAccess
<1>2. handler[p].list \in Seq(Sources) /\ [at |-> "adding", list |-> handler[p].list] \in Handlers
  BY <1>1 DEF HomeInv, HomeTypeOK, Handlers
<1>3. /\ handler'[p].at = "adding" /\ handler'[p].list = handler[p].list
      /\ \A q \in ToSet(Pages) : q # p => handler'[q] = handler[q]
      /\ handler' \in [ToSet(Pages) -> Handlers]
  BY <1>1, <1>2, ProceedFacts DEF HomeInv
<1>4. HomeTypeOK'
  BY <1>1, <1>3 DEF HomeInv, HomeTypeOK
<1>5. \A q \in ToSet(Pages) : Waiting(q)' = Waiting(q)
  BY <1>1, <1>3 DEF Waiting
<1>6. OneByOne'
  <2>1. \A t \in Tasks : task'[t].at = "opening" => t \in ToSet(Pages) /\ handler'[t].at = "adding"
    BY <1>1, <1>3 DEF HomeInv, OneByOne
  <2>2. ASSUME ~ overlapped'
        PROVE  \A q, r \in ToSet(Pages) : handler'[q].at = "adding" /\ handler'[r].at = "adding" => q = r
    BY <1>1, <1>3, <2>2
  <2>3. QED
    BY <1>1, <2>1, <2>2 DEF HomeInv, OneByOne, NamesUnique
<1>7. QED
  BY <1>1, <1>4, <1>5, <1>6, SameWaiting

\* The last source was added: no plugin of the page is being opened.
LEMMA AllAddedKeeps ==
  ASSUME HomeInv, NEW p \in ToSet(Pages), AllAdded(p)
  PROVE  HomeTypeOK' /\ OneByOne' /\ NumbersGivenOnce' /\ FilesInUse'
<1>1. /\ handler[p].at = "adding" /\ Over(p) /\ handler[p].list = <<>>
      /\ Proceed(p, "idle", <<>>)
      /\ UNCHANGED <<task, loaded, source, life, files, nextId, shown, visited, overlapped>>
  BY DEF AllAdded, MustContinue, vars, disposal, fileAccess
<1>2. [at |-> "idle", list |-> <<>>] \in Handlers
  BY DEF Handlers
<1>3. /\ handler'[p].at = "idle"
      /\ \A q \in ToSet(Pages) : q # p => handler'[q] = handler[q]
      /\ handler' \in [ToSet(Pages) -> Handlers]
  BY <1>1, <1>2, ProceedFacts DEF HomeInv
<1>4. HomeTypeOK'
  BY <1>1, <1>3 DEF HomeInv, HomeTypeOK
<1>5. \A q \in ToSet(Pages) : Waiting(q)' = Waiting(q)
  BY <1>1, <1>3 DEF Waiting
<1>6. OneByOne'
  <2>1. task[p].at # "opening"
    BY <1>1 DEF Over, Results
  <2>2. \A t \in Tasks : task'[t].at = "opening" => t \in ToSet(Pages) /\ handler'[t].at = "adding"
    BY <1>1, <1>3, <2>1 DEF HomeInv, OneByOne
  <2>3. QED
    BY <1>1, <1>3, <2>2 DEF HomeInv, OneByOne, NamesUnique
<1>7. QED
  BY <1>1, <1>4, <1>5, <1>6, SameWaiting

\* An import fails: the files that the page had registered are given up.
LEMMA ImportFailedKeeps ==
  ASSUME HomeInv, NEW p \in ToSet(Pages), ImportFailed(p)
  PROVE  HomeTypeOK' /\ OneByOne' /\ NumbersGivenOnce' /\ FilesInUse'
<1>1. /\ handler[p].at \in {"importing", "wrapping"} /\ Proceed(p, "idle", <<>>)
      /\ UNCHANGED <<task, loaded, source, life, files, nextId, shown, visited, overlapped>>
  BY DEF ImportFailed, vars, disposal, fileAccess
<1>2. [at |-> "idle", list |-> <<>>] \in Handlers
  BY DEF Handlers
<1>3. /\ handler'[p].at = "idle"
      /\ \A q \in ToSet(Pages) : q # p => handler'[q] = handler[q]
      /\ handler' \in [ToSet(Pages) -> Handlers]
  BY <1>1, <1>2, ProceedFacts DEF HomeInv
<1>4. HomeTypeOK'
  BY <1>1, <1>3 DEF HomeInv, HomeTypeOK
<1>5. OneByOne'
  <2>1. \A q \in ToSet(Pages) : handler'[q].at = "adding" <=> handler[q].at = "adding"
    BY <1>1, <1>3
  <2>2. QED
    BY <1>1, <2>1, SameOrder
<1>6. Waiting(p)' = <<>> /\ \A q \in ToSet(Pages) : q # p => Waiting(q)' = Waiting(q)
  BY <1>3 DEF Waiting
<1>7. \A q \in ToSet(Pages) : \A i \in 1..Len(Waiting(q)') :
        q # p /\ Waiting(q)' = Waiting(q) /\ i \in 1..Len(Waiting(q))
  BY <1>6
<1>8. NumbersGivenOnce'
  BY <1>1, <1>7 DEF HomeInv, NumbersGivenOnce
<1>9. FilesInUse'
  <2>1. SUFFICES ASSUME life = "open" PROVE UseOK'
    BY <1>1, FilesInUseIs DEF FilesInUse, UseOK, Used, GivenUp, IsLoaded
  <2>2. UseOK
    BY <2>1, FilesInUseIs DEF HomeInv
  <2>3. WaitingIds' \subseteq DOMAIN files'
    BY <1>4, <1>8, WaitingFactsNext DEF NumbersGivenOnce
  <2>4. \A s : Used(s)' <=> Used(s)
    BY <1>1 DEF Used, IsLoaded
  <2>5. \A id : GivenUp(id)' <=> GivenUp(id)
    BY <1>1 DEF GivenUp
  <2>6. ASSUME NEW id \in WaitingIds
        PROVE  GivenUp(id)
    BY WaitingFacts DEF HomeInv, NumbersGivenOnce, GivenUp
  <2>7. QED
    BY <1>1, <2>2, <2>3, <2>4, <2>5, <2>6 DEF UseOK
<1>10. QED
  BY <1>4, <1>5, <1>8, <1>9

\* Selected files get the next numbers, and their sources wait to be added.
LEMMA RegisteredKeeps ==
  ASSUME HomeInv, NEW p \in ToSet(Pages), Registered(p)
  PROVE  HomeTypeOK' /\ OneByOne' /\ NumbersGivenOnce' /\ FilesInUse'
<1>1. PICK selected : selected = IF shown = p THEN handler[p].list ELSE <<>>
  OBVIOUS
<1>2. PICK list : list = [i \in DOMAIN selected |-> [id |-> nextId + i, file |-> selected[i]]]
  OBVIOUS
<1>3. PICK n : n = Len(selected)
  OBVIOUS
<1>4. /\ handler[p].at = "importing" /\ nextId + n <= MaxFiles
      /\ files' = [id \in DOMAIN files \cup (nextId + 1 .. nextId + n) |->
           IF id \in nextId + 1 .. nextId + n THEN selected[id - nextId] ELSE files[id]]
      /\ nextId' = nextId + n
      /\ Proceed(p, "wrapping", list)
      /\ UNCHANGED <<task, loaded, source, life, shown, visited, overlapped>>
  BY <1>1, <1>2, <1>3 DEF Registered, RegisterAll, NewIds, vars, disposal
<1>5. selected \in Seq(Selectable) /\ n \in Nat /\ DOMAIN selected = 1..n
  BY <1>1, <1>3, <1>4 DEF HomeInv, HomeTypeOK, Handlers
<1>6. nextId \in Nat /\ MaxFiles \in Nat /\ DOMAIN files \subseteq 1..nextId
  BY HomeAssumption DEF HomeInv, HomeTypeOK
<1>7. \A i \in 1..n : /\ nextId + i \in 1..MaxFiles /\ nextId + i \in nextId + 1 .. nextId + n
                      /\ (nextId + i) - nextId = i /\ selected[i] \in Selectable
  BY <1>4, <1>5, <1>6
<1>8. /\ DOMAIN files' = DOMAIN files \cup (nextId + 1 .. nextId + n)
      /\ \A id \in DOMAIN files : files'[id] = files[id]
      /\ \A i \in 1..n : files'[nextId + i] = selected[i]
  <2>1. \A id \in DOMAIN files : id \notin nextId + 1 .. nextId + n
    BY <1>5, <1>6
  <2>2. QED
    BY <1>4, <1>7, <2>1
<1>9. /\ list \in Seq(Sources) /\ Len(list) = n
      /\ \A i \in 1..n : list[i].id = nextId + i /\ list[i].file = selected[i]
  <2>1. \A i \in 1..n : [id |-> nextId + i, file |-> selected[i]] \in Sources
    BY <1>7, HomeAssumption
  <2>2. list = [i \in 1..n |-> [id |-> nextId + i, file |-> selected[i]]]
    BY <1>2, <1>5
  <2>3. QED
    BY <1>5, <2>1, <2>2
<1>10. [at |-> "wrapping", list |-> list] \in Handlers
  BY <1>9 DEF Handlers
<1>11. /\ handler'[p].at = "wrapping" /\ handler'[p].list = list
       /\ \A q \in ToSet(Pages) : q # p => handler'[q] = handler[q]
       /\ handler' \in [ToSet(Pages) -> Handlers]
  BY <1>4, <1>10, ProceedFacts DEF HomeInv
<1>12. HomeTypeOK'
  <2>1. nextId' \in 0..MaxFiles /\ DOMAIN files' \subseteq 1..nextId'
    <3>1. nextId' \in 0..MaxFiles /\ nextId' = nextId + n
      BY <1>4, <1>5, <1>6
    <3>2. 1..nextId \subseteq 1..nextId' /\ nextId + 1 .. nextId + n \subseteq 1..nextId'
      BY <1>5, <1>6, <3>1
    <3>3. QED
      BY <1>6, <1>8, <3>1, <3>2
  <2>2. \A id \in nextId + 1 .. nextId + n : id - nextId \in 1..n /\ nextId + (id - nextId) = id
    BY <1>5, <1>6
  <2>3. \A id \in DOMAIN files' : files'[id] \in Selectable
    <3>1. SUFFICES ASSUME NEW id \in DOMAIN files' PROVE files'[id] \in Selectable
      OBVIOUS
    <3>2. CASE id \in DOMAIN files
      BY <1>8, <3>2 DEF HomeInv, HomeTypeOK
    <3>3. CASE id \in nextId + 1 .. nextId + n
      <4>1. id - nextId \in 1..n /\ files'[nextId + (id - nextId)] = selected[id - nextId]
        BY <1>8, <2>2, <3>3
      <4>2. QED
        BY <1>7, <2>2, <3>3, <4>1
    <3>4. QED
      BY <1>8, <3>2, <3>3
  <2>4. files' = [id \in DOMAIN files' |-> files'[id]]
    BY <1>4
  <2>5. files' \in [DOMAIN files' -> Selectable]
    BY <2>3, <2>4
  <2>6. QED
    BY <1>4, <1>11, <2>1, <2>5 DEF HomeInv, HomeTypeOK
<1>13. OneByOne'
  <2>1. \A q \in ToSet(Pages) : handler'[q].at = "adding" <=> handler[q].at = "adding"
    BY <1>4, <1>11
  <2>2. QED
    BY <1>4, <2>1, SameOrder
<1>14. Waiting(p)' = list /\ \A q \in ToSet(Pages) : q # p => Waiting(q)' = Waiting(q)
  BY <1>11 DEF Waiting
<1>15. /\ \A q \in ToSet(Pages) : Waiting(q) \in Seq(Sources)
       /\ \A q \in ToSet(Pages) : \A i \in 1..Len(Waiting(q)) :
            Waiting(q)[i].id \in DOMAIN files /\ Waiting(q)[i].id \in 1..nextId
  BY <1>6, WaitingFacts DEF HomeInv, NumbersGivenOnce
<1>16. NumbersGivenOnce'
  <2>1. ASSUME NEW q \in ToSet(Pages), NEW i \in 1..Len(Waiting(q)')
        PROVE  /\ Waiting(q)'[i].id \in DOMAIN files'
               /\ files'[Waiting(q)'[i].id] = Waiting(q)'[i].file
               /\ \A s \in Sources : s.id = Waiting(q)'[i].id => source'[s] = "unused"
    <3>1. CASE q = p
      <4>1. i \in 1..n /\ Waiting(q)'[i] = list[i]
        BY <1>9, <1>14, <2>1, <3>1
      <4>2. list[i].id = nextId + i /\ list[i].file = selected[i]
        BY <1>9, <4>1
      <4>3. \A s \in Sources : s.id = nextId + i => source[s] = "unused"
        <5>1. \A s \in Sources : s.id \in 1..MaxFiles
          BY HomeAssumption
        <5>2. ~ (nextId + i <= nextId)
          BY <1>6, <4>1
        <5>3. QED
          BY <5>2 DEF HomeInv, NumbersGivenOnce
      <4>4. QED
        BY <1>4, <1>7, <1>8, <4>1, <4>2, <4>3
    <3>2. CASE q # p
      <4>1. i \in 1..Len(Waiting(q)) /\ Waiting(q)' = Waiting(q)
        BY <1>14, <2>1, <3>2
      <4>2. QED
        BY <1>4, <1>8, <4>1 DEF HomeInv, NumbersGivenOnce
    <3>3. QED
      BY <3>1, <3>2
  <2>2. ASSUME NEW q \in ToSet(Pages), NEW r \in ToSet(Pages),
               NEW i \in 1..Len(Waiting(q)'), NEW j \in 1..Len(Waiting(r)'),
               Waiting(q)'[i].id = Waiting(r)'[j].id
        PROVE  q = r /\ i = j
    <3>1. CASE q = p /\ r = p
      <4>1. i \in 1..n /\ j \in 1..n /\ nextId + i = nextId + j
        BY <1>9, <1>14, <2>2, <3>1
      <4>2. QED
        BY <1>6, <3>1, <4>1
    <3>2. ASSUME NEW u \in ToSet(Pages), u # p, NEW k \in 1..Len(Waiting(u)'), NEW l \in 1..n
          PROVE  Waiting(u)'[k].id # list[l].id
      <4>1. Waiting(u)' = Waiting(u)
        BY <1>14, <3>2
      <4>2. Waiting(u)'[k].id \in 1..nextId
        BY <1>15, <3>2, <4>1
      <4>3. list[l].id = nextId + l
        BY <1>9
      <4>4. QED
        BY <1>6, <4>2, <4>3
    <3>3. CASE q = p /\ r # p
      <4>1. i \in 1..n /\ Waiting(q)'[i] = list[i]
        BY <1>9, <1>14, <2>2, <3>3
      <4>2. QED
        BY <2>2, <3>2, <3>3, <4>1
    <3>4. CASE q # p /\ r = p
      <4>1. j \in 1..n /\ Waiting(r)'[j] = list[j]
        BY <1>9, <1>14, <2>2, <3>4
      <4>2. QED
        BY <2>2, <3>2, <3>4, <4>1
    <3>5. CASE q # p /\ r # p
      <4>1. Waiting(q)' = Waiting(q) /\ Waiting(r)' = Waiting(r)
        BY <1>14, <3>5
      <4>2. QED
        BY <2>2, <4>1 DEF HomeInv, NumbersGivenOnce
    <3>6. QED
      BY <3>1, <3>3, <3>4, <3>5
  <2>3. \A s \in Sources : source'[s] # "unused" => s.id <= nextId'
    <3>1. \A s \in Sources : s.id \in 1..MaxFiles
      BY HomeAssumption
    <3>2. QED
      BY <1>4, <1>5, <1>6, <3>1 DEF HomeInv, NumbersGivenOnce
  <2>4. \A s, u \in Sources : s.id = u.id /\ source'[s] # "unused" /\ source'[u] # "unused" => s = u
    BY <1>4 DEF HomeInv, NumbersGivenOnce
  <2>5. QED
    BY <2>1, <2>2, <2>3, <2>4 DEF NumbersGivenOnce
<1>17. FilesInUse'
  <2>1. SUFFICES ASSUME life = "open" PROVE UseOK'
    BY <1>4, FilesInUseIs DEF FilesInUse, UseOK, Used, GivenUp, IsLoaded
  <2>2. UseOK
    BY <2>1, FilesInUseIs DEF HomeInv
  <2>3. WaitingIds' \subseteq DOMAIN files'
    BY <1>12, <1>16, WaitingFactsNext DEF NumbersGivenOnce
  <2>4. \A s : Used(s)' <=> Used(s)
    BY <1>4 DEF Used, IsLoaded
  <2>5. \A id : GivenUp(id)' <=> GivenUp(id)
    BY <1>4 DEF GivenUp
  <2>6. ASSUME NEW id \in DOMAIN files', id \notin WaitingIds'
        PROVE  id \in DOMAIN files \ WaitingIds
    <3>1. id \notin nextId + 1 .. nextId + n
      <4>1. SUFFICES ASSUME id \in nextId + 1 .. nextId + n PROVE FALSE
        OBVIOUS
      <4>2. PICK i \in 1..n : id = nextId + i
        <5>1. id - nextId \in 1..n /\ id = nextId + (id - nextId)
          BY <1>5, <1>6, <4>1
        <5>2. QED
          BY <5>1
      <4>3. i \in 1..Len(Waiting(p)') /\ Waiting(p)'[i].id = id
        BY <1>9, <1>14, <4>2
      <4>4. QED
        BY <1>12, <2>6, <4>3, WaitingFactsNext
    <3>2. id \notin WaitingIds
      <4>1. SUFFICES ASSUME id \in WaitingIds PROVE FALSE
        OBVIOUS
      <4>2. PICK q \in ToSet(Pages) : \E i \in 1..Len(Waiting(q)) : Waiting(q)[i].id = id
        BY <4>1, WaitingFacts DEF HomeInv
      <4>3. q # p
        BY <1>4, <4>2 DEF Waiting
      <4>4. Waiting(q)' = Waiting(q)
        BY <1>14, <4>3
      <4>5. QED
        BY <1>12, <2>6, <4>2, <4>4, WaitingFactsNext
    <3>3. QED
      BY <1>8, <3>1, <3>2
  <2>7. QED
    BY <1>8, <2>2, <2>3, <2>4, <2>5, <2>6 DEF UseOK
<1>18. QED
  BY <1>12, <1>13, <1>16, <1>17

\* The next source of a page is added: it is a duplicate, whose file is released at
\* once, or is opened, under a name that no plugin has.
LEMMA AddNextKeeps ==
  ASSUME HomeInv, NEW p \in ToSet(Pages), AddNext(p)
  PROVE  IInv' /\ HomeTypeOK' /\ OneByOne' /\ NumbersGivenOnce' /\ FilesInUse'
<1>1. PICK list : list = handler[p].list
  OBVIOUS
<1>2. PICK s : s = Head(list)
  OBVIOUS
<1>3. /\ handler[p].at = "adding" /\ Over(p) /\ list # <<>>
      /\ Add(p, s) /\ Released /\ Proceed(p, "adding", Tail(list))
      /\ UNCHANGED <<shown, visited, overlapped>>
  BY <1>1, <1>2 DEF AddNext, MustContinue
<1>4. p \in Tasks
  BY HomeAssumption DEF ToSet
<1>5. /\ list \in Seq(Sources) /\ s \in Sources /\ s = list[1] /\ Len(list) \in Nat \ {0}
      /\ Tail(list) \in Seq(Sources) /\ Len(Tail(list)) = Len(list) - 1
      /\ \A j \in 1..(Len(list) - 1) : Tail(list)[j] = list[j + 1]
  <2>1. list \in Seq(Sources)
    BY <1>1, <1>3 DEF HomeInv, HomeTypeOK, Handlers
  <2>2. QED
    BY <1>2, <1>3, <2>1, TailFacts
<1>6. IInv'
  BY <1>3, <1>4, <1>5, AddKeeps DEF HomeInv
<1>7. /\ task \in [Tasks -> Calls] /\ loaded \in Seq(Sources)
      /\ source \in [Sources -> {"unused", "opening", "open", "duplicate", "rejected"}]
      /\ closes \in [Sources -> Nat]
  BY DEF HomeInv, IInv, TypeOK
<1>8. source[s] = "unused" /\ UNCHANGED <<loaded, life>>
  BY <1>3 DEF Add, disposal
<1>9. \/ /\ source' = [source EXCEPT ![s] = "duplicate"] /\ closes' = [closes EXCEPT ![s] = @ + 1]
         /\ task'[p].at = "discarding"
      \/ /\ source' = [source EXCEPT ![s] = "opening"] /\ closes' = closes
         /\ task'[p].at = "opening" /\ task'[p].plugin = s
         /\ \A i \in 1..Len(loaded) : NameOf[loaded[i]] # NameOf[s]
  <2>1. \/ /\ source' = [source EXCEPT ![s] = "duplicate"] /\ Close(s)
           /\ Become(p, Call("discarding", FindByName(NameOf[s]), NoQuestion))
        \/ /\ FindByName(NameOf[s]) = NoPlugin
           /\ source' = [source EXCEPT ![s] = "opening"] /\ closes' = closes
           /\ Become(p, Call("opening", s, NoQuestion))
    BY <1>3 DEF Add
  <2>2. \A at, plugin : Call(at, plugin, NoQuestion).at = at /\ Call(at, plugin, NoQuestion).plugin = plugin
    BY DEF Call
  <2>3. \A c : Become(p, c) => task'[p] = c
    BY <1>4, <1>7 DEF Become
  <2>4. FindByName(NameOf[s]) = NoPlugin => \A i \in 1..Len(loaded) : NameOf[loaded[i]] # NameOf[s]
    BY <1>7, FindByNameFacts
  <2>5. QED
    BY <2>1, <2>2, <2>3, <2>4 DEF Close
<1>10. \A u \in Tasks \ {p} : task'[u] = task[u]
  <2>1. \E c : Become(p, c)
    BY <1>3 DEF Add
  <2>2. QED
    BY <1>7, <2>1 DEF Become
<1>11. /\ source'[s] \in {"duplicate", "opening"}
       /\ \A u \in Sources : u # s => source'[u] = source[u] /\ closes'[u] = closes[u]
       /\ closes'[s] # closes[s] <=> source'[s] = "duplicate"
  BY <1>5, <1>7, <1>9
<1>12. [at |-> "adding", list |-> Tail(list)] \in Handlers
  BY <1>5 DEF Handlers
<1>13. /\ handler'[p].at = "adding" /\ handler'[p].list = Tail(list)
       /\ \A q \in ToSet(Pages) : q # p => handler'[q] = handler[q]
       /\ handler' \in [ToSet(Pages) -> Handlers]
  BY <1>3, <1>12, ProceedFacts DEF HomeInv
<1>14. HomeTypeOK'
  BY <1>3, <1>13, ReleasedFacts DEF HomeInv, HomeTypeOK
<1>15. /\ Waiting(p) = list /\ Waiting(p)' = Tail(list)
       /\ \A q \in ToSet(Pages) : q # p => Waiting(q)' = Waiting(q)
  BY <1>1, <1>3, <1>13 DEF Waiting
<1>16. OneByOne'
  <2>1. \A t \in Tasks : task'[t].at = "opening" => t \in ToSet(Pages) /\ handler'[t].at = "adding"
    BY <1>10, <1>13 DEF HomeInv, OneByOne
  <2>2. ASSUME ~ overlapped
        PROVE  /\ \A q, r \in ToSet(Pages) : handler'[q].at = "adding" /\ handler'[r].at = "adding" => q = r
               /\ NamesUnique'
               /\ \A t \in Tasks : task'[t].at = "opening" => t = p
    <3>1. \A q, r \in ToSet(Pages) : handler'[q].at = "adding" /\ handler'[r].at = "adding" => q = r
      BY <1>3, <1>13, <2>2 DEF HomeInv, OneByOne
    <3>2. NamesUnique'
      BY <1>8, <2>2 DEF HomeInv, OneByOne, NamesUnique
    <3>3. QED
      BY <1>13, <2>1, <3>1, <3>2
  <2>3. ASSUME ~ overlapped, task'[p].at = "opening"
        PROVE  \A i \in 1..Len(loaded) : NameOf[loaded[i]] # NameOf[task'[p].plugin]
    BY <1>9, <2>3
  <2>4. QED
    BY <1>3, <1>8, <2>1, <2>2, <2>3 DEF OneByOne
\* The numbers that wait after the step are those before it, but that of s.
<1>17. ASSUME NEW q \in ToSet(Pages), NEW i \in 1..Len(Waiting(q)')
       PROVE  \E k \in 1..Len(Waiting(q)) :
                /\ Waiting(q)[k] = Waiting(q)'[i] /\ Waiting(q)[k].id # s.id
                /\ k = IF q = p THEN i + 1 ELSE i
  <2>1. 1 \in 1..Len(list)
    BY <1>5
  <2>2. CASE q = p
    <3>1. i + 1 \in 1..Len(list) /\ i + 1 # 1 /\ Tail(list)[i] = list[i + 1]
      BY <1>5, <1>15, <1>17, <2>2
    <3>2. list[i + 1].id # s.id
      BY <1>5, <1>15, <2>1, <3>1 DEF HomeInv, NumbersGivenOnce
    <3>3. QED
      BY <1>15, <2>2, <3>1, <3>2
  <2>3. CASE q # p
    <3>1. Waiting(q)' = Waiting(q) /\ i \in 1..Len(Waiting(q))
      BY <1>15, <1>17, <2>3
    <3>2. Waiting(q)[i].id # s.id
      BY <1>5, <1>15, <2>1, <2>3, <3>1 DEF HomeInv, NumbersGivenOnce
    <3>3. QED
      BY <2>3, <3>1, <3>2
  <2>4. QED
    BY <2>2, <2>3
<1>18. /\ s.id \in DOMAIN files /\ files[s.id] = s.file
       /\ \A u \in Sources : u.id = s.id => source[u] = "unused"
  <2>1. 1 \in 1..Len(Waiting(p)) /\ Waiting(p)[1] = s
    BY <1>5, <1>15
  <2>2. QED
    BY <2>1 DEF HomeInv, NumbersGivenOnce
<1>19. \A id : id \in DOMAIN files' <=> id \in DOMAIN files /\ (id # s.id \/ source'[s] = "opening")
  BY <1>3, <1>5, <1>11, ReleasedFacts DEF HomeInv
<1>20. NumbersGivenOnce'
  <2>1. ASSUME NEW q \in ToSet(Pages), NEW i \in 1..Len(Waiting(q)')
        PROVE  /\ Waiting(q)'[i].id \in DOMAIN files'
               /\ files'[Waiting(q)'[i].id] = Waiting(q)'[i].file
               /\ \A u \in Sources : u.id = Waiting(q)'[i].id => source'[u] = "unused"
    <3>1. PICK k \in 1..Len(Waiting(q)) : Waiting(q)[k] = Waiting(q)'[i] /\ Waiting(q)[k].id # s.id
      BY <1>17, <2>1
    <3>2. /\ Waiting(q)[k].id \in DOMAIN files /\ files[Waiting(q)[k].id] = Waiting(q)[k].file
          /\ \A u \in Sources : u.id = Waiting(q)[k].id => source[u] = "unused"
      BY DEF HomeInv, NumbersGivenOnce
    <3>3. Waiting(q)[k].id \in DOMAIN files'
      BY <1>19, <3>1, <3>2
    <3>4. files'[Waiting(q)[k].id] = files[Waiting(q)[k].id]
      BY <1>3, <3>3, ReleasedFacts DEF HomeInv
    <3>5. QED
      BY <1>11, <3>1, <3>2, <3>3, <3>4
  <2>2. ASSUME NEW q \in ToSet(Pages), NEW r \in ToSet(Pages),
               NEW i \in 1..Len(Waiting(q)'), NEW j \in 1..Len(Waiting(r)'),
               Waiting(q)'[i].id = Waiting(r)'[j].id
        PROVE  q = r /\ i = j
    <3>1. PICK k \in 1..Len(Waiting(q)) : Waiting(q)[k] = Waiting(q)'[i] /\ k = IF q = p THEN i + 1 ELSE i
      BY <1>17, <2>2
    <3>2. PICK l \in 1..Len(Waiting(r)) : Waiting(r)[l] = Waiting(r)'[j] /\ l = IF r = p THEN j + 1 ELSE j
      BY <1>17, <2>2
    <3>3. q = r /\ k = l
      BY <2>2, <3>1, <3>2 DEF HomeInv, NumbersGivenOnce
    <3>4. i \in Nat /\ j \in Nat
      BY <2>2
    <3>5. QED
      BY <3>1, <3>2, <3>3, <3>4
  <2>3. nextId' = nextId
    BY <1>3, ReleasedFacts DEF HomeInv
  <2>4. s.id <= nextId
    BY <1>18 DEF HomeInv, HomeTypeOK
  <2>5. QED
    BY <1>11, <1>18, <2>1, <2>2, <2>3, <2>4 DEF HomeInv, NumbersGivenOnce
<1>21. FilesInUse'
  <2>1. SUFFICES ASSUME life = "open" PROVE UseOK'
    BY <1>8, FilesInUseIs DEF FilesInUse, UseOK, Used, GivenUp, IsLoaded
  <2>2. UseOK
    BY <2>1, FilesInUseIs DEF HomeInv
  <2>3. WaitingIds' \subseteq DOMAIN files'
    BY <1>14, <1>20, WaitingFactsNext DEF NumbersGivenOnce
  <2>4. \A u \in Sources : u # s => (Used(u)' <=> Used(u))
    BY <1>8, <1>11 DEF Used, IsLoaded
  <2>5. ~ Used(s) /\ (Used(s)' <=> source'[s] = "opening")
    <3>1. ~ Used(s)
      BY <1>5, <1>8, UsedFacts DEF HomeInv
    <3>2. QED
      BY <1>8, <3>1 DEF Used, IsLoaded
  <2>6. ASSUME NEW u \in Sources, Used(u)'
        PROVE  u.id \in DOMAIN files' /\ files'[u.id] = u.file
    <3>1. CASE u = s
      BY <1>3, <1>18, <1>19, <2>5, <2>6, <3>1, ReleasedFacts DEF HomeInv
    <3>2. CASE u # s
      <4>1. Used(u)
        BY <2>4, <2>6, <3>2
      <4>2. u.id # s.id
        BY <1>18, <4>1, UsedFacts DEF HomeInv
      <4>3. u.id \in DOMAIN files'
        BY <1>19, <2>2, <4>1, <4>2 DEF UseOK
      <4>4. QED
        BY <1>3, <2>2, <4>1, <4>3, ReleasedFacts DEF HomeInv, UseOK
    <3>3. QED
      BY <3>1, <3>2
  <2>7. ASSUME NEW id \in DOMAIN files', id \notin WaitingIds'
        PROVE  GivenUp(id)' \/ \E u \in Sources : u.id = id /\ Used(u)'
    <3>1. CASE id = s.id
      BY <1>5, <1>19, <2>5, <2>7, <3>1
    <3>2. CASE id # s.id
      <4>1. id \in DOMAIN files
        BY <1>19, <2>7
      <4>2. id \notin WaitingIds
        <5>1. SUFFICES ASSUME id \in WaitingIds PROVE FALSE
          OBVIOUS
        <5>2. PICK q \in ToSet(Pages) : \E i \in 1..Len(Waiting(q)) : Waiting(q)[i].id = id
          BY <5>1, WaitingFacts DEF HomeInv
        <5>3. PICK i \in 1..Len(Waiting(q)) : Waiting(q)[i].id = id
          BY <5>2
        <5>4. \E j \in 1..Len(Waiting(q)') : Waiting(q)'[j].id = id
          <6>1. CASE q # p
            BY <1>15, <5>3, <6>1
          <6>2. CASE q = p
            <7>1. i \in 1..Len(list) /\ list[i].id = id /\ i # 1
              BY <1>5, <1>15, <3>2, <5>3, <6>2
            <7>2. i - 1 \in 1..(Len(list) - 1) /\ (i - 1) + 1 = i
              BY <1>5, <7>1
            <7>3. Tail(list)[i - 1].id = id /\ i - 1 \in 1..Len(Tail(list))
              BY <1>5, <7>1, <7>2
            <7>4. QED
              BY <1>15, <6>2, <7>3
          <6>3. QED
            BY <6>1, <6>2
        <5>5. QED
          BY <1>14, <2>7, <5>4, WaitingFactsNext
      <4>3. CASE GivenUp(id)
        BY <1>11, <3>2, <4>3 DEF GivenUp
      <4>4. CASE \E u \in Sources : u.id = id /\ Used(u)
        BY <2>4, <3>2, <4>4
      <4>5. QED
        BY <2>2, <4>1, <4>2, <4>3, <4>4 DEF UseOK
    <3>3. QED
      BY <3>1, <3>2
  <2>8. QED
    BY <2>3, <2>6, <2>7 DEF UseOK
<1>22. QED
  BY <1>6, <1>14, <1>16, <1>20, <1>21

-----------------------------------------------------------------------------
(* The inductive invariant                                                 *)

LEMMA HomeInitOK == HomeInit => HomeInv
<1> SUFFICES ASSUME HomeInit PROVE HomeInv
  OBVIOUS
<1>1. IInv
  BY InitOK DEF HomeInit
<1>2. /\ 1 \in 1..Len(Pages) /\ Pages[1] \in ToSet(Pages)
  BY HomeAssumption DEF ToSet
<1>3. \A p \in ToSet(Pages) : handler[p].at = "idle" /\ handler[p] \in Handlers
  BY DEF HomeInit, Idle, Handlers
<1>4. files = <<>> /\ DOMAIN files = {} /\ nextId = 0
  BY DEF HomeInit, FileAccessInit
<1>5. HomeTypeOK
  <2>1. handler \in [ToSet(Pages) -> Handlers]
    BY <1>3 DEF HomeInit
  <2>2. files \in [DOMAIN files -> Selectable]
    BY <1>4
  <2>3. nextId \in 0..MaxFiles
    BY <1>4, HomeAssumption
  <2>4. QED
    BY <1>2, <1>4, <2>1, <2>2, <2>3 DEF HomeTypeOK, HomeInit
<1>6. \A p \in ToSet(Pages) : Waiting(p) = <<>>
  BY <1>3 DEF Waiting
<1>7. /\ loaded = <<>> /\ \A t \in Tasks : task[t].at = "none"
      /\ \A s \in Sources : source[s] = "unused"
  BY DEF HomeInit, Init, Returned, Call
<1>8. OneByOne
  BY <1>3, <1>7 DEF OneByOne, NamesUnique
<1>9. NumbersGivenOnce
  BY <1>6, <1>7 DEF NumbersGivenOnce
<1>10. UseOK
  <2>1. \A s \in Sources : ~ Used(s)
    BY <1>7 DEF Used, IsLoaded, Contains
  <2>2. \A id : id \notin WaitingIds
    BY <1>5, <1>6, WaitingFacts
  <2>3. QED
    BY <1>4, <2>1, <2>2 DEF UseOK
<1>11. QED
  BY <1>1, <1>5, <1>8, <1>9, <1>10, FilesInUseIs DEF HomeInv

LEMMA HomeStepKeeps == HomeInv /\ [HomeNext]_homeVars => HomeInv'
<1> SUFFICES ASSUME HomeInv, [HomeNext]_homeVars PROVE HomeInv'
  OBVIOUS
<1>1. [Next]_vars => IInv'
  BY StepKeeps DEF HomeInv
<1>2. UNCHANGED vars => IInv'
  BY <1>1
<1>3. ASSUME NEW p \in ToSet(Pages), HandlerStep(p) PROVE HomeInv'
  <2>1. CASE AddNext(p)
    BY <2>1, AddNextKeeps DEF HomeInv
  <2>2. CASE AllAdded(p)
    BY <1>2, <2>2, AllAddedKeeps DEF HomeInv, AllAdded
  <2>3. CASE Registered(p)
    BY <1>2, <2>3, RegisteredKeeps DEF HomeInv, Registered
  <2>4. CASE Wrapped(p)
    BY <1>2, <2>4, WrappedKeeps DEF HomeInv, Wrapped
  <2>5. CASE ImportFailed(p)
    BY <1>2, <2>5, ImportFailedKeeps DEF HomeInv, ImportFailed
  <2>6. QED
    BY <1>3, <2>1, <2>2, <2>3, <2>4, <2>5 DEF HandlerStep
<1>4. ASSUME NEW t \in Tasks, CallStep(t) PROVE HomeInv'
  <2>1. Progress(t) /\ Released /\ UNCHANGED pageVars
    BY <1>4 DEF CallStep, Progresses, Progress
  <2>2. IInv'
    BY <1>1, <2>1 DEF Next
  <2>3. CASE Opened(t)
    BY <2>1, <2>2, <2>3, OpenedKeepsPages DEF HomeInv
  <2>4. CASE OpenFailed(t)
    BY <2>1, <2>2, <2>4, OpenFailedKeepsPages DEF HomeInv
  <2>5. CASE \/ Discarded(t) \/ Removed(t) \/ LookUpIndex(t) \/ LastRead(t) \/ Built(t) \/ BuildFailed(t)
             \/ FindOffset(t) \/ Located(t) \/ LocateFailed(t)
    <3>1. Quiet /\ NoneOpens
      BY <2>5, QuietCalls DEF HomeInv
    <3>2. QED
      BY <2>1, <2>2, <3>1, QuietKeeps DEF HomeInv
  <2>6. QED
    BY <2>1, <2>3, <2>4, <2>5 DEF Progress
<1>5. CASE UserStep
  BY <1>2, <1>5, UserKeeps DEF HomeInv
<1>6. CASE WorkspaceStep
  <2>1. Released /\ UNCHANGED pageVars
    BY <1>6 DEF WorkspaceStep
  <2>2. ASSUME NEW t \in Tasks, NEW s \in Sources, RemovePlugin(t, s) PROVE HomeInv'
    BY <2>1, <2>2, RemovePluginKeeps, RemoveKeepsPages DEF HomeInv
  <2>3. ASSUME NEW t \in Tasks, NEW ref \in References, Resolve(t, ref) PROVE HomeInv'
    <3>1. Quiet /\ NoneOpens
      BY <2>3, QuietCalls DEF HomeInv
    <3>2. IInv'
      BY <2>3, ResolveKeeps DEF HomeInv
    <3>3. QED
      BY <2>1, <3>1, <3>2, QuietKeeps DEF HomeInv
  <2>4. ASSUME NEW t \in Tasks, CancelWait(t) PROVE HomeInv'
    <3>1. Quiet /\ NoneOpens
      BY <2>4, QuietCalls DEF HomeInv
    <3>2. IInv'
      BY <2>4, CancelWaitKeeps DEF HomeInv
    <3>3. QED
      BY <2>1, <3>1, <3>2, QuietKeeps DEF HomeInv
  <2>5. CASE DisposeStart \/ DisposeNext
    BY <2>1, <2>5, DisposeStartKeeps, DisposeNextKeeps, DisposalKeepsPages DEF HomeInv
  <2>6. QED
    BY <1>6, <2>2, <2>3, <2>4, <2>5 DEF WorkspaceStep, Request
<1>7. CASE UNCHANGED homeVars
  <2>1. UNCHANGED vars /\ UNCHANGED <<task, loaded, source, life, files, nextId, handler, shown, visited, overlapped>>
    BY <1>7 DEF homeVars, vars, disposal, fileAccess, pageVars
  <2>2. HomeTypeOK' /\ \A p \in ToSet(Pages) : Waiting(p)' = Waiting(p)
    BY <2>1 DEF HomeInv, HomeTypeOK, Waiting
  <2>3. QED
    BY <1>2, <2>1, <2>2, SameWaiting, SameOrder DEF HomeInv
<1>8. QED
  BY <1>3, <1>4, <1>5, <1>6, <1>7 DEF HomeNext

-----------------------------------------------------------------------------
(* Theorems                                                                *)

\* The workspace keeps its invariant when pages and the browser are its callers,
\* pages that add to a workspace that is disposed included; the pages keep theirs.
THEOREM HomeInvariant == HomeSpec => []HomeInv
  BY HomeInitOK, HomeStepKeeps, PTL DEF HomeSpec

\* Two loaded plugins have one name only after two pages were adding at once.
THEOREM OnePageKeepsNames == HomeSpec => []NamesUniqueOnOnePage
<1>1. HomeInv => NamesUniqueOnOnePage
  BY DEF HomeInv, OneByOne, NamesUniqueOnOnePage
<1>2. QED
  BY <1>1, HomeInvariant, PTL

\* Until the workspace is disposed, a file is registered while its plugin is loaded
\* or being opened, waits to be added, or was given up by an error, and only then.
THEOREM RegisteredFiles == HomeSpec => []FilesInUse
<1>1. HomeInv => FilesInUse
  BY DEF HomeInv
<1>2. QED
  BY <1>1, HomeInvariant, PTL
=============================================================================
