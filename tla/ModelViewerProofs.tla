-------------------------- MODULE ModelViewerProofs --------------------------
(***************************************************************************)
(* Proofs about the model viewer pages over the assets of GameDataService, *)
(* for any pages, paths and folders and whatever the service answers.      *)
(***************************************************************************)
EXTENDS ModelViewer, SequenceTheorems, TLAPS

-----------------------------------------------------------------------------
(* Candidates                                                              *)

\* A path is its own last candidate; among the meshes it has no other.
LEMMA CandidateFacts ==
  ASSUME NEW path \in Given
  PROVE  \/ Candidates(path) = <<path>>
         \/ \E x : x # path /\ Candidates(path) = <<x, path>>
<1>1. path \in Seq(STRING)
  BY ViewerAssumption DEF Given
<1> DEFINE x == <<"meshes">> \o path
<1>2. Len(x) = 1 + Len(path) /\ Len(path) \in Nat
  <2> DEFINE S == STRING
             m == "meshes"
             T == S \cup {m}
  <2>1. path \in Seq(S)
    BY <1>1
  <2> HIDE DEF S, m
  <2>2. path \in Seq(T)
    BY <2>1
  <2>3. <<m>> \in Seq(T) /\ Len(<<m>>) = 1
    OBVIOUS
  <2> HIDE DEF T
  <2>4. Len(<<m>> \o path) = Len(<<m>>) + Len(path) /\ Len(path) \in Nat
    BY <2>2, <2>3, ConcatProperties
  <2>5. QED
    BY <2>3, <2>4 DEF m
<1>3. x # path
  BY <1>2
<1> HIDE DEF x
<1>4. Candidates(path) = <<path>> \/ Candidates(path) = <<x, path>>
  BY DEF Candidates, x
<1>5. QED
  BY <1>3, <1>4

\* What is left of a search: everything, or the path itself.
LEMMA LeftFacts ==
  ASSUME NEW path \in Given, NEW left \in {Candidates(path), Tail(Candidates(path))}, left # <<>>
  PROVE  \/ left = Candidates(path) /\ left = <<path>> /\ Len(left) = 1
         \/ /\ left = Candidates(path) /\ Len(left) = 2
            /\ Tail(left) = <<path>> /\ Tail(left) # <<>> /\ Tail(left) # left
            /\ Head(left) # path /\ left[2] = path
         \/ /\ left # Candidates(path) /\ left = <<path>> /\ Len(left) = 1
            /\ Len(Candidates(path)) = 2 /\ Candidates(path)[2] = path
            /\ Head(Candidates(path)) # path
<1>1. CASE Candidates(path) = <<path>>
  <2>1. Tail(<<path>>) = <<>> /\ Len(<<path>>) = 1
    OBVIOUS
  <2>2. QED
    BY <1>1, <2>1
<1>2. ASSUME NEW x, x # path, Candidates(path) = <<x, path>>
      PROVE  \/ /\ left = Candidates(path) /\ Len(left) = 2
                /\ Tail(left) = <<path>> /\ Tail(left) # <<>> /\ Tail(left) # left
                /\ Head(left) # path /\ left[2] = path
             \/ /\ left # Candidates(path) /\ left = <<path>> /\ Len(left) = 1
                /\ Len(Candidates(path)) = 2 /\ Candidates(path)[2] = path
                /\ Head(Candidates(path)) # path
  <2>1. /\ Len(<<x, path>>) = 2 /\ Head(<<x, path>>) = x /\ <<x, path>>[2] = path
        /\ Tail(<<x, path>>) = <<path>> /\ Len(<<path>>) = 1
        /\ <<path>> # <<x, path>> /\ <<path>> # <<>>
    OBVIOUS
  <2>2. QED
    BY <1>2, <2>1
<1>3. QED
  BY <1>1, <1>2, CandidateFacts

\* What FirstFound says of one page.
RendersFirst(p) ==
  page[p].work.at = "rendering" =>
    LET work == page[p].work
        candidates == Candidates(work.path)
        n == CHOOSE n \in DOMAIN candidates : candidates[n] = work.found
    IN  /\ \E r \in work.folders : work.nif \in Answers(r, work.found)
        /\ \A i \in 1..(n - 1) : \E r \in work.folders : None \in Answers(r, candidates[i])

LEMMA FirstIsOfEach ==
  /\ FirstFound <=> \A p \in ToSet(Pages) : RendersFirst(p)
  /\ FirstFound' <=> \A p \in ToSet(Pages) : RendersFirst(p)'
  BY DEF FirstFound, RendersFirst

-----------------------------------------------------------------------------
(* What a step leaves alone                                                *)

Session == <<hasPicker, script, root, shown, visited, request, asked, hasty>>

LEMMA Tags ==
  ASSUME NEW p, NEW q
  PROVE  /\ InitCall(p) # WorkCall(q)
         /\ InitCall(p) = InitCall(q) => p = q
         /\ WorkCall(p) = WorkCall(q) => p = q
  BY DEF InitCall, WorkCall

LEMMA CallOfPage ==
  ASSUME NEW c \in Calls
  PROVE  \E p \in ToSet(Pages) : c = InitCall(p) \/ c = WorkCall(p)
  BY ViewerAssumption DEF InitCall, WorkCall

\* A page that a step does not touch keeps what holds of it.
LEMMA PageStays ==
  ASSUME NEW q \in ToSet(Pages), PageInv(q), RendersFirst(q),
         UNCHANGED Session, page'[q] = page[q],
         call'[InitCall(q)] = call[InitCall(q)], call'[WorkCall(q)] = call[WorkCall(q)]
  PROVE  PageInv(q)' /\ RendersFirst(q)'
<1>1. /\ hasPicker' = hasPicker /\ script' = script /\ root' = root /\ shown' = shown
      /\ visited' = visited /\ request' = request /\ asked' = asked
      /\ hasty' = hasty
  BY DEF Session
<1>2. PageOK(q)' /\ ScriptOK(q)' /\ FolderOK(q)' /\ RequestOK(q)'
  BY <1>1 DEF PageInv, PageOK, ScriptOK, FolderOK, RequestOK
<1>a. CallsOK(q)'
  BY <1>1 DEF PageInv, CallsOK
<1>3. TriesPath(q)' /\ PathOK(q)' /\ SearchOK(q)'
  BY <1>1 DEF PageInv, TriesPath, PathOK, AboutToSearch, SearchOK
<1>4. RendersFirst(q)'
  BY <1>1 DEF RendersFirst
<1>5. QED
  BY <1>2, <1>a, <1>3, <1>4 DEF PageInv

\* Pages differ, and one that does something was opened.
LEMMA PagesFacts ==
  /\ \A i \in 1..Len(Pages) : Pages[i] \in ToSet(Pages)
  /\ \A i, j \in 1..Len(Pages) : Pages[i] = Pages[j] => i = j
  /\ Len(Pages) \in Nat
<1>1. Pages \in Seq(ToSet(Pages)) /\ IsInjective(Pages)
  BY ViewerAssumption
<1>2. Len(Pages) \in Nat /\ DOMAIN Pages = 1..Len(Pages)
  BY <1>1
<1>3. QED
  BY <1>1, <1>2 DEF IsInjective, ToSet

LEMMA WasOpened ==
  ASSUME ViewerInv, NEW p \in ToSet(Pages), shown = p \/ page[p].init # "none" \/ page[p].work.at # "idle"
  PROVE  \A i \in (visited + 1)..Len(Pages) : Pages[i] # p
<1>1. \A i \in (visited + 1)..Len(Pages) : page[Pages[i]] = NewPage
  BY DEF ViewerInv, SessionOK
<1>2. visited \in Nat /\ visited <= Len(Pages) /\ (shown # Elsewhere => visited > 0 /\ shown = Pages[visited])
  BY PagesFacts DEF ViewerInv, SessionOK
<1>3. CASE shown = p
  <2>1. visited \in 1..Len(Pages) /\ Pages[visited] = p
    BY <1>2, <1>3, PagesFacts, ViewerAssumption
  <2>2. \A i \in (visited + 1)..Len(Pages) : i \in 1..Len(Pages) /\ i # visited
    BY <1>2, PagesFacts
  <2>3. QED
    BY <2>1, <2>2, PagesFacts
<1>4. CASE page[p].init # "none" \/ page[p].work.at # "idle"
  <2>1. NewPage.init = "none" /\ NewPage.work.at = "idle"
    BY DEF NewPage, Nothing
  <2>2. QED
    BY <1>1, <1>4, <2>1
<1>5. QED
  BY <1>3, <1>4

\* What one page and its calls do keeps the invariant if it keeps what is said of it.
LEMMA WorkKeeps ==
  ASSUME ViewerInv, NEW p \in ToSet(Pages), UNCHANGED Session,
         \A i \in (visited + 1)..Len(Pages) : Pages[i] # p,
         DOMAIN page' = ToSet(Pages), \A q \in ToSet(Pages) \ {p} : page'[q] = page[q],
         page'[p].init = page[p].init, page'[p].taken = page[p].taken,
         DOMAIN call' = Calls, \A c \in Calls \ {InitCall(p), WorkCall(p)} : call'[c] = call[c],
         PageInv(p)', RendersFirst(p)'
  PROVE  ViewerInv'
<1>1. /\ hasPicker' = hasPicker /\ script' = script /\ root' = root /\ shown' = shown
      /\ visited' = visited /\ request' = request /\ asked' = asked
      /\ hasty' = hasty
  BY DEF Session
<1>2. \A q \in ToSet(Pages) : PageInv(q) /\ RendersFirst(q)
  BY FirstIsOfEach DEF ViewerInv
<1>3. \A q \in ToSet(Pages) : InitCall(q) \in Calls /\ WorkCall(q) \in Calls
  BY ViewerAssumption DEF InitCall, WorkCall
<1>4. ASSUME NEW q \in ToSet(Pages)
      PROVE  PageInv(q)' /\ RendersFirst(q)'
  <2>1. CASE q = p
    BY <2>1
  <2>2. CASE q # p
    <3>1. /\ InitCall(q) \in Calls \ {InitCall(p), WorkCall(p)}
          /\ WorkCall(q) \in Calls \ {InitCall(p), WorkCall(p)}
      BY <1>3, <2>2, Tags
    <3>2. QED
      BY <1>2, <2>2, <3>1, PageStays
  <2>3. QED
    BY <2>1, <2>2
<1>5. \A q \in ToSet(Pages) : page'[q].init = page[q].init /\ page'[q].taken = page[q].taken
  OBVIOUS
<1>6. SessionOK'
  <2>1. \A i \in (visited + 1)..Len(Pages) : page'[Pages[i]] = page[Pages[i]]
    <3>1. \A i \in (visited + 1)..Len(Pages) : i \in 1..Len(Pages)
      BY PagesFacts DEF ViewerInv, SessionOK
    <3>2. QED
      BY <3>1, PagesFacts
  <2>a. \A i \in 1..visited : page'[Pages[i]].init = page[Pages[i]].init
    <3>1. \A i \in 1..visited : i \in 1..Len(Pages)
      BY PagesFacts DEF ViewerInv, SessionOK
    <3>2. QED
      BY <1>5, <3>1, PagesFacts
  <2>2. Known' <=> Known
    BY <1>5 DEF Known
  <2>3. shown # Elsewhere => shown \in ToSet(Pages)
    BY PagesFacts DEF ViewerInv, SessionOK
  <2>4. QED
    BY <1>1, <1>5, <2>1, <2>a, <2>2, <2>3 DEF ViewerInv, SessionOK
<1>7. RequestTaken'
  BY <1>1, <1>5 DEF ViewerInv, RequestTaken
<1>8. QED
  BY <1>4, <1>6, <1>7, FirstIsOfEach DEF ViewerInv

-----------------------------------------------------------------------------
(* The user and what a page does for them                                  *)

\* What holds of a page at the start of a step.
LEMMA PageParts ==
  ASSUME ViewerInv, NEW p \in ToSet(Pages)
  PROVE  /\ PageInv(p) /\ PageOK(p) /\ CallsOK(p) /\ ScriptOK(p) /\ FolderOK(p) /\ RequestOK(p)
         /\ TriesPath(p) /\ PathOK(p) /\ SearchOK(p) /\ RendersFirst(p)
         /\ DOMAIN page = ToSet(Pages) /\ DOMAIN call = Calls
         /\ InitCall(p) \in Calls /\ WorkCall(p) \in Calls
         /\ \A q : InitCall(q) # WorkCall(p)
<1>1. InitCall(p) \in Calls /\ WorkCall(p) \in Calls
  BY ViewerAssumption DEF InitCall, WorkCall
<1>2. QED
  BY <1>1, FirstIsOfEach, Tags DEF ViewerInv, PageInv, SessionOK

\* A page that does nothing waits for nothing.
LEMMA IdleFacts ==
  ASSUME ViewerInv, NEW p \in ToSet(Pages), ~ Loading(p)
  PROVE  page[p].work = Nothing /\ page[p].work.at = "idle" /\ call[WorkCall(p)] = NoCall
<1>1. page[p].work = Nothing
  BY DEF Loading
<1>2. page[p].work.at = "idle"
  BY <1>1 DEF Nothing
<1>3. QED
  BY <1>1, <1>2, PageParts DEF CallsOK

\* The page that is shown is the last, and in the list.
LEMMA ShownFacts ==
  ASSUME ViewerInv, NEW p, shown = p, p # Elsewhere
  PROVE  visited > 0 /\ p = Pages[visited] /\ p \in ToSet(Pages)
  BY PagesFacts DEF ViewerInv, SessionOK

\* One page begins something that calls nothing, and there it is the last one.
LEMMA BeginsKeeps ==
  ASSUME ViewerInv, NEW p \in ToSet(Pages), NEW work, shown = p, ~ Loading(p), Work(p, work),
         UNCHANGED <<hasPicker, script, root, shown, visited, request, asked, hasty>>,
         DOMAIN call' = Calls, \A c \in Calls \ {WorkCall(p)} : call'[c] = call[c],
         \/ work = [at |-> "picking"] /\ call'[WorkCall(p)] = Asked("pick", None)
         \/ work = [at |-> "reading"] /\ call'[WorkCall(p)] = NoCall
         \/ /\ \E path \in Given : work = Searching(path)
            /\ root # None /\ call'[WorkCall(p)] = NoCall
  PROVE  ViewerInv'
<1> DEFINE c == call'[WorkCall(p)]
<1>1. /\ hasPicker' = hasPicker /\ script' = script /\ root' = root /\ shown' = shown
      /\ visited' = visited /\ request' = request /\ asked' = asked
      /\ hasty' = hasty
  OBVIOUS
<1>2. page[p].work.at = "idle" /\ page[p].work = Nothing
  BY IdleFacts
<1>3. p # Elsewhere
  BY ViewerAssumption
<1>4. visited > 0 /\ p = Pages[visited]
  BY <1>3, ShownFacts
<1>5. /\ page' = [page EXCEPT ![p].work = work]
      /\ page[p] \in [init : {"none", "waiting", "done", "failed"},
                  pending : Linked \cup {None}, taken : Linked \cup {None}, unsupported : BOOLEAN,
                  work : {page[p].work}, tried : BOOLEAN, broken : BOOLEAN, surprised : BOOLEAN]
      /\ DOMAIN page = ToSet(Pages)
  BY PageParts DEF Work, PageOK
<1>6. /\ page'[p].init = page[p].init /\ page'[p].taken = page[p].taken
      /\ page'[p].pending = page[p].pending /\ page'[p].tried = page[p].tried
      /\ page'[p].broken = page[p].broken /\ page'[p].surprised = page[p].surprised
      /\ page'[p].work = work
      /\ page'[p] \in [init : {"none", "waiting", "done", "failed"},
                  pending : Linked \cup {None}, taken : Linked \cup {None}, unsupported : BOOLEAN,
                  work : {work}, tried : BOOLEAN, broken : BOOLEAN, surprised : BOOLEAN]
      /\ DOMAIN page' = ToSet(Pages) /\ \A q \in ToSet(Pages) \ {p} : page'[q] = page[q]
  BY <1>5
<1> DEFINE i == page[p].init
<1>7. page[p].init # "none"
  <2>1. visited \in 1..visited
    BY <1>4 DEF ViewerInv, SessionOK
  <2>2. QED
    BY <1>4, <2>1 DEF ViewerInv, SessionOK
<1>8. work.at \in {"picking", "reading", "searching"}
  BY DEF Searching
<1>a. (\E path \in Given : work = Searching(path)) => root \in Roots
  <2>1. root \in Roots \cup {None}
    BY DEF ViewerInv, SessionOK
  <2>2. \A path : Searching(path).at = "searching"
    BY DEF Searching
  <2>3. QED
    BY <2>1, <2>2
<1>9. PageOK(p)'
  <2>1. work.at = "searching" =>
          /\ work \in [at : {"searching"}, path : Given, left : {Candidates(work.path), Tail(Candidates(work.path))}, folders : SUBSET Roots]
          /\ work.left # <<>>
    <3>1. ASSUME NEW path \in Given, work = Searching(path)
          PROVE  /\ work.path = path /\ work.left = Candidates(path) /\ work.left # <<>>
                 /\ work \in [at : {"searching"}, path : Given, left : {Candidates(path), Tail(Candidates(path))}, folders : SUBSET Roots]
      <4>1. Candidates(path) # <<>>
        BY CandidateFacts
      <4>2. QED
        BY <3>1, <4>1, <1>a DEF Searching
    <3>2. QED
      BY <3>1
  <2>2. page[p].pending # None => page[p].pending = page[p].taken
    BY PageParts DEF PageOK
  <2>3. QED
    BY <1>6, <1>7, <1>8, <2>1, <2>2 DEF PageOK
<1>10. CallsOK(p)'
  <2>1. call'[InitCall(p)] = call[InitCall(p)]
    BY PageParts
  <2>2. QED
    BY <1>1, <1>6, <1>8, <2>1, PageParts DEF CallsOK, Searching
<1>11. ScriptOK(p)' /\ RequestOK(p)'
  BY <1>1, <1>4, <1>6, PageParts DEF ScriptOK, RequestOK
<1>12. FolderOK(p)'
  <2>1. c.at # "picked" /\ c # Reply("pick", None, TRUE)
    BY DEF NoCall, Asked, Reply
  <2>2. work.at = "searching" => root # None
    BY DEF Searching
  <2>3. root # None => page[p].init # "waiting"
    BY PageParts DEF FolderOK
  <2>4. QED
    BY <1>1, <1>6, <2>1, <2>2, <2>3 DEF FolderOK
<1>13. TriesPath(p)' /\ SearchOK(p)'
  BY <1>1, <1>6 DEF TriesPath, SearchOK, Searching, NoCall
<1>14. PathOK(p)'
  <2>1. ~ AboutToSearch(p)
    BY <1>2 DEF AboutToSearch
  <2>2. QED
    BY <1>1, <1>6, <2>1, PageParts DEF PathOK
<1>15. RendersFirst(p)'
  BY <1>6, <1>8 DEF RendersFirst
<1>16. PageInv(p)'
  BY <1>9, <1>10, <1>11, <1>12, <1>13, <1>14 DEF PageInv
<1>17. \A j \in (visited + 1)..Len(Pages) : Pages[j] # p
  BY WasOpened
<1>18. UNCHANGED Session
  BY <1>1 DEF Session
<1>19. QED
  BY <1>6, <1>15, <1>16, <1>17, <1>18, WorkKeeps

LEMMA AssetsStay ==
  ASSUME UNCHANGED assets
  PROVE  UNCHANGED <<hasPicker, script, root, call>>
  BY DEF assets

LEMMA PickKeeps ==
  ASSUME ViewerInv, NEW p \in ToSet(Pages), Pick(p)
  PROVE  ViewerInv'
<1>1. /\ shown = p /\ ~ Loading(p) /\ Work(p, [at |-> "picking"])
      /\ call' = [call EXCEPT ![WorkCall(p)] = Asked("pick", None)]
      /\ UNCHANGED <<hasPicker, script, root, shown, visited, request, asked, hasty>>
  BY DEF Pick, Ask, Become
<1>2. /\ DOMAIN call' = Calls /\ \A c \in Calls \ {WorkCall(p)} : call'[c] = call[c]
      /\ call'[WorkCall(p)] = Asked("pick", None)
  BY <1>1, PageParts
<1>3. QED
  BY <1>1, <1>2, BeginsKeeps

LEMMA OpenNifKeeps ==
  ASSUME ViewerInv, NEW p \in ToSet(Pages), OpenNif(p)
  PROVE  ViewerInv'
<1>1. /\ shown = p /\ ~ Loading(p) /\ Work(p, [at |-> "reading"]) /\ call' = call
      /\ UNCHANGED <<hasPicker, script, root, shown, visited, request, asked, hasty>>
  BY AssetsStay DEF OpenNif
<1>2. DOMAIN call' = Calls /\ call'[WorkCall(p)] = NoCall
  BY <1>1, PageParts, IdleFacts
<1>3. QED
  BY <1>1, <1>2, BeginsKeeps

LEMMA LoadPathKeeps ==
  ASSUME ViewerInv, NEW p \in ToSet(Pages), NEW path \in Typed, LoadPath(p, path)
  PROVE  ViewerInv'
<1>1. /\ shown = p /\ ~ Loading(p) /\ root # None /\ Work(p, Searching(path)) /\ call' = call
      /\ UNCHANGED <<hasPicker, script, root, shown, visited, request, asked, hasty>>
  BY AssetsStay DEF LoadPath
<1>2. DOMAIN call' = Calls /\ call'[WorkCall(p)] = NoCall /\ path \in Given
  BY <1>1, PageParts, IdleFacts DEF Given
<1>3. QED
  BY <1>1, <1>2, BeginsKeeps

-----------------------------------------------------------------------------
(* A page at work goes on                                                  *)

\* One page at work changes its work, or what it knows of its path.
LEMMA StepKeeps ==
  ASSUME ViewerInv, NEW p \in ToSet(Pages), page[p].work.at # "idle", NEW new,
         UNCHANGED <<hasPicker, script, root, shown, visited, request, asked, hasty>>,
         page' = [page EXCEPT ![p] = new], new.init = page[p].init, new.taken = page[p].taken,
         DOMAIN call' = Calls, \A c \in Calls \ {WorkCall(p)} : call'[c] = call[c],
         PageOK(p)', CallsOK(p)', FolderOK(p)', TriesPath(p)', PathOK(p)', SearchOK(p)', RendersFirst(p)'
  PROVE  ViewerInv'
<1>1. /\ hasPicker' = hasPicker /\ script' = script /\ root' = root /\ shown' = shown
      /\ visited' = visited /\ request' = request /\ asked' = asked
      /\ hasty' = hasty
  OBVIOUS
<1>2. /\ DOMAIN page' = ToSet(Pages) /\ page'[p] = new
      /\ \A q \in ToSet(Pages) \ {p} : page'[q] = page[q]
  BY PageParts
<1>3. Loading(p)
  BY DEF Loading, Nothing
<1>4. ScriptOK(p)' /\ RequestOK(p)'
  BY <1>1, <1>2, <1>3, PageParts DEF ScriptOK, RequestOK
<1>5. PageInv(p)'
  BY <1>4 DEF PageInv
<1>6. \A j \in (visited + 1)..Len(Pages) : Pages[j] # p
  BY WasOpened
<1>7. UNCHANGED Session
  BY <1>1 DEF Session
<1>8. QED
  BY <1>2, <1>5, <1>6, <1>7, WorkKeeps

\* The pages' fields, but for their work.
Fields(new) ==
  new \in [init : {"none", "waiting", "done", "failed"},
           pending : Linked \cup {None}, taken : Linked \cup {None}, unsupported : BOOLEAN,
           work : {new.work}, tried : BOOLEAN, broken : BOOLEAN, surprised : BOOLEAN]

\* A page stops working.
LEMMA EndsKeeps ==
  ASSUME ViewerInv, NEW p \in ToSet(Pages), page[p].work.at # "idle", NEW new, Fields(new),
         UNCHANGED <<hasPicker, script, root, shown, visited, request, asked, hasty>>,
         page' = [page EXCEPT ![p] = new], new.init = page[p].init, new.taken = page[p].taken,
         new.pending \in {page[p].pending, None}, new.work = Nothing,
         DOMAIN call' = Calls, \A c \in Calls \ {WorkCall(p)} : call'[c] = call[c],
         call'[WorkCall(p)] = NoCall,
         PathOK(p)'
  PROVE  ViewerInv'
<1>1. /\ hasPicker' = hasPicker /\ script' = script /\ root' = root /\ shown' = shown
      /\ visited' = visited /\ request' = request /\ asked' = asked
      /\ hasty' = hasty
  OBVIOUS
<1>2. page'[p] = new /\ new.work.at = "idle"
  BY PageParts DEF Nothing
<1>3. page[p].init # "none"
  BY PageParts DEF PageOK, NewPage, Nothing
<1>4. PageOK(p)'
  BY <1>2, <1>3, PageParts DEF PageOK, Fields
<1>5. CallsOK(p)'
  <2>1. call'[InitCall(p)] = call[InitCall(p)]
    BY PageParts
  <2>2. QED
    BY <1>1, <1>2, <2>1, PageParts DEF CallsOK
<1>6. FolderOK(p)'
  BY <1>1, <1>2, PageParts DEF FolderOK, NoCall, Reply
<1>7. TriesPath(p)' /\ SearchOK(p)' /\ RendersFirst(p)'
  BY <1>2 DEF TriesPath, SearchOK, RendersFirst
<1>8. QED
  BY <1>4, <1>5, <1>6, <1>7, StepKeeps

LEMMA RenderedKeeps ==
  ASSUME ViewerInv, NEW p \in ToSet(Pages), Rendered(p)
  PROVE  ViewerInv'
<1>1. /\ page[p].work.at \in {"rendering", "reading"} /\ call' = call
      /\ UNCHANGED <<hasPicker, script, root, shown, visited, request, asked, hasty>>
  BY AssetsStay DEF Rendered
<1> DEFINE new == [page[p] EXCEPT !.work = Nothing]
<1>2. page' = [page EXCEPT ![p] = new]
  BY PageParts DEF Rendered, Work
<1>3. /\ Fields(new) /\ new.init = page[p].init /\ new.taken = page[p].taken /\ new.work = Nothing
      /\ new.pending = page[p].pending /\ new.tried = page[p].tried /\ new.broken = page[p].broken /\ new.surprised = page[p].surprised
  BY PageParts DEF PageOK, Fields
<1>4. page'[p] = new
  BY <1>2, PageParts
<1> HIDE DEF new
<1>5. DOMAIN call' = Calls /\ call'[WorkCall(p)] = NoCall
  BY <1>1, PageParts DEF CallsOK
<1>6. PathOK(p)'
  BY <1>1, <1>3, <1>4, PageParts DEF PathOK, AboutToSearch
<1>7. QED
  BY <1>1, <1>2, <1>3, <1>5, <1>6, EndsKeeps

\* The caller takes a result.
LEMMA LeaveFacts ==
  ASSUME ViewerInv, NEW p \in ToSet(Pages), NEW c \in {InitCall(p), WorkCall(p)}, Leave(c)
  PROVE  /\ DOMAIN call' = Calls /\ \A d \in Calls \ {c} : call'[d] = call[d]
         /\ call'[c] = NoCall /\ UNCHANGED <<hasPicker, script, root>>
  BY PageParts DEF Leave, Become

\* A search begins with all its candidates and no call.
LEMMA SearchingFacts ==
  ASSUME NEW path \in Given, root \in Roots
  PROVE  /\ Searching(path).at = "searching" /\ Searching(path).path = path
         /\ Searching(path).left = Candidates(path) /\ Candidates(path) # <<>> /\ Searching(path).folders = {root}
         /\ Searching(path) \in [at : {"searching"}, path : Given, left : {Candidates(path), Tail(Candidates(path))}, folders : SUBSET Roots]
<1>1. Candidates(path) # <<>>
  BY CandidateFacts
<1>2. QED
  BY <1>1 DEF Searching

LEMMA PickEndedKeeps ==
  ASSUME ViewerInv, NEW p \in ToSet(Pages), PickEnded(p)
  PROVE  ViewerInv'
<1> DEFINE result == call[WorkCall(p)].result
           searches == result = TRUE /\ page[p].pending # None
           work == IF searches THEN Searching(page[p].pending) ELSE Nothing
           new == [page[p] EXCEPT !.broken = (@ \/ result = Failed), !.work = work]
<1>1. /\ page[p].work.at = "picking" /\ call[WorkCall(p)].at = "done" /\ Leave(WorkCall(p))
      /\ UNCHANGED <<shown, visited, request, asked, hasty>>
  BY DEF PickEnded
<1>2. page' = [page EXCEPT ![p] = new]
  BY PageParts DEF PickEnded
<1>3. /\ Fields(new) /\ new.init = page[p].init /\ new.taken = page[p].taken /\ new.work = work
      /\ new.pending = page[p].pending /\ new.tried = page[p].tried
      /\ new.broken = (page[p].broken \/ result = Failed) /\ new.surprised = page[p].surprised
  BY PageParts DEF PageOK, Fields
<1>4. page'[p] = new
  BY <1>2, PageParts
<1>5. /\ DOMAIN call' = Calls /\ \A c \in Calls \ {WorkCall(p)} : call'[c] = call[c]
      /\ call'[WorkCall(p)] = NoCall
      /\ UNCHANGED <<hasPicker, script, root, shown, visited, request, asked, hasty>>
  BY <1>1, LeaveFacts
<1>6. /\ call[WorkCall(p)] = Reply("pick", None, result) /\ result \in BOOLEAN \cup {Failed}
  <2>1. PICK r \in BOOLEAN \cup {Failed} : call[WorkCall(p)] = Reply("pick", None, r)
    BY <1>1, PageParts DEF CallsOK, Asked
  <2>2. r = result
    BY <2>1 DEF Reply
  <2>3. QED
    BY <2>1, <2>2
<1>7. page[p].init # "none" /\ (page[p].pending # None => page[p].pending = page[p].taken /\ page[p].pending \in Given)
  BY <1>1, PageParts DEF PageOK, NewPage, Nothing, Given
<1> HIDE DEF new, result
<1>8. CASE searches
  <2>1. work = Searching(page[p].pending) /\ page[p].pending \in Given /\ page[p].pending = page[p].taken
    BY <1>7, <1>8
  <2>a. root \in Roots
    BY <1>6, <1>8, PageParts DEF FolderOK, ViewerInv, SessionOK
  <2>2. /\ work.at = "searching" /\ work.path = page[p].pending /\ work.left = Candidates(work.path)
        /\ Candidates(work.path) # <<>> /\ work.folders = {root}
        /\ work \in [at : {"searching"}, path : Given, left : {Candidates(work.path), Tail(Candidates(work.path))}, folders : SUBSET Roots]
    BY <2>1, <2>a, SearchingFacts
  <2> HIDE DEF work
  <2>3. PageOK(p)'
    BY <1>3, <1>4, <1>7, <2>1, <2>2 DEF PageOK, Fields
  <2>4. CallsOK(p)'
    <3>1. call'[InitCall(p)] = call[InitCall(p)]
      BY <1>5, PageParts
    <3>2. QED
      BY <1>3, <1>4, <1>5, <2>2, <3>1, PageParts DEF CallsOK
  <2>5. FolderOK(p)'
    <3>1. root # None
      BY <1>6, <1>8, PageParts DEF FolderOK
    <3>2. QED
      BY <1>3, <1>4, <1>5, <3>1, PageParts DEF FolderOK, NoCall, Reply
  <2>6. TriesPath(p)' /\ PathOK(p)'
    BY <1>3, <1>4, <1>5, <2>1, <2>2 DEF TriesPath, PathOK, AboutToSearch
  <2>7. SearchOK(p)' /\ RendersFirst(p)'
    BY <1>3, <1>4, <1>5, <2>2 DEF SearchOK, RendersFirst, NoCall
  <2>8. page[p].work.at # "idle"
    BY <1>1
  <2>9. QED
    BY <1>2, <1>3, <1>5, <2>3, <2>4, <2>5, <2>6, <2>7, <2>8, StepKeeps
<1>9. CASE ~ searches
  <2>1. work = Nothing
    BY <1>9
  <2>2. PathOK(p)'
    <3>1. result # FALSE /\ page[p].pending # None => result = Failed
      BY <1>6, <1>9
    <3>2. result = FALSE => ~ AboutToSearch(p)
      BY <1>1 DEF AboutToSearch, result
    <3>3. QED
      BY <1>3, <1>4, <1>5, <3>1, <3>2, PageParts DEF PathOK
  <2>3. page[p].work.at # "idle"
    BY <1>1
  <2>4. QED
    BY <1>2, <1>3, <1>5, <2>1, <2>2, <2>3, EndsKeeps
<1>10. QED
  BY <1>8, <1>9

LEMMA SearchKeeps ==
  ASSUME ViewerInv, NEW p \in ToSet(Pages), Search(p)
  PROVE  ViewerInv'
<1> DEFINE work == page[p].work
           new == [page[p] EXCEPT !.tried = @ \/ work.path = page[p].taken]
<1>1. /\ work.at = "searching"
      /\ call[WorkCall(p)] = NoCall
      /\ call' = [call EXCEPT ![WorkCall(p)] = Asked("resolve", Head(work.left))]
      /\ UNCHANGED <<hasPicker, script, root, shown, visited, request, asked, hasty>>
  BY DEF Search, Ask, Become
<1>2. page' = [page EXCEPT ![p] = new]
  BY PageParts DEF Search
<1>3. /\ Fields(new) /\ new.init = page[p].init /\ new.taken = page[p].taken /\ new.work = work
      /\ new.pending = page[p].pending /\ new.broken = page[p].broken /\ new.surprised = page[p].surprised
      /\ new.tried = (page[p].tried \/ work.path = page[p].taken)
  BY PageParts DEF PageOK, Fields
<1>4. page'[p] = new
  BY <1>2, PageParts
<1>5. /\ DOMAIN call' = Calls /\ \A c \in Calls \ {WorkCall(p)} : call'[c] = call[c]
      /\ call'[WorkCall(p)] = Asked("resolve", Head(work.left))
  BY <1>1, PageParts
<1>6. page[p].init # "none"
  BY <1>1, PageParts DEF PageOK, NewPage, Nothing
<1>7. Asked("resolve", Head(work.left)).at = "asked"
  BY DEF Asked
<1> HIDE DEF new
<1>8. PageOK(p)'
  BY <1>3, <1>4, <1>6, PageParts DEF PageOK, Fields
<1>9. CallsOK(p)'
  <2>1. call'[InitCall(p)] = call[InitCall(p)]
    BY <1>5, PageParts
  <2>2. QED
    BY <1>1, <1>3, <1>4, <1>5, <2>1, PageParts DEF CallsOK
<1>10. FolderOK(p)'
  BY <1>1, <1>3, <1>4, <1>5, <1>7, PageParts DEF FolderOK, Reply
<1>11. TriesPath(p)'
  BY <1>3, <1>4 DEF TriesPath
<1>12. PathOK(p)'
  BY <1>1, <1>3, <1>4, PageParts DEF PathOK, AboutToSearch
<1>13. SearchOK(p)' /\ RendersFirst(p)'
  BY <1>1, <1>3, <1>4, <1>5, <1>7, PageParts DEF SearchOK, RendersFirst
<1>14. work.at # "idle"
  BY <1>1
<1>15. QED
  BY <1>1, <1>2, <1>3, <1>5, <1>8, <1>9, <1>10, <1>11, <1>12, <1>13, <1>14, StepKeeps

\* Which candidate it is that was asked for last.
LEMMA WhichCandidate ==
  ASSUME NEW path \in Given, NEW left \in {Candidates(path), Tail(Candidates(path))}, left # <<>>
  PROVE  LET candidates == Candidates(path)
             n == CHOOSE n \in DOMAIN candidates : candidates[n] = Head(left)
         IN  IF left = candidates THEN n = 1 ELSE n = 2 /\ candidates[1] = Head(candidates)
<1> DEFINE candidates == Candidates(path)
           n == CHOOSE n \in DOMAIN candidates : candidates[n] = Head(left)
<1>1. CASE candidates = <<path>>
  <2>1. left = candidates /\ Head(left) = path
    BY <1>1, LeftFacts
  <2>2. DOMAIN candidates = {1} /\ candidates[1] = path
    BY <1>1
  <2>3. QED
    BY <2>1, <2>2
<1>2. ASSUME NEW x, x # path, candidates = <<x, path>>
      PROVE  IF left = candidates THEN n = 1 ELSE n = 2 /\ candidates[1] = Head(candidates)
  <2>1. DOMAIN candidates = {1, 2} /\ candidates[1] = x /\ candidates[2] = path /\ Head(candidates) = x
    BY <1>2
  <2>2. IF left = candidates THEN Head(left) = x ELSE Head(left) = path
    <3>1. <<path>> # <<x, path>> /\ Head(<<path>>) = path
      OBVIOUS
    <3>2. left = candidates \/ left = <<path>>
      BY LeftFacts
    <3>3. QED
      BY <1>2, <2>1, <3>1, <3>2
  <2> HIDE DEF candidates
  <2>3. QED
    BY <1>2, <2>1, <2>2
<1>3. QED
  BY <1>1, <1>2, CandidateFacts

LEMMA SearchedKeeps ==
  ASSUME ViewerInv, NEW p \in ToSet(Pages), Searched(p)
  PROVE  ViewerInv'
<1> DEFINE work == page[p].work
           result == call[WorkCall(p)].result
           ends == result = Failed \/ (result = None /\ Len(work.left) = 1)
           next == [work EXCEPT !.left = Tail(@)]
           renders == [at |-> "rendering", path |-> work.path, found |-> Head(work.left), nif |-> result, folders |-> work.folders]
           after == IF ends THEN Nothing ELSE IF result = None THEN next ELSE renders
           new == [page[p] EXCEPT !.pending = IF result \in {None, Failed} THEN @ ELSE None, !.work = after]
<1>1. /\ work.at = "searching" /\ call[WorkCall(p)].at = "done" /\ Leave(WorkCall(p))
      /\ UNCHANGED <<shown, visited, request, asked, hasty>>
  BY DEF Searched
<1>2. page' = [page EXCEPT ![p] = new]
  BY PageParts DEF Searched
<1>b. Fields(new)
  <2> DEFINE pending == IF result \in {None, Failed} THEN page[p].pending ELSE None
  <2>1. /\ page[p] \in [init : {"none", "waiting", "done", "failed"},
                pending : Linked \cup {None}, taken : Linked \cup {None}, unsupported : BOOLEAN,
                work : {work}, tried : BOOLEAN, broken : BOOLEAN, surprised : BOOLEAN]
        /\ new = [page[p] EXCEPT !.pending = pending, !.work = after]
    BY PageParts DEF PageOK
  <2>2. pending \in Linked \cup {None}
    BY <2>1
  <2> HIDE DEF after, result, pending, new
  <2>3. QED
    BY <2>1, <2>2 DEF Fields
<1>3. /\ Fields(new) /\ new.init = page[p].init /\ new.taken = page[p].taken /\ new.work = after
      /\ new.pending = IF result \in {None, Failed} THEN page[p].pending ELSE None
      /\ new.tried = page[p].tried /\ new.broken = page[p].broken /\ new.surprised = page[p].surprised
  <2> HIDE DEF after, result
  <2>1. QED
    BY <1>b, PageParts DEF PageOK
<1>4. page'[p] = new
  BY <1>2, PageParts
<1>5. /\ DOMAIN call' = Calls /\ \A c \in Calls \ {WorkCall(p)} : call'[c] = call[c]
      /\ call'[WorkCall(p)] = NoCall
      /\ UNCHANGED <<hasPicker, script, root, shown, visited, request, asked, hasty>>
  BY <1>1, LeaveFacts
<1>6. /\ page[p].init # "none" /\ (page[p].pending # None => page[p].pending = page[p].taken)
      /\ work \in [at : {"searching"}, path : Given, left : {Candidates(work.path), Tail(Candidates(work.path))}, folders : SUBSET Roots]
      /\ work.left # <<>>
  BY <1>1, PageParts DEF PageOK, NewPage, Nothing
<1>7. work.path = page[p].taken => page[p].tried
  BY <1>1, PageParts DEF TriesPath, NoCall
<1>8. /\ root \in work.folders
      /\ \E r \in work.folders : result \in Answers(r, Head(work.left))
      /\ work.left # Candidates(work.path) =>
           \E r \in work.folders : None \in Answers(r, Head(Candidates(work.path)))
  BY <1>1, PageParts DEF SearchOK
<1>9. root \in Roots
  BY <1>1, PageParts DEF FolderOK, ViewerInv, SessionOK
<1>10. PathOK(p)'
  <2>1. AboutToSearch(p) => page[p].tried
    BY <1>1, <1>7 DEF AboutToSearch
  <2>2. QED
    BY <1>3, <1>4, <1>5, <2>1, PageParts DEF PathOK
<1>a. call'[InitCall(p)] = call[InitCall(p)]
  BY <1>5, PageParts
<1>11. ASSUME after.at \in {"searching", "rendering"}, CallsOK(p)'
       PROVE  FolderOK(p)'
  BY <1>1, <1>3, <1>4, <1>5, PageParts DEF FolderOK, NoCall, Reply
<1>12. CASE ends
  <2>1. QED
    BY <1>1, <1>2, <1>3, <1>5, <1>10, <1>12, EndsKeeps
<1>13. CASE ~ ends /\ result = None
  <2>1. work.left = Candidates(work.path) /\ Tail(work.left) # <<>> /\ Tail(work.left) # work.left
    BY <1>6, <1>13, LeftFacts
  <2>2. /\ next.at = "searching" /\ next.path = work.path /\ next.left = Tail(work.left) /\ next.folders = work.folders
        /\ next \in [at : {"searching"}, path : Given, left : {Candidates(next.path), Tail(Candidates(next.path))}, folders : SUBSET Roots]
    BY <1>6, <2>1
  <2>3. after = next
    BY <1>13
  <2> HIDE DEF next, after, new, result
  <2>4. PageOK(p)'
    <3>1. Fields(new) /\ new.work = next /\ new.init # "none" /\ next.left # <<>>
      BY <1>3, <1>6, <2>1, <2>2, <2>3
    <3>2. new.pending # None => new.pending = new.taken
      BY <1>3, <1>6
    <3>3. QED
      BY <1>4, <2>2, <3>1, <3>2 DEF PageOK, Fields
  <2>5. CallsOK(p)'
    BY <1>3, <1>4, <1>5, <1>a, <2>2, <2>3, PageParts DEF CallsOK
  <2>6. FolderOK(p)'
    BY <1>11, <2>2, <2>3, <2>5
  <2>7. TriesPath(p)'
    BY <1>3, <1>4, <1>7, <2>2, <2>3 DEF TriesPath
  <2>8. SearchOK(p)' /\ RendersFirst(p)'
    <3>1. page'[p].work = next /\ call'[WorkCall(p)].at # "done" /\ root' = root
      BY <1>3, <1>4, <1>5, <2>3 DEF NoCall
    <3>2. \E r \in work.folders : None \in Answers(r, Head(Candidates(work.path)))
      BY <1>8, <1>13, <2>1
    <3>3. QED
      BY <1>8, <2>2, <3>1, <3>2 DEF SearchOK, RendersFirst
  <2>9. QED
    BY <1>1, <1>2, <1>3, <1>5, <1>10, <2>4, <2>5, <2>6, <2>7, <2>8, StepKeeps
<1>14. CASE ~ ends /\ result # None
  <2>1. after = renders /\ new.pending = None
    BY <1>3, <1>14
  <2>2. /\ renders.at = "rendering" /\ renders.path = work.path /\ renders.found = Head(work.left)
        /\ renders.nif = result /\ renders.folders = work.folders
    OBVIOUS
  <2> HIDE DEF renders, after, new, result
  <2>3. PageOK(p)'
    BY <1>3, <1>4, <1>6, <2>1, <2>2 DEF PageOK, Fields
  <2>4. CallsOK(p)'
    BY <1>3, <1>4, <1>5, <1>a, <2>1, <2>2, PageParts DEF CallsOK
  <2>5. FolderOK(p)'
    BY <1>11, <2>1, <2>2, <2>4
  <2>6. TriesPath(p)' /\ SearchOK(p)'
    BY <1>3, <1>4, <2>1, <2>2 DEF TriesPath, SearchOK
  <2>7. RendersFirst(p)'
    <3> DEFINE candidates == Candidates(work.path)
               n == CHOOSE n \in DOMAIN candidates : candidates[n] = Head(work.left)
    <3>1. IF work.left = candidates THEN n = 1 ELSE n = 2 /\ candidates[1] = Head(candidates)
      BY <1>6, WhichCandidate
    <3>2. /\ \E r \in work.folders : result \in Answers(r, Head(work.left))
          /\ \A i \in 1..(n - 1) : \E r \in work.folders : None \in Answers(r, candidates[i])
      <4> HIDE DEF candidates, n
      <4>1. n = 1 => 1..(n - 1) = {}
        OBVIOUS
      <4>2. n = 2 => 1..(n - 1) = {1}
        OBVIOUS
      <4>3. n = 2 /\ work.left # candidates => \E r \in work.folders : None \in Answers(r, Head(candidates))
        BY <1>8 DEF candidates
      <4>4. QED
        BY <1>8, <3>1, <4>1, <4>2, <4>3
    <3>3. QED
      BY <1>3, <1>4, <1>5, <1>9, <2>1, <2>2, <3>2 DEF RendersFirst
  <2>8. QED
    BY <1>1, <1>2, <1>3, <1>5, <1>10, <2>3, <2>4, <2>5, <2>6, <2>7, StepKeeps
<1>15. QED
  BY <1>12, <1>13, <1>14

-----------------------------------------------------------------------------
(* The service answers                                                     *)

\* A call of a page is answered from the folder of the moment.
LEMMA AnswerKeeps ==
  ASSUME ViewerInv, NEW p \in ToSet(Pages), page[p].init # "none" \/ page[p].work.at # "idle",
         UNCHANGED <<hasPicker, script, root>>, UNCHANGED viewer,
         DOMAIN call' = Calls, \A c \in Calls \ {InitCall(p), WorkCall(p)} : call'[c] = call[c],
         CallsOK(p)', FolderOK(p)', TriesPath(p)', PathOK(p)', SearchOK(p)'
  PROVE  ViewerInv'
<1>1. /\ hasPicker' = hasPicker /\ script' = script /\ root' = root /\ shown' = shown
      /\ visited' = visited /\ request' = request /\ asked' = asked
      /\ hasty' = hasty /\ page' = page
  BY DEF viewer
<1>2. PageOK(p)' /\ ScriptOK(p)' /\ RequestOK(p)'
  BY <1>1, PageParts DEF PageOK, ScriptOK, RequestOK
<1>3. RendersFirst(p)'
  BY <1>1, PageParts DEF RendersFirst
<1>4. PageInv(p)'
  BY <1>2, <1>3 DEF PageInv
<1>5. \A j \in (visited + 1)..Len(Pages) : Pages[j] # p
  BY WasOpened
<1>6. DOMAIN page' = ToSet(Pages)
  BY <1>1, PageParts
<1>7. UNCHANGED Session
  BY <1>1 DEF Session
<1>8. QED
  BY <1>1, <1>3, <1>4, <1>5, <1>6, <1>7, WorkKeeps

\* What a call of a page can be for.
LEMMA CallKinds ==
  ASSUME ViewerInv, NEW p \in ToSet(Pages)
  PROVE  /\ call[InitCall(p)].at \in {"asked", "picked"} =>
              page[p].init = "waiting" /\ call[InitCall(p)] = Asked("initialize", None)
         /\ call[WorkCall(p)].at \in {"asked", "picked"} =>
              \/ /\ page[p].work.at = "picking"
                 /\ \/ call[WorkCall(p)] = Asked("pick", None)
                    \/ call[WorkCall(p)] = [Asked("pick", None) EXCEPT !.at = "picked"]
              \/ /\ page[p].work.at = "searching"
                 /\ call[WorkCall(p)] = Asked("resolve", Head(page[p].work.left))
<1>1. NoCall.at = "free" /\ \A kind, path, result : Reply(kind, path, result).at = "done"
  BY DEF NoCall, Reply
<1>2. CallsOK(p)
  BY PageParts
<1>3. call[InitCall(p)].at \in {"asked", "picked"} =>
        page[p].init = "waiting" /\ call[InitCall(p)] = Asked("initialize", None)
  BY <1>1, <1>2 DEF CallsOK
<1>4. CASE page[p].work.at \notin {"picking", "searching"}
  BY <1>1, <1>2, <1>3, <1>4 DEF CallsOK
<1>5. CASE page[p].work.at = "picking"
  <2>1. \A result : call[WorkCall(p)] = Reply("pick", None, result) => call[WorkCall(p)].at = "done"
    BY <1>1
  <2>2. QED
    BY <1>2, <1>3, <1>5, <2>1 DEF CallsOK
<1>6. CASE page[p].work.at = "searching"
  <2>1. \A path, result : call[WorkCall(p)] = Reply("resolve", path, result) => call[WorkCall(p)].at = "done"
    BY <1>1
  <2>2. QED
    BY <1>1, <1>2, <1>3, <1>6, <2>1 DEF CallsOK
<1>7. QED
  BY <1>4, <1>5, <1>6

\* The call that a step of the service is about.
LEMMA CallStates ==
  ASSUME ViewerInv, NEW p \in ToSet(Pages)
  PROVE  /\ ~ Is(InitCall(p), "asked", "pick") /\ ~ Is(InitCall(p), "asked", "resolve")
         /\ call[InitCall(p)].at # "picked" /\ ~ Is(WorkCall(p), "asked", "initialize")
         /\ Is(WorkCall(p), "asked", "pick") =>
              page[p].work.at = "picking" /\ call[WorkCall(p)] = Asked("pick", None)
         /\ call[WorkCall(p)].at = "picked" =>
              page[p].work.at = "picking" /\ call[WorkCall(p)] = [Asked("pick", None) EXCEPT !.at = "picked"]
         /\ Is(WorkCall(p), "asked", "resolve") =>
              page[p].work.at = "searching" /\ call[WorkCall(p)] = Asked("resolve", Head(page[p].work.left))
<1> DEFINE init == call[InitCall(p)]
           work == call[WorkCall(p)]
           picked == [Asked("pick", None) EXCEPT !.at = "picked"]
<1>1. \A kind, path : /\ Asked(kind, path).at = "asked" /\ Asked(kind, path).kind = kind
                      /\ Asked(kind, path).path = path
  BY DEF Asked
<1>2. picked.at = "picked"
  BY DEF Asked
<1>3. init.at \in {"asked", "picked"} => init.at = "asked" /\ init.kind = "initialize"
  BY <1>1, CallKinds
<1>4. \/ work.at \notin {"asked", "picked"}
      \/ page[p].work.at = "picking" /\ work = Asked("pick", None)
      \/ page[p].work.at = "picking" /\ work = picked
      \/ page[p].work.at = "searching" /\ work = Asked("resolve", Head(page[p].work.left))
  BY CallKinds
<1> HIDE DEF init, work, picked
<1>5. /\ work.at = "asked" => work.kind \in {"pick", "resolve"}
      /\ work.at = "asked" /\ work.kind = "pick" => page[p].work.at = "picking" /\ work = Asked("pick", None)
      /\ work.at = "asked" /\ work.kind = "resolve" =>
           page[p].work.at = "searching" /\ work = Asked("resolve", Head(page[p].work.left))
      /\ work.at = "picked" => page[p].work.at = "picking" /\ work = picked
  BY <1>1, <1>2, <1>4
<1>6. QED
  BY <1>3, <1>5 DEF Is, init, work, picked

\* The service answers a call with a result.
LEMMA DoneFacts ==
  ASSUME ViewerInv, NEW p \in ToSet(Pages), NEW c \in {InitCall(p), WorkCall(p)}, NEW result, Done(c, result)
  PROVE  /\ DOMAIN call' = Calls /\ \A d \in Calls \ {c} : call'[d] = call[d]
         /\ call'[c] = Reply(call[c].kind, call[c].path, result)
  BY PageParts DEF Done, Become, Reply

\* isSupported is answered.
LEMMA InitializedKeeps ==
  ASSUME ViewerInv, NEW p \in ToSet(Pages), Initialized(InitCall(p)), UNCHANGED viewer
  PROVE  ViewerInv'
<1>1. page' = page /\ UNCHANGED <<hasPicker, script, root>> /\ visited' = visited
  BY DEF viewer, Initialized
<1>2. page[p].init = "waiting" /\ call[InitCall(p)] = Asked("initialize", None) /\ script # "unknown"
  BY CallKinds DEF Initialized, Is
<1>3. /\ DOMAIN call' = Calls /\ \A d \in Calls \ {InitCall(p)} : call'[d] = call[d]
      /\ call'[InitCall(p)] = Reply("initialize", None, IF script = "ready" THEN hasPicker ELSE Failed)
  BY <1>2, DoneFacts DEF Initialized, Asked
<1>4. call'[WorkCall(p)] = call[WorkCall(p)]
  BY <1>3, PageParts
<1>5. CallsOK(p)'
  BY <1>1, <1>2, <1>3, <1>4, PageParts DEF CallsOK
<1>6. FolderOK(p)' /\ TriesPath(p)'
  BY <1>1, <1>4, PageParts DEF FolderOK, TriesPath
<1>7. PathOK(p)' /\ SearchOK(p)'
  BY <1>1, <1>4, PageParts DEF PathOK, AboutToSearch, SearchOK
<1>8. QED
  BY <1>1, <1>2, <1>3, <1>5, <1>6, <1>7, AnswerKeeps

\* The picker is closed, or cannot be shown.
LEMMA PickNothingKeeps ==
  ASSUME ViewerInv, NEW p \in ToSet(Pages), PickNothing(WorkCall(p)), UNCHANGED viewer
  PROVE  ViewerInv'
<1> DEFINE result == IF script = "ready" THEN FALSE ELSE Failed
<1>1. page' = page /\ UNCHANGED <<hasPicker, script, root>> /\ visited' = visited
  BY DEF viewer, PickNothing
<1>2. page[p].work.at = "picking" /\ call[WorkCall(p)] = Asked("pick", None)
  BY CallStates DEF PickNothing
<1>3. /\ DOMAIN call' = Calls /\ \A d \in Calls \ {WorkCall(p)} : call'[d] = call[d]
      /\ call'[WorkCall(p)] = Reply("pick", None, result)
  <2>1. Done(WorkCall(p), result)
    BY DEF PickNothing
  <2> HIDE DEF result
  <2>2. QED
    BY <1>2, <2>1, DoneFacts DEF Asked
<1>4. call'[InitCall(p)] = call[InitCall(p)]
  BY <1>3, PageParts
<1>5. result \in {FALSE, Failed} /\ result # TRUE
  BY ViewerAssumption
<1> HIDE DEF result
<1>6. CallsOK(p)'
  BY <1>1, <1>2, <1>3, <1>4, <1>5, PageParts DEF CallsOK
<1>7. FolderOK(p)' /\ TriesPath(p)'
  <2>1. /\ Reply("pick", None, result).at = "done" /\ Reply("pick", None, result).result = result
        /\ Reply("pick", None, TRUE).result = TRUE
    BY DEF Reply
  <2>2. call'[WorkCall(p)].at # "picked" /\ call'[WorkCall(p)] # Reply("pick", None, TRUE)
    BY <1>3, <1>5, <2>1
  <2>3. QED
    BY <1>1, <1>2, <2>2, PageParts DEF FolderOK, TriesPath
<1>8. PathOK(p)' /\ SearchOK(p)'
  <2>1. ~ AboutToSearch(p)
    BY <1>2 DEF AboutToSearch, Asked
  <2>2. QED
    BY <1>1, <1>2, <2>1, PageParts DEF PathOK, SearchOK
<1>9. QED
  BY <1>1, <1>2, <1>3, <1>6, <1>7, <1>8, AnswerKeeps

\* The archives of the folder are indexed, or cannot be.
LEMMA FolderIndexedKeeps ==
  ASSUME ViewerInv, NEW p \in ToSet(Pages), FolderIndexed(WorkCall(p)), UNCHANGED viewer
  PROVE  ViewerInv'
<1>1. page' = page /\ UNCHANGED <<hasPicker, script, root>> /\ visited' = visited
  BY DEF viewer, FolderIndexed
<1>2. /\ page[p].work.at = "picking" /\ call[WorkCall(p)].at = "picked"
      /\ call[WorkCall(p)] = [Asked("pick", None) EXCEPT !.at = "picked"]
  BY CallStates DEF FolderIndexed
<1>3. PICK result \in {TRUE, Failed} : Done(WorkCall(p), result)
  BY DEF FolderIndexed
<1>4. /\ DOMAIN call' = Calls /\ \A d \in Calls \ {WorkCall(p)} : call'[d] = call[d]
      /\ call'[WorkCall(p)] = Reply("pick", None, result)
  BY <1>2, <1>3, DoneFacts DEF Asked
<1>5. call'[InitCall(p)] = call[InitCall(p)]
  BY <1>4, PageParts
<1>6. result # FALSE /\ root # None
  BY <1>2, <1>3, ViewerAssumption, PageParts DEF FolderOK
<1>7. CallsOK(p)'
  BY <1>1, <1>2, <1>3, <1>4, <1>5, PageParts DEF CallsOK
<1>8. FolderOK(p)' /\ TriesPath(p)'
  BY <1>1, <1>2, <1>6, PageParts DEF FolderOK, TriesPath
<1>9. PathOK(p)' /\ SearchOK(p)'
  <2>1. call'[WorkCall(p)].at = "done" /\ call'[WorkCall(p)].result = result
    BY <1>4 DEF Reply
  <2>2. QED
    BY <1>1, <1>2, <1>6, <2>1 DEF PathOK, AboutToSearch, SearchOK
<1>10. QED
  BY <1>1, <1>2, <1>4, <1>7, <1>8, <1>9, AnswerKeeps

\* A candidate is looked up.
LEMMA ResolvedKeeps ==
  ASSUME ViewerInv, NEW p \in ToSet(Pages), Resolved(WorkCall(p)), UNCHANGED viewer
  PROVE  ViewerInv'
<1> DEFINE sought == Head(page[p].work.left)
<1>1. page' = page /\ UNCHANGED <<hasPicker, script, root>> /\ visited' = visited
  BY DEF viewer, Resolved
<1>2. page[p].work.at = "searching" /\ call[WorkCall(p)] = Asked("resolve", sought)
  BY CallStates DEF Resolved
<1>3. PICK result \in Answers(root, sought) : Done(WorkCall(p), result)
  BY <1>2 DEF Resolved, Asked
<1>4. /\ DOMAIN call' = Calls /\ \A d \in Calls \ {WorkCall(p)} : call'[d] = call[d]
      /\ call'[WorkCall(p)] = Reply("resolve", sought, result)
  BY <1>2, <1>3, DoneFacts DEF Asked
<1>5. call'[InitCall(p)] = call[InitCall(p)]
  BY <1>4, PageParts
<1>6. call'[WorkCall(p)].at = "done" /\ call'[WorkCall(p)].result = result
  BY <1>4 DEF Reply
<1>7. CallsOK(p)'
  BY <1>1, <1>2, <1>4, <1>5, <1>6, PageParts DEF CallsOK
<1>8. FolderOK(p)'
  BY <1>1, <1>2, <1>4, PageParts DEF FolderOK, Reply
<1>9. TriesPath(p)'
  BY <1>1, <1>2, PageParts DEF TriesPath, Asked, NoCall
<1>10. PathOK(p)' /\ SearchOK(p)'
  BY <1>1, <1>2, <1>3, <1>6, PageParts DEF PathOK, AboutToSearch, SearchOK
<1>11. QED
  BY <1>1, <1>2, <1>4, <1>7, <1>8, <1>9, <1>10, AnswerKeeps

\* What the history of a page records of a folder that another page picks.
LEMMA MovedFacts ==
  ASSUME ViewerInv, NEW q \in ToSet(Pages), root' \in Roots
  PROVE  LET new == Moved(q)
             searching == page[q].work.at = "searching"
         IN  /\ new.init = page[q].init /\ new.pending = page[q].pending /\ new.taken = page[q].taken
             /\ new.tried = page[q].tried /\ new.broken = page[q].broken
             /\ new.surprised = (page[q].surprised \/ root = None)
             /\ Fields(new) /\ new.work.at = page[q].work.at
             /\ ~ searching => new.work = page[q].work
             /\ searching => /\ new.work.path = page[q].work.path /\ new.work.left = page[q].work.left
                             /\ new.work.folders = page[q].work.folders \cup {root'}
                             /\ new.work \in [at : {"searching"}, path : Given,
                                   left : {Candidates(new.work.path), Tail(Candidates(new.work.path))}, folders : SUBSET Roots]
<1> DEFINE work == page[q].work
           mine == Surprised(q)
           new == Moved(q)
<1>1. /\ page[q] \in [init : {"none", "waiting", "done", "failed"},
                pending : Linked \cup {None}, taken : Linked \cup {None}, unsupported : BOOLEAN,
                work : {work}, tried : BOOLEAN, broken : BOOLEAN, surprised : BOOLEAN]
      /\ work.at = "searching" =>
           work \in [at : {"searching"}, path : Given, left : {Candidates(work.path), Tail(Candidates(work.path))}, folders : SUBSET Roots]
  BY PageParts DEF PageOK
<1>2. /\ mine.init = page[q].init /\ mine.pending = page[q].pending /\ mine.taken = page[q].taken
      /\ mine.tried = page[q].tried /\ mine.broken = page[q].broken /\ mine.work = work
      /\ mine.surprised = (page[q].surprised \/ root = None)
      /\ mine \in [init : {"none", "waiting", "done", "failed"},
                pending : Linked \cup {None}, taken : Linked \cup {None}, unsupported : BOOLEAN,
                work : {work}, tried : BOOLEAN, broken : BOOLEAN, surprised : BOOLEAN]
  BY <1>1 DEF Surprised
<1>3. CASE work.at = "searching"
  <2> DEFINE next == [work EXCEPT !.folders = @ \cup {root'}]
  <2>1. /\ next.at = "searching" /\ next.path = work.path /\ next.left = work.left /\ next.folders = work.folders \cup {root'}
        /\ next \in [at : {"searching"}, path : Given, left : {Candidates(next.path), Tail(Candidates(next.path))}, folders : SUBSET Roots]
    BY <1>1, <1>3
  <2>2. new = [mine EXCEPT !.work = next]
    BY <1>2, <1>3 DEF Moved
  <2> HIDE DEF next, mine, new
  <2>3. /\ new.init = mine.init /\ new.pending = mine.pending /\ new.taken = mine.taken
        /\ new.tried = mine.tried /\ new.broken = mine.broken /\ new.surprised = mine.surprised
        /\ new.work = next /\ Fields(new)
    BY <1>2, <2>2 DEF Fields
  <2>4. QED
    BY <1>2, <1>3, <2>1, <2>3 DEF new
<1>4. CASE work.at # "searching"
  <2>1. new = mine
    BY <1>4 DEF Moved
  <2>3. Fields(mine)
    BY <1>2 DEF Fields
  <2> HIDE DEF mine, new
  <2>4. QED
    BY <1>2, <1>4, <2>1, <2>3 DEF new
<1>5. QED
  BY <1>3, <1>4

\* A folder is picked, at one moment for all pages; none of them waits to be initialized.
LEMMA PickFolderKeeps ==
  ASSUME ViewerInv, NEW p \in ToSet(Pages), PickFolder(WorkCall(p)), Answered(WorkCall(p)),
         \A q \in ToSet(Pages) : page[q].init # "waiting"
  PROVE  ViewerInv'
<1> DEFINE picked == [Asked("pick", None) EXCEPT !.at = "picked"]
<1>1. /\ hasPicker' = hasPicker /\ script' = script /\ script = "ready" /\ shown' = shown
      /\ visited' = visited /\ request' = request /\ asked' = asked
      /\ hasty' = hasty
  BY DEF Answered, PickFolder
<1>2. page[p].work.at = "picking" /\ call[WorkCall(p)] = Asked("pick", None)
  BY CallStates DEF PickFolder
<1>3. /\ DOMAIN call' = Calls /\ \A d \in Calls \ {WorkCall(p)} : call'[d] = call[d]
      /\ call'[WorkCall(p)] = picked
  BY <1>2, PageParts DEF PickFolder, Become
<1>4. root' \in Roots /\ root' # None
  BY ViewerAssumption DEF PickFolder
<1>5. picked.at = "picked"
  BY DEF Asked
<1>6. /\ DOMAIN page' = ToSet(Pages) /\ page'[p] = page[p]
      /\ root' = root => page' = page
      /\ root' # root => \A q \in ToSet(Pages) \ {p} :
                           page'[q] = IF page[q].init = "none" THEN page[q] ELSE Moved(q)
  <2>1. \A q \in ToSet(Pages) : WorkCall(p) = WorkCall(q) <=> p = q
    BY Tags
  <2>2. QED
    BY <2>1, PageParts DEF Answered
<1>b. \A q \in ToSet(Pages) : page'[q].init = page[q].init /\ page'[q].taken = page[q].taken
  <2> SUFFICES ASSUME NEW q \in ToSet(Pages) PROVE page'[q].init = page[q].init /\ page'[q].taken = page[q].taken
    OBVIOUS
  <2>1. CASE page'[q] = page[q]
    BY <2>1
  <2>2. CASE page'[q] = Moved(q)
    BY <1>4, <2>2, MovedFacts
  <2>3. QED
    BY <1>6, <2>1, <2>2
<1> HIDE DEF picked
<1>7. ASSUME NEW q \in ToSet(Pages)
      PROVE  PageInv(q)' /\ RendersFirst(q)'
  <2>1. call'[InitCall(q)] = call[InitCall(q)]
    BY <1>3, PageParts
  <2>2. IF q = p THEN call'[WorkCall(q)] = picked ELSE call'[WorkCall(q)] = call[WorkCall(q)]
    BY <1>3, PageParts, Tags
  <2>3. FolderOK(q)'
    BY <1>1, <1>4, <1>b DEF FolderOK
  <2>4. CASE page'[q] = page[q] /\ (q = p \/ root' = root \/ page[q].init = "none")
    <3> DEFINE none == page[q].init = "none"
    <3>a. none => page[q].work.at = "idle" /\ ~ (visited > 0 /\ q = Pages[visited])
      <4>1. visited > 0 => visited \in 1..visited
        BY DEF ViewerInv, SessionOK
      <4>2. none => page[q] = NewPage
        BY PageParts DEF PageOK
      <4>3. NewPage.work.at = "idle"
        BY DEF NewPage, Nothing
      <4>4. visited > 0 => page[Pages[visited]].init # "none"
        BY <4>1 DEF ViewerInv, SessionOK
      <4>5. QED
        BY <4>2, <4>3, <4>4
    <3>1. PageOK(q)' /\ ScriptOK(q)' /\ RequestOK(q)'
      BY <1>1, <2>4, PageParts DEF PageOK, ScriptOK, RequestOK
    <3>2. CallsOK(q)'
      BY <1>1, <1>2, <2>1, <2>2, <2>4, PageParts DEF CallsOK, picked
    <3>3. RendersFirst(q)'
      BY <1>1, <2>4, PageParts DEF RendersFirst
    <3>4. TriesPath(q)' /\ SearchOK(q)'
      BY <1>1, <1>2, <2>2, <2>4, <3>a, PageParts DEF TriesPath, SearchOK
    <3>5. PathOK(q)'
      BY <1>1, <1>2, <1>4, <1>5, <2>2, <2>4, <3>a, PageParts DEF PathOK, AboutToSearch
    <3>6. QED
      BY <2>3, <3>1, <3>2, <3>3, <3>4, <3>5 DEF PageInv
  <2>5. CASE q # p /\ page'[q] = Moved(q) /\ root' # root /\ page[q].init # "none"
    <3> DEFINE new == Moved(q)
    <3>1. /\ new.init = page[q].init /\ new.pending = page[q].pending /\ new.taken = page[q].taken
          /\ new.tried = page[q].tried /\ new.broken = page[q].broken
          /\ new.surprised = (page[q].surprised \/ root = None)
          /\ Fields(new) /\ new.work.at = page[q].work.at
          /\ page[q].work.at # "searching" => new.work = page[q].work
          /\ page[q].work.at = "searching" =>
               /\ new.work.path = page[q].work.path /\ new.work.left = page[q].work.left
               /\ new.work.folders = page[q].work.folders \cup {root'}
               /\ new.work \in [at : {"searching"}, path : Given,
                     left : {Candidates(new.work.path), Tail(Candidates(new.work.path))}, folders : SUBSET Roots]
      BY <1>4, MovedFacts
    <3>2. page'[q] = new /\ call'[WorkCall(q)] = call[WorkCall(q)]
      BY <2>2, <2>5
    <3> HIDE DEF new
    <3>3. PageOK(q)'
      BY <2>5, <3>1, <3>2, PageParts DEF PageOK, Fields
    <3>4. ScriptOK(q)' /\ RequestOK(q)'
      BY <1>1, <3>1, <3>2, PageParts DEF ScriptOK, RequestOK
    <3>5. CallsOK(q)'
      BY <1>1, <2>1, <3>1, <3>2, PageParts DEF CallsOK
    <3>6. RendersFirst(q)'
      BY <3>1, <3>2, PageParts DEF RendersFirst
    <3>7. TriesPath(q)' /\ SearchOK(q)'
      BY <3>1, <3>2, PageParts DEF TriesPath, SearchOK
    <3>8. PathOK(q)'
      <4>1. AboutToSearch(q) => AboutToSearch(q)'
        BY <3>1, <3>2 DEF AboutToSearch
      <4>2. QED
        BY <1>1, <3>1, <3>2, <4>1, PageParts DEF PathOK
    <3>9. QED
      BY <2>3, <3>3, <3>4, <3>5, <3>6, <3>7, <3>8 DEF PageInv
  <2>6. QED
    BY <1>6, <2>4, <2>5
<1>8. SessionOK'
  <2>1. page[p].init = "done"
    <3>1. page[p].init \in {"none", "waiting", "done", "failed"} /\ page[p].init # "none"
      BY <1>2, PageParts DEF PageOK, NewPage, Nothing
    <3>2. QED
      BY <1>1, <3>1, PageParts DEF ScriptOK
  <2>2. Known'
    BY <1>1, <1>b, <2>1 DEF Known
  <2>3. visited \in Nat /\ visited <= Len(Pages) /\ Len(Pages) \in Nat
    BY PagesFacts DEF ViewerInv, SessionOK
  <2>4. \A i \in 1..visited : page'[Pages[i]].init # "none"
    <3>1. \A i \in 1..visited : Pages[i] \in ToSet(Pages)
      BY <2>3, PagesFacts
    <3>2. QED
      BY <1>b, <3>1 DEF ViewerInv, SessionOK
  <2>5. \A i \in (visited + 1)..Len(Pages) : page'[Pages[i]] = NewPage
    <3> SUFFICES ASSUME NEW i \in (visited + 1)..Len(Pages) PROVE page'[Pages[i]] = NewPage
      OBVIOUS
    <3>1. Pages[i] \in ToSet(Pages) /\ page[Pages[i]] = NewPage
      BY <2>3, PagesFacts DEF ViewerInv, SessionOK
    <3>2. NewPage.init = "none"
      BY DEF NewPage
    <3>3. QED
      BY <1>6, <3>1, <3>2
  <2>6. request # None /\ ~ hasty => shown # Elsewhere /\ page'[shown].init = "waiting"
    <3>1. request # None /\ ~ hasty => shown # Elsewhere /\ page[shown].init = "waiting"
      BY <1>1 DEF ViewerInv, SessionOK
    <3>2. shown # Elsewhere => shown \in ToSet(Pages)
      BY <2>3, PagesFacts DEF ViewerInv, SessionOK
    <3>3. QED
      BY <1>b, <3>1, <3>2
  <2>7. QED
    BY <1>1, <1>3, <1>4, <1>6, <2>2, <2>4, <2>5, <2>6 DEF ViewerInv, SessionOK
<1>9. RequestTaken'
  BY <1>1, <1>b DEF ViewerInv, RequestTaken
<1>10. QED
  BY <1>7, <1>8, <1>9, FirstIsOfEach DEF ViewerInv

LEMMA AnsweredKeeps ==
  ASSUME ViewerInv, NEW c \in Calls, Answered(c)
  PROVE  ViewerInv'
<1>1. /\ AnswerCall(c)
      /\ call'[c].at = "picked" => \A p \in ToSet(Pages) : page[p].init # "waiting"
      /\ root' = root => UNCHANGED viewer
  BY DEF Answered, viewer
<1>2. PICK p \in ToSet(Pages) : c = InitCall(p) \/ c = WorkCall(p)
  BY CallOfPage
<1>3. CASE c = InitCall(p)
  <2>1. Initialized(c)
    BY <1>1, <1>3, CallStates DEF AnswerCall, PickFolder, PickNothing, FolderIndexed, Resolved
  <2>2. QED
    BY <1>1, <1>3, <2>1, InitializedKeeps DEF Initialized
<1>4. CASE c = WorkCall(p)
  <2>1. CASE Initialized(c)
    BY <1>4, <2>1, CallStates DEF Initialized
  <2>2. CASE PickFolder(c)
    <3>1. call'[c].at = "picked"
      <4>1. call[c] = Asked("pick", None)
        BY <1>4, <2>2, CallStates DEF PickFolder
      <4>2. call' = [call EXCEPT ![c] = [Asked("pick", None) EXCEPT !.at = "picked"]]
        BY <2>2, <4>1 DEF PickFolder, Become
      <4>3. QED
        BY <4>2, PageParts DEF Asked
    <3>2. QED
      BY <1>1, <1>4, <2>2, <3>1, PickFolderKeeps
  <2>3. CASE PickNothing(c)
    BY <1>1, <1>4, <2>3, PickNothingKeeps DEF PickNothing
  <2>4. CASE FolderIndexed(c)
    BY <1>1, <1>4, <2>4, FolderIndexedKeeps DEF FolderIndexed
  <2>5. CASE Resolved(c)
    BY <1>1, <1>4, <2>5, ResolvedKeeps DEF Resolved
  <2>6. QED
    BY <1>1, <2>1, <2>2, <2>3, <2>4, <2>5 DEF AnswerCall
<1>5. QED
  BY <1>2, <1>3, <1>4

LEMMA ScriptLoadedKeeps ==
  ASSUME ViewerInv, ScriptLoaded
  PROVE  ViewerInv'
<1>1. /\ hasPicker' = hasPicker /\ root' = root /\ call' = call /\ shown' = shown
      /\ visited' = visited /\ request' = request /\ asked' = asked
      /\ hasty' = hasty /\ page' = page
      /\ script = "unknown" /\ script' \in {"ready", "failed"}
  BY DEF ScriptLoaded, Loaded, viewer
<1>2. ASSUME NEW q \in ToSet(Pages)
      PROVE  PageInv(q)' /\ RendersFirst(q)'
  <2>1. PageOK(q)' /\ FolderOK(q)'
    BY <1>1, PageParts DEF PageOK, FolderOK
  <2>2. CallsOK(q)' /\ ScriptOK(q)' /\ RequestOK(q)'
    BY <1>1, PageParts DEF CallsOK, ScriptOK, RequestOK
  <2>3. RendersFirst(q)'
    BY <1>1, PageParts DEF RendersFirst
  <2>4. TriesPath(q)' /\ SearchOK(q)' /\ PathOK(q)'
    BY <1>1, PageParts DEF TriesPath, SearchOK, PathOK, AboutToSearch
  <2>5. QED
    BY <2>1, <2>2, <2>3, <2>4 DEF PageInv
<1>3. SessionOK'
  <2>1. Known' <=> Known
    BY <1>1 DEF Known
  <2>2. QED
    BY <1>1, <2>1 DEF ViewerInv, SessionOK
<1>4. RequestTaken'
  BY <1>1 DEF ViewerInv, RequestTaken
<1>5. QED
  BY <1>2, <1>3, <1>4, FirstIsOfEach DEF ViewerInv

-----------------------------------------------------------------------------
(* Navigation and initialization                                           *)

LEMMA GoElsewhereKeeps ==
  ASSUME ViewerInv, GoElsewhere
  PROVE  ViewerInv'
<1>1. /\ hasPicker' = hasPicker /\ script' = script /\ root' = root /\ call' = call
      /\ visited' = visited /\ request' = request /\ asked' = asked
      /\ page' = page
      /\ shown # Elsewhere /\ shown' = Elsewhere /\ hasty' = (hasty \/ page[shown].init = "waiting")
  BY AssetsStay DEF GoElsewhere
<1>2. ASSUME NEW q \in ToSet(Pages)
      PROVE  PageInv(q)' /\ RendersFirst(q)'
  <2>1. PageOK(q)' /\ FolderOK(q)'
    BY <1>1, PageParts DEF PageOK, FolderOK
  <2>2. CallsOK(q)' /\ ScriptOK(q)'
    BY <1>1, PageParts DEF CallsOK, ScriptOK
  <2>3. RequestOK(q)'
    BY <1>1, PageParts DEF RequestOK
  <2>4. RendersFirst(q)'
    BY <1>1, PageParts DEF RendersFirst
  <2>5. TriesPath(q)' /\ SearchOK(q)' /\ PathOK(q)'
    BY <1>1, PageParts DEF TriesPath, SearchOK, PathOK, AboutToSearch
  <2>6. QED
    BY <2>1, <2>2, <2>3, <2>4, <2>5 DEF PageInv
<1>3. SessionOK'
  <2>1. Known' <=> Known
    BY <1>1 DEF Known
  <2>2. hasty' \in BOOLEAN
    BY <1>1 DEF ViewerInv, SessionOK
  <2>3. QED
    BY <1>1, <2>1, <2>2 DEF ViewerInv, SessionOK
<1>4. RequestTaken'
  BY <1>1 DEF ViewerInv, RequestTaken
<1>5. QED
  BY <1>2, <1>3, <1>4, FirstIsOfEach DEF ViewerInv

\* A page that no step of the session concerns keeps what holds of it.
LEMMA OtherKeeps ==
  ASSUME ViewerInv, NEW q \in ToSet(Pages),
         UNCHANGED <<hasPicker, script, root>>, page'[q] = page[q],
         call'[InitCall(q)] = call[InitCall(q)], call'[WorkCall(q)] = call[WorkCall(q)],
         RequestOK(q)', PathOK(q)'
  PROVE  PageInv(q)' /\ RendersFirst(q)'
<1>b. PageOK(q)'
  BY PageParts DEF PageOK
<1>1. FolderOK(q)' /\ ScriptOK(q)'
  BY PageParts DEF FolderOK, ScriptOK
<1>a. CallsOK(q)'
  BY PageParts DEF CallsOK
<1>2. TriesPath(q)' /\ SearchOK(q)' /\ RendersFirst(q)'
  BY PageParts DEF TriesPath, SearchOK, RendersFirst
<1>3. QED
  BY <1>1, <1>a, <1>b, <1>2 DEF PageInv

LEMMA InitializeKeeps ==
  ASSUME ViewerInv, NEW p \in ToSet(Pages), Initialize(p)
  PROVE  ViewerInv'
<1> DEFINE result == call[InitCall(p)].result
           failed == [page[p] EXCEPT !.init = "failed"]
           done == [page[p] EXCEPT !.init = "done", !.pending = request, !.taken = request, !.unsupported = ~ result]
           new == IF result = Failed THEN failed ELSE done
<1>1. /\ call[InitCall(p)].at = "done" /\ Leave(InitCall(p))
      /\ shown' = shown /\ visited' = visited /\ asked' = asked /\ hasty' = hasty
      /\ request' = IF result = Failed THEN request ELSE None
  BY DEF Initialize
<1>2. /\ DOMAIN call' = Calls /\ \A d \in Calls \ {InitCall(p)} : call'[d] = call[d]
      /\ call'[InitCall(p)] = NoCall /\ hasPicker' = hasPicker /\ script' = script /\ root' = root
  BY <1>1, LeaveFacts
<1>3. page' = [page EXCEPT ![p] = new]
  BY PageParts DEF Initialize
<1>4. /\ page[p].init = "waiting" /\ script # "unknown"
      /\ result = IF script = "ready" THEN hasPicker ELSE Failed
  <2> DEFINE told == IF script = "ready" THEN hasPicker ELSE Failed
             init == call[InitCall(p)]
  <2>1. NoCall.at # "done" /\ Asked("initialize", None).at # "done" /\ Reply("initialize", None, told).result = told
    BY DEF NoCall, Asked, Reply
  <2>2. /\ page[p].init # "waiting" => init = NoCall
        /\ page[p].init = "waiting" =>
             init = Asked("initialize", None) \/ (script # "unknown" /\ init = Reply("initialize", None, told))
    BY PageParts DEF CallsOK
  <2> HIDE DEF told
  <2>3. page[p].init = "waiting" /\ script # "unknown" /\ init = Reply("initialize", None, told)
    BY <1>1, <2>1, <2>2
  <2>4. QED
    BY <2>1, <2>3 DEF told
<1>5. /\ hasPicker \in BOOLEAN /\ script \in {"ready", "failed"} /\ request \in Linked \cup {None}
      /\ root = None
  BY <1>4, PageParts DEF ViewerInv, SessionOK, FolderOK
<1>6. result = Failed <=> script = "failed"
  BY <1>4, <1>5, ViewerAssumption
<1>7. DOMAIN page' = ToSet(Pages) /\ page'[p] = new /\ \A q \in ToSet(Pages) \ {p} : page'[q] = page[q]
  BY <1>3, PageParts
<1>8. /\ page[p] \in [init : {"none", "waiting", "done", "failed"},
                pending : Linked \cup {None}, taken : Linked \cup {None}, unsupported : BOOLEAN,
                work : {page[p].work}, tried : BOOLEAN, broken : BOOLEAN, surprised : BOOLEAN]
      /\ page[p].pending # None => page[p].pending = page[p].taken
  BY PageParts DEF PageOK
<1>9. /\ Fields(new) /\ new.work = page[p].work
      /\ new.tried = page[p].tried /\ new.broken = page[p].broken /\ new.surprised = page[p].surprised
      /\ script = "failed" => new.init = "failed" /\ new.pending = page[p].pending /\ new.taken = page[p].taken
      /\ script = "ready" => new.init = "done" /\ new.pending = request /\ new.taken = request
  BY <1>5, <1>6, <1>8 DEF Fields
<1> HIDE DEF new, result
<1>10. page[p].work.at # "searching"
  BY <1>5, PageParts DEF FolderOK
<1>11. call'[WorkCall(p)] = call[WorkCall(p)]
  BY <1>2, PageParts
<1>12. PageInv(p)' /\ RendersFirst(p)'
  <2>1. PageOK(p)'
    BY <1>5, <1>7, <1>8, <1>9, PageParts DEF PageOK, Fields
  <2>2. CallsOK(p)' /\ ScriptOK(p)' /\ RequestOK(p)'
    BY <1>2, <1>5, <1>7, <1>9, <1>11, PageParts DEF CallsOK, ScriptOK, RequestOK
  <2>3. FolderOK(p)' /\ PathOK(p)'
    BY <1>2, <1>5, <1>7, <1>9, <1>11, PageParts DEF FolderOK, PathOK
  <2>4. RendersFirst(p)'
    BY <1>1, <1>7, <1>9, PageParts DEF RendersFirst
  <2>5. TriesPath(p)' /\ SearchOK(p)'
    BY <1>7, <1>9, <1>10 DEF TriesPath, SearchOK
  <2>6. QED
    BY <2>1, <2>2, <2>3, <2>4, <2>5 DEF PageInv
<1>13. ASSUME NEW q \in ToSet(Pages), q # p
       PROVE  PageInv(q)' /\ RendersFirst(q)'
  <2>1. page'[q] = page[q]
    BY <1>7, <1>13
  <2>2. call'[InitCall(q)] = call[InitCall(q)] /\ call'[WorkCall(q)] = call[WorkCall(q)]
    BY <1>2, <1>13, PageParts, Tags
  <2>3. RequestOK(q)'
    BY <1>1, <1>2, <1>4, <1>13, <2>1, PageParts DEF RequestOK
  <2>4. PathOK(q)'
    BY <1>1, <1>2, <1>5, <2>1, PageParts DEF PathOK
  <2>5. QED
    BY <1>1, <1>2, <2>1, <2>2, <2>3, <2>4, OtherKeeps
<1>14. SessionOK'
  <2>1. \A i \in (visited + 1)..Len(Pages) : Pages[i] # p
    BY <1>4, WasOpened
  <2>2. \A i \in (visited + 1)..Len(Pages) : page'[Pages[i]] = page[Pages[i]]
    <3>1. \A i \in (visited + 1)..Len(Pages) : i \in 1..Len(Pages)
      BY PagesFacts DEF ViewerInv, SessionOK
    <3>2. QED
      BY <1>7, <2>1, <3>1, PagesFacts
  <2>3. \A i \in 1..visited : page'[Pages[i]].init # "none"
    <3>1. \A i \in 1..visited : i \in 1..Len(Pages)
      BY PagesFacts DEF ViewerInv, SessionOK
    <3>2. \A i \in 1..visited : page[Pages[i]].init # "none" /\ Pages[i] \in ToSet(Pages)
      BY <3>1, PagesFacts DEF ViewerInv, SessionOK
    <3>3. QED
      BY <1>5, <1>7, <1>9, <3>2
  <2>4. root' # None => Known'
    BY <1>2, <1>5
  <2>5. ~ hasty' /\ script' # "failed" /\ request' # None => shown' # Elsewhere /\ page'[shown'].init = "waiting"
    BY <1>1, <1>2, <1>5, <1>6
  <2>6. request' \in Linked \cup {None}
    BY <1>1, <1>5
  <2>7. QED
    BY <1>1, <1>2, <1>7, <2>2, <2>3, <2>4, <2>5, <2>6 DEF ViewerInv, SessionOK
<1>15. RequestTaken'
  <2>1. script = "ready" => hasty \/ request = asked[p]
    BY <1>4, PageParts DEF RequestOK
  <2>2. page'[p].init = "done" => hasty' \/ page'[p].taken = asked'[p]
    BY <1>1, <1>5, <1>7, <1>9, <2>1
  <2>3. QED
    BY <1>1, <1>7, <2>2 DEF ViewerInv, RequestTaken
<1>16. QED
  BY <1>12, <1>13, <1>14, <1>15, FirstIsOfEach DEF ViewerInv

\* The page that is opened is a new one.
LEMMA NextPage ==
  ASSUME ViewerInv, visited < Len(Pages), NEW p, p = Pages[visited + 1]
  PROVE  /\ p \in ToSet(Pages) /\ page[p] = NewPage /\ asked[p] = None /\ p # Elsewhere
         /\ visited + 1 \in 1..Len(Pages) /\ \A i \in 1..Len(Pages) : Pages[i] = p => i = visited + 1
         /\ call[InitCall(p)] = NoCall /\ call[WorkCall(p)] = NoCall
<1>1. visited \in Nat /\ visited + 1 \in 1..Len(Pages) /\ visited + 1 \in (visited + 1)..Len(Pages)
  BY PagesFacts DEF ViewerInv, SessionOK
<1>2. p \in ToSet(Pages) /\ page[p] = NewPage /\ asked[p] = None
  BY <1>1, PagesFacts DEF ViewerInv, SessionOK
<1>3. page[p].init = "none" /\ page[p].work.at = "idle"
  BY <1>2 DEF NewPage, Nothing
<1>4. call[InitCall(p)] = NoCall /\ call[WorkCall(p)] = NoCall
  BY <1>2, <1>3, PageParts DEF CallsOK
<1>5. QED
  BY <1>1, <1>2, <1>4, PagesFacts, ViewerAssumption

\* A page is opened with a request: that of the link, or the one that is there.
LEMMA OpenKeeps ==
  ASSUME ViewerInv, shown = Elsewhere, visited < Len(Pages), NEW p, p = Pages[visited + 1],
         NEW requested \in Linked \cup {None}, Open(p, requested),
         asked' = asked \/ (\E path \in Linked : asked' = [asked EXCEPT ![p] = path]),
         ~ hasty /\ script # "failed" => asked'[p] = requested
  PROVE  ViewerInv'
<1> DEFINE after == page'[p]
<1>1. /\ p \in ToSet(Pages) /\ page[p] = NewPage /\ p # Elsewhere /\ visited + 1 \in 1..Len(Pages)
      /\ \A i \in 1..Len(Pages) : Pages[i] = p => i = visited + 1
      /\ call[InitCall(p)] = NoCall /\ call[WorkCall(p)] = NoCall
  BY NextPage
<1>2. /\ shown' = p /\ visited' = visited + 1 /\ hasty' = hasty
      /\ hasPicker' = hasPicker /\ script' = script /\ root' = root
  BY AssetsStay DEF Open, Ask
<1>3. /\ DOMAIN call' = Calls /\ \A c \in Calls \ {InitCall(p)} : call'[c] = call[c]
      /\ DOMAIN page' = ToSet(Pages) /\ \A q \in ToSet(Pages) \ {p} : page'[q] = page[q]
  BY AssetsStay, PageParts, <1>1 DEF Open, Ask, Become
<1>4. asked' \in [ToSet(Pages) -> Linked \cup {None}] /\ \A q \in ToSet(Pages) \ {p} : asked'[q] = asked[q]
  <2>1. asked \in [ToSet(Pages) -> Linked \cup {None}]
    BY DEF ViewerInv, SessionOK
  <2>2. QED
    BY <2>1, <1>1
<1>5. /\ after \in [init : {"none", "waiting", "done", "failed"},
                    pending : Linked \cup {None}, taken : Linked \cup {None}, unsupported : BOOLEAN,
                    work : {after.work}, tried : BOOLEAN, broken : BOOLEAN, surprised : BOOLEAN]
      /\ after.pending = after.taken /\ call'[WorkCall(p)] = NoCall
      /\ \/ /\ Known /\ after.init = "done" /\ after.taken = requested /\ request' = None
            /\ after.work = IF requested # None /\ root # None THEN Searching(requested) ELSE Nothing
            /\ call'[InitCall(p)] = NoCall
         \/ /\ ~ Known /\ after.init = "waiting" /\ after.work = Nothing /\ request' = requested
            /\ call'[InitCall(p)] = Asked("initialize", None)
  <2>1. call'[WorkCall(p)] = NoCall
    BY <1>1, <1>3, PageParts
  <2>2. hasPicker \in BOOLEAN
    BY DEF ViewerInv, SessionOK
  <2>3. CASE Known
    <3> DEFINE work == IF requested # None /\ root # None THEN Searching(requested) ELSE Nothing
    <3>1. /\ page' = [page EXCEPT ![p] = [NewPage EXCEPT
                        !.init = "done", !.pending = requested, !.taken = requested, !.unsupported = ~ hasPicker,
                        !.work = work]]
          /\ request' = None /\ call' = call
      BY <2>3, AssetsStay DEF Open
    <3> HIDE DEF work
    <3>2. after = [NewPage EXCEPT
                        !.init = "done", !.pending = requested, !.taken = requested, !.unsupported = ~ hasPicker,
                        !.work = work]
      BY <1>1, <3>1, PageParts
    <3>3. /\ after.init = "done" /\ after.pending = requested /\ after.taken = requested
          /\ after.unsupported \in BOOLEAN /\ after.work = work
          /\ after \in [init : {"none", "waiting", "done", "failed"},
                    pending : Linked \cup {None}, taken : Linked \cup {None}, unsupported : BOOLEAN,
                    work : {after.work}, tried : BOOLEAN, broken : BOOLEAN, surprised : BOOLEAN]
      BY <2>2, <3>2 DEF NewPage
    <3>4. QED
      BY <1>1, <2>1, <2>3, <3>1, <3>3 DEF work
  <2>4. CASE ~ Known
    <3>1. /\ page' = [page EXCEPT ![p].init = "waiting"]
          /\ request' = requested /\ call' = [call EXCEPT ![InitCall(p)] = Asked("initialize", None)]
      BY <2>4 DEF Open, Ask, Become
    <3>2. after = [NewPage EXCEPT !.init = "waiting"] /\ call'[InitCall(p)] = Asked("initialize", None)
      BY <1>1, <3>1, PageParts
    <3>3. /\ after.init = "waiting" /\ after.pending = None /\ after.taken = None /\ after.work = Nothing
          /\ after \in [init : {"none", "waiting", "done", "failed"},
                    pending : Linked \cup {None}, taken : Linked \cup {None}, unsupported : BOOLEAN,
                    work : {after.work}, tried : BOOLEAN, broken : BOOLEAN, surprised : BOOLEAN]
      BY <3>2 DEF NewPage
    <3>4. QED
      BY <2>1, <2>4, <3>1, <3>2, <3>3
  <2>5. QED
    BY <2>3, <2>4
<1> HIDE DEF after
<1>6. root # None => Known /\ root \in Roots
  BY DEF ViewerInv, SessionOK
<1>7. Known => script = "ready"
  BY PageParts DEF Known, ScriptOK
<1>8. requested # None => requested \in Given
  BY DEF Given
<1>9. PageInv(p)' /\ RendersFirst(p)'
  <2>1. after.work.at \in {"idle", "searching"} /\ (after.work.at = "idle" => after.work = Nothing)
    BY <1>5, <1>6, <1>8, SearchingFacts DEF Nothing
  <2>2. after.work.at = "searching" =>
          /\ root # None /\ requested # None /\ after.taken = requested /\ after.work.path = requested
          /\ after.work.left = Candidates(after.work.path) /\ after.work.left # <<>>
          /\ after.work.folders = {root}
          /\ after.work \in [at : {"searching"}, path : Given,
                             left : {Candidates(after.work.path), Tail(Candidates(after.work.path))}, folders : SUBSET Roots]
    BY <1>5, <1>6, <1>8, SearchingFacts DEF Nothing
  <2>3. page'[p] = after
    BY DEF after
  <2>4. PageOK(p)'
    BY <1>5, <2>1, <2>2, <2>3 DEF PageOK
  <2>5. CallsOK(p)' /\ ScriptOK(p)'
    BY <1>2, <1>5, <1>7, <2>1, <2>3 DEF CallsOK, ScriptOK
  <2>6. FolderOK(p)'
    BY <1>2, <1>5, <1>6, <2>2, <2>3 DEF FolderOK, NoCall, Reply
  <2>7. RequestOK(p)'
    BY <1>2, <1>5, <2>3 DEF RequestOK
  <2>9. TriesPath(p)' /\ SearchOK(p)' /\ RendersFirst(p)'
    BY <1>2, <1>5, <2>1, <2>2, <2>3 DEF TriesPath, SearchOK, RendersFirst, NoCall
  <2>10. PathOK(p)'
    <3>1. root # None /\ requested # None => after.work.at = "searching"
      BY <1>5, <1>6, <1>8, SearchingFacts
    <3>2. QED
      BY <1>2, <1>5, <1>6, <2>2, <2>3, <3>1 DEF PathOK, AboutToSearch
  <2>11. QED
    BY <2>4, <2>5, <2>6, <2>7, <2>9, <2>10 DEF PageInv
<1>10. ASSUME NEW q \in ToSet(Pages), q # p
       PROVE  PageInv(q)' /\ RendersFirst(q)'
  <2>1. page'[q] = page[q]
    BY <1>3, <1>10
  <2>2. call'[InitCall(q)] = call[InitCall(q)] /\ call'[WorkCall(q)] = call[WorkCall(q)]
    BY <1>3, <1>10, PageParts, Tags
  <2>3. RequestOK(q)'
    <3>1. shown # q
      BY ViewerAssumption
    <3>2. QED
      BY <1>2, <2>1, <3>1, PageParts DEF RequestOK
  <2>5. PathOK(q)'
    <3>1. q # Pages[visited']
      BY <1>2, <1>10
    <3>2. QED
      BY <3>1 DEF PathOK
  <2>6. QED
    BY <1>2, <2>1, <2>2, <2>3, <2>5, OtherKeeps
<1>11. SessionOK'
  <2>1. visited \in Nat /\ Len(Pages) \in Nat
    BY PagesFacts DEF ViewerInv, SessionOK
  <2>2. \A i \in 1..visited' : page'[Pages[i]].init # "none"
    <3>1. \A i \in 1..visited' : i \in 1..Len(Pages) /\ (i = visited + 1 \/ i \in 1..visited)
      BY <1>1, <1>2, <2>1
    <3>2. \A i \in 1..visited : page[Pages[i]].init # "none"
      BY DEF ViewerInv, SessionOK
    <3>3. page'[p].init # "none"
      BY <1>5 DEF after
    <3>4. \A i \in 1..visited : page'[Pages[i]] = page[Pages[i]]
      <4>1. \A i \in 1..visited : i \in 1..Len(Pages) /\ i # visited + 1
        BY <1>1, <2>1
      <4>2. QED
        BY <1>1, <1>3, <4>1, PagesFacts
    <3>5. QED
      BY <3>1, <3>2, <3>3, <3>4
  <2>3. \A i \in (visited' + 1)..Len(Pages) : page'[Pages[i]] = NewPage /\ asked'[Pages[i]] = None
    <3>1. \A i \in (visited' + 1)..Len(Pages) : i \in (visited + 1)..Len(Pages) /\ i \in 1..Len(Pages) /\ i # visited + 1
      BY <1>2, <2>1
    <3>2. \A i \in (visited + 1)..Len(Pages) : page[Pages[i]] = NewPage /\ asked[Pages[i]] = None
      BY DEF ViewerInv, SessionOK
    <3>3. QED
      BY <1>1, <1>3, <1>4, <3>1, <3>2, PagesFacts
  <2>4. root' # None => Known'
    <3>1. root' # None => page'[p].init = "done"
      BY <1>2, <1>5, <1>6 DEF after
    <3>2. QED
      BY <1>1, <3>1 DEF Known
  <2>5. ~ hasty' /\ script' # "failed" /\ request' # None => shown' # Elsewhere /\ page'[shown'].init = "waiting"
    BY <1>1, <1>2, <1>5 DEF after
  <2>6. visited' \in 0..Len(Pages) /\ visited' > 0 /\ shown' = Pages[visited']
    BY <1>1, <1>2, <2>1
  <2>7. request' \in Linked \cup {None}
    BY <1>2, <1>5 DEF ViewerInv, SessionOK
  <2>8. QED
    BY <1>2, <1>3, <1>4, <2>2, <2>3, <2>4, <2>5, <2>6, <2>7 DEF ViewerInv, SessionOK
<1>12. RequestTaken'
  <2>1. page'[p].init = "done" => hasty' \/ page'[p].taken = asked'[p]
    BY <1>2, <1>5, <1>7 DEF after
  <2>2. QED
    BY <1>2, <1>3, <1>4, <2>1 DEF ViewerInv, RequestTaken
<1>13. QED
  BY <1>9, <1>10, <1>11, <1>12, FirstIsOfEach DEF ViewerInv

LEMMA ViewKeeps ==
  ASSUME ViewerInv, NEW path \in Linked, View(path)
  PROVE  ViewerInv'
<1> DEFINE p == Pages[visited + 1]
<1>1. /\ shown = Elsewhere /\ visited < Len(Pages)
      /\ Open(p, path) /\ asked' = [asked EXCEPT ![p] = path]
  BY DEF View
<1> HIDE DEF p
<1>2. p \in ToSet(Pages)
  BY <1>1, NextPage DEF p
<1>3. asked'[p] = path
  BY <1>1, <1>2 DEF ViewerInv, SessionOK
<1>4. QED
  BY <1>1, <1>3, OpenKeeps DEF p

\* No request waits while no viewer page is shown.
LEMMA VisitKeeps ==
  ASSUME ViewerInv, Visit
  PROVE  ViewerInv'
<1> DEFINE p == Pages[visited + 1]
<1>1. shown = Elsewhere /\ visited < Len(Pages) /\ Open(p, request) /\ asked' = asked
  BY DEF Visit
<1> HIDE DEF p
<1>2. asked[p] = None
  BY <1>1, NextPage DEF p
<1>3. request \in Linked \cup {None} /\ (~ hasty /\ script # "failed" => request = None)
  BY <1>1 DEF ViewerInv, SessionOK
<1>4. QED
  BY <1>1, <1>2, <1>3, OpenKeeps DEF p

-----------------------------------------------------------------------------
(* The invariant                                                           *)

LEMMA InitHolds == ViewerInit => ViewerInv
<1> SUFFICES ASSUME ViewerInit
             PROVE  ViewerInv
  OBVIOUS
<1>1. /\ hasPicker \in BOOLEAN /\ script = "unknown" /\ root = None
      /\ call = [c \in Calls |-> NoCall]
      /\ shown = Elsewhere /\ visited = 0 /\ request = None
      /\ page = [p \in ToSet(Pages) |-> NewPage] /\ asked = [p \in ToSet(Pages) |-> None]
      /\ hasty = FALSE
  BY DEF ViewerInit, AssetInit
<1>2. /\ NewPage.init = "none" /\ NewPage.pending = None /\ NewPage.taken = None
      /\ NewPage.work = Nothing /\ Nothing.at = "idle" /\ NoCall.at = "free"
      /\ NewPage \in [init : {"none", "waiting", "done", "failed"},
                      pending : Linked \cup {None}, taken : Linked \cup {None}, unsupported : BOOLEAN,
                      work : {Nothing}, tried : BOOLEAN, broken : BOOLEAN, surprised : BOOLEAN]
  BY DEF NewPage, Nothing, NoCall
<1>3. ASSUME NEW p \in ToSet(Pages)
      PROVE  PageInv(p) /\ RendersFirst(p)
  <2>1. page[p] = NewPage /\ call[InitCall(p)] = NoCall /\ call[WorkCall(p)] = NoCall
    BY <1>1, ViewerAssumption DEF InitCall, WorkCall
  <2>2. PageOK(p) /\ CallsOK(p) /\ ScriptOK(p)
    BY <1>1, <1>2, <2>1 DEF PageOK, CallsOK, ScriptOK
  <2>3. FolderOK(p) /\ RequestOK(p)
    BY <1>1, <1>2, <2>1 DEF FolderOK, RequestOK, Reply
  <2>4. TriesPath(p) /\ PathOK(p) /\ SearchOK(p) /\ RendersFirst(p)
    BY <1>1, <1>2, <2>1 DEF TriesPath, PathOK, SearchOK, RendersFirst
  <2>5. QED
    BY <2>2, <2>3, <2>4 DEF PageInv
<1>4. SessionOK
  <2>1. \A i \in 1..Len(Pages) : page[Pages[i]] = NewPage /\ asked[Pages[i]] = None
    BY <1>1, PagesFacts
  <2>2. 0 \in 0..Len(Pages) /\ \A i \in 1..0 : FALSE
    BY PagesFacts
  <2>3. DOMAIN call = Calls /\ DOMAIN page = ToSet(Pages) /\ asked \in [ToSet(Pages) -> Linked \cup {None}]
    BY <1>1
  <2>4. (visited + 1)..Len(Pages) = 1..Len(Pages)
    BY <1>1
  <2>5. /\ visited \in 0..Len(Pages) /\ \A i \in 1..visited : page[Pages[i]].init # "none"
        /\ \A i \in (visited + 1)..Len(Pages) : page[Pages[i]] = NewPage /\ asked[Pages[i]] = None
    BY <1>1, <2>1, <2>2, <2>4
  <2>6. hasPicker \in BOOLEAN /\ hasty \in BOOLEAN
    BY <1>1
  <2>7. QED
    BY <1>1, <2>3, <2>5, <2>6 DEF SessionOK
<1>5. RequestTaken
  BY <1>1, <1>2 DEF RequestTaken
<1>6. QED
  BY <1>3, <1>4, <1>5, FirstIsOfEach DEF ViewerInv

LEMMA NextKeeps == ViewerInv /\ [ViewerNext]_vars => ViewerInv'
<1> SUFFICES ASSUME ViewerInv, [ViewerNext]_vars
             PROVE  ViewerInv'
  OBVIOUS
<1>1. ASSUME NEW path \in Linked, View(path) PROVE ViewerInv'
  BY <1>1, ViewKeeps
<1>2. CASE Visit
  BY <1>2, VisitKeeps
<1>3. CASE GoElsewhere
  BY <1>3, GoElsewhereKeeps
<1>4. ASSUME NEW p \in ToSet(Pages), Pick(p) PROVE ViewerInv'
  BY <1>4, PickKeeps
<1>5. ASSUME NEW p \in ToSet(Pages), OpenNif(p) PROVE ViewerInv'
  BY <1>5, OpenNifKeeps
<1>6. ASSUME NEW p \in ToSet(Pages), NEW path \in Typed, LoadPath(p, path) PROVE ViewerInv'
  BY <1>6, LoadPathKeeps
<1>7. ASSUME NEW p \in ToSet(Pages), Initialize(p) PROVE ViewerInv'
  BY <1>7, InitializeKeeps
<1>8. ASSUME NEW p \in ToSet(Pages), WorkStep(p) PROVE ViewerInv'
  BY <1>8, PickEndedKeeps, SearchKeeps, SearchedKeeps, RenderedKeeps DEF WorkStep
<1>9. ASSUME NEW c \in Calls, Answered(c) PROVE ViewerInv'
  BY <1>9, AnsweredKeeps
<1>10. CASE ScriptLoaded
  BY <1>10, ScriptLoadedKeeps
<1>11. CASE UNCHANGED vars
  <2>1. /\ hasPicker' = hasPicker /\ script' = script /\ root' = root /\ call' = call
        /\ shown' = shown /\ visited' = visited /\ request' = request /\ asked' = asked
        /\ hasty' = hasty /\ page' = page
    BY <1>11 DEF vars, viewer, assets
  <2>2. UNCHANGED Session
    BY <2>1 DEF Session
  <2>3. \A q \in ToSet(Pages) : PageInv(q)' /\ RendersFirst(q)'
    BY <2>1, <2>2, PageStays, PageParts
  <2>4. SessionOK'
    BY <2>1 DEF ViewerInv, SessionOK, Known
  <2>5. RequestTaken'
    BY <2>1 DEF ViewerInv, RequestTaken
  <2>6. QED
    BY <2>3, <2>4, <2>5, FirstIsOfEach DEF ViewerInv
<1>12. QED
  BY <1>1, <1>2, <1>3, <1>4, <1>5, <1>6, <1>7, <1>8, <1>9, <1>10, <1>11 DEF ViewerNext, UserStep

\* What is said of the session, of each page and of its calls holds throughout.
THEOREM ViewerInvariant == ViewerSpec => []ViewerInv
  BY InitHolds, NextKeeps, PTL DEF ViewerSpec

\* A page takes the path that View opened it for, and searches for it as soon as
\* there is a folder (OnInitializedAsync, PickDataRootAsync, LoadModelAsync):
\* whatever the service answers, unless a page was left before it was initialized,
\* a pick threw, or the first folder was picked by a page left with its picker open.
THEOREM RequestIsServed == ViewerSpec => []RequestServed
<1>1. ViewerInv => PathSearchedFor
  <2> SUFFICES ASSUME ViewerInv, NEW p \in ToSet(Pages),
                      shown = p, ~ Loading(p), page[p].pending # None, root # None
               PROVE  page[p].surprised \/ page[p].broken \/ page[p].tried
    BY DEF PathSearchedFor
  <2>1. visited > 0 /\ p = Pages[visited]
    BY ShownFacts, ViewerAssumption
  <2>2. ~ AboutToSearch(p)
    BY IdleFacts DEF AboutToSearch
  <2>3. QED
    BY <2>1, <2>2, PageParts DEF PathOK
<1>2. ViewerInv => RequestServed
  BY <1>1 DEF ViewerInv, RequestServed
<1>3. QED
  BY <1>2, ViewerInvariant, PTL

\* What is rendered is the first of its candidates (LoadModelAsync), whatever the
\* service answers and whenever a folder is picked: those before it were missed, and
\* it was found, in folders of the session while it was searched for, which are one
\* unless a page that was left with its picker open picked another meanwhile.
THEOREM RendersFirstFound == ViewerSpec => []FirstFound
<1>1. ViewerInv => FirstFound
  BY DEF ViewerInv
<1>2. QED
  BY <1>1, ViewerInvariant, PTL
=============================================================================
