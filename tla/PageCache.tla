----------------------------- MODULE PageCache ------------------------------
(***************************************************************************)
(* IO/CachingDataSource.cs: a page cache in front of a slow IDataSource.   *)
(*                                                                         *)
(* Many reads may be under way.  Each one loops over the pages of its      *)
(* range; every page is looked up, or loaded and evicted, under an         *)
(* asynchronous gate (SemaphoreSlim(1, 1)), and copied to the caller's     *)
(* buffer after the gate is released.  DisposeAsync does not take the      *)
(* gate, so it may run in the middle of any of this.                       *)
(***************************************************************************)
EXTENDS AsyncGate

CONSTANTS
  Readers,      \* the concurrent callers of ReadExactlyAsync
  FileLength,   \* Length of the inner source
  Content,      \* its bytes, by offset
  Blank,        \* what a destination buffer holds before it is filled
  PageSize,     \* _pageSize
  MaxPages,     \* _maxPages
  Requests      \* the [offset, count] ranges the callers ask for

ASSUME CacheAssumption ==
  /\ NoOne \notin Readers
  /\ FileLength \in Nat
  /\ DOMAIN Content = 0..(FileLength - 1)
  /\ PageSize \in Nat \ {0}
  /\ MaxPages \in Nat \ {0}
  /\ Requests \subseteq [offset : Nat, count : Nat]

VARIABLES
  pagesByIndex, \* _pagesByIndex: page index -> the cached page
  recency,      \* _recency: the cached pages, most recently used first
  life,         \* the cache itself: open, disposing (its source), disposed
  pc,           \* where each read is
  call,         \* offset and destination.Length of each read
  copied,       \* bytes copied so far
  dest,         \* the destination buffers
  page,         \* the page GetPageAsync returned to each read
  reply         \* how each reader's last read ended

cache == <<pagesByIndex, recency>>
reads == <<call, copied, dest, page>>
vars  == <<cache, gate, life, pc, reads, reply>>

NoPage == [index |-> -1, data |-> <<>>]

-----------------------------------------------------------------------------
(* Pages                                                                   *)

Position(r)     == call[r].offset + copied[r]
PageIndex(r)    == Position(r) \div PageSize
OffsetInPage(r) == Position(r) - PageIndex(r) * PageSize

MinOf(a, b) == IF a < b THEN a ELSE b

\* The last page of a file may be short.
PageLength(p) == MinOf(PageSize, FileLength - p * PageSize)

\* What a complete read of page p from the inner source yields.
LoadedPage(p) ==
  [index |-> p,
   data  |-> [i \in 1..PageLength(p) |-> Content[p * PageSize + i - 1]]]

\* Mutant of MoveToFront: a hit does not count as a use.
StayInPlace(s, i) == s

MoveToFront(s, i) == Cons(s[i], RemoveAt(s, i))

\* AddFirst, index the page, and evict the oldest page if there are too many.
CacheWith(new) ==
  LET index == [p \in DOMAIN pagesByIndex \cup {new.index} |->
                  IF p = new.index THEN new ELSE pagesByIndex[p]]
      order == Cons(new, recency)
  IN  IF Len(order) > MaxPages
      THEN /\ recency' = Front(order)
           /\ pagesByIndex' =
                [p \in DOMAIN index \ {Last(order).index} |-> index[p]]
      ELSE /\ recency' = order
           /\ pagesByIndex' = index

-----------------------------------------------------------------------------
(* The gate                                                                *)

\* WaitAsync: take the gate, wait for it, or throw because the gate was disposed
\* or the read is already cancelled.
Arrive(r) ==
  \/ /\ life = "disposed"
     /\ pc' = [pc EXCEPT ![r] = "idle"]
     /\ reply' = [reply EXCEPT ![r] = "disposed"]
     /\ UNCHANGED gate
  \/ /\ life # "disposed"
     /\ pc' = [pc EXCEPT ![r] = "idle"]
     /\ reply' = [reply EXCEPT ![r] = "cancelled"]
     /\ UNCHANGED gate
  \/ /\ life # "disposed"
     /\ \/ Take(r) /\ pc' = [pc EXCEPT ![r] = "granted"]
        \/ Join(r) /\ pc' = [pc EXCEPT ![r] = "waiting"]
     /\ reply' = [reply EXCEPT ![r] = "none"]

\* Release in the finally block: the first waiter resumes, and the read goes on
\* to `then` with the outcome `ans`.  Releasing a disposed gate throws, whatever
\* the outcome was.
Release(r, then, ans) ==
  /\ PassOn
  /\ \/ /\ life = "disposed"
        /\ pc' = [pc EXCEPT ![r] = "idle"]
        /\ reply' = [reply EXCEPT ![r] = "disposed"]
     \/ /\ life # "disposed"
        /\ pc' = [q \in Readers |-> IF q = r THEN then
                                   ELSE IF q = NextInLine THEN "granted"
                                   ELSE pc[q]]
        /\ reply' = [reply EXCEPT ![r] = ans]

-----------------------------------------------------------------------------
(* The steps of a read                                                     *)

\* ReadExactlyAsync up to its first await.
Call(r, req) ==
  /\ pc[r] = "idle"
  /\ call' = [call EXCEPT ![r] = req]
  /\ copied' = [copied EXCEPT ![r] = 0]
  /\ dest' = [dest EXCEPT ![r] = [i \in 0..(req.count - 1) |-> Blank]]
  /\ page' = [page EXCEPT ![r] = NoPage]
  /\ \/ /\ req.offset + req.count > FileLength
        /\ reply' = [reply EXCEPT ![r] = "range"]
        /\ UNCHANGED <<pc, gate>>
     \/ /\ req.offset + req.count <= FileLength
        /\ req.count = 0
        /\ reply' = [reply EXCEPT ![r] = "ok"]
        /\ UNCHANGED <<pc, gate>>
     \/ /\ req.offset + req.count <= FileLength
        /\ req.count > 0
        /\ Arrive(r)
  /\ UNCHANGED <<cache, life>>

\* Mutant of Hit: the most recent page is handed out, whichever it is.
HitTakesFirst(r) ==
  /\ pc[r] = "granted"
  /\ PageIndex(r) \in DOMAIN pagesByIndex
  /\ page' = [page EXCEPT ![r] = Head(recency)]
  /\ Release(r, "copying", "none")
  /\ UNCHANGED <<cache, life, call, copied, dest>>

\* The page is cached: it becomes the most recent one.
Hit(r) ==
  /\ pc[r] = "granted"
  /\ PageIndex(r) \in DOMAIN pagesByIndex
  /\ \E i \in 1..Len(recency) :
       /\ recency[i].index = PageIndex(r)
       /\ recency' = MoveToFront(recency, i)
  /\ page' = [page EXCEPT ![r] = pagesByIndex[PageIndex(r)]]
  /\ Release(r, "copying", "none")
  /\ UNCHANGED <<pagesByIndex, life, call, copied, dest>>

\* The page is not cached: the read of the inner source starts.
Miss(r) ==
  /\ pc[r] = "granted"
  /\ PageIndex(r) \notin DOMAIN pagesByIndex
  /\ pc' = [pc EXCEPT ![r] = "loading"]
  /\ UNCHANGED <<cache, gate, life, reads, reply>>

Loaded(r) ==
  /\ pc[r] = "loading"
  /\ CacheWith(LoadedPage(PageIndex(r)))
  /\ page' = [page EXCEPT ![r] = LoadedPage(PageIndex(r))]
  /\ Release(r, "copying", "none")
  /\ UNCHANGED <<life, call, copied, dest>>

\* Mutants of LoadFailed: the gate is not released; the error is swallowed.
LoadFailedKeepsGate(r, kind) ==
  /\ pc[r] = "loading"
  /\ pc' = [pc EXCEPT ![r] = "idle"]
  /\ reply' = [reply EXCEPT ![r] = kind]
  /\ UNCHANGED <<cache, gate, life, reads>>

LoadFailedUnnoticed(r, kind) ==
  /\ pc[r] = "loading"
  /\ Release(r, "idle", "ok")
  /\ UNCHANGED <<cache, life, reads>>

\* The inner read returns an error, or throws because it was cancelled: nothing
\* is cached.
LoadFailed(r, kind) ==
  /\ pc[r] = "loading"
  /\ Release(r, "idle", kind)
  /\ UNCHANGED <<cache, life, reads>>

\* Cancelled while it waits: it leaves the queue and never held the gate.
CancelWait(r) ==
  /\ pc[r] = "waiting"
  /\ Withdraw(r)
  /\ pc' = [pc EXCEPT ![r] = "idle"]
  /\ reply' = [reply EXCEPT ![r] = "cancelled"]
  /\ UNCHANGED <<cache, life, reads>>

\* The body of the loop after GetPageAsync, up to the next await or the return.
Copy(r) ==
  LET available == Len(page[r].data) - OffsetInPage(r)
      toCopy    == MinOf(available, call[r].count - copied[r])
  IN
  /\ pc[r] = "copying"
  /\ \/ /\ available <= 0
        /\ pc' = [pc EXCEPT ![r] = "idle"]
        /\ reply' = [reply EXCEPT ![r] = "short"]
        /\ UNCHANGED <<gate, copied, dest>>
     \/ /\ available > 0
        /\ dest' = [dest EXCEPT ![r] =
             [i \in 0..(call[r].count - 1) |->
                IF i \in copied[r]..(copied[r] + toCopy - 1)
                THEN page[r].data[OffsetInPage(r) + i - copied[r] + 1]
                ELSE dest[r][i]]]
        /\ copied' = [copied EXCEPT ![r] = copied[r] + toCopy]
        /\ \/ /\ copied[r] + toCopy < call[r].count
              /\ Arrive(r)
           \/ /\ copied[r] + toCopy >= call[r].count
              /\ pc' = [pc EXCEPT ![r] = "idle"]
              /\ reply' = [reply EXCEPT ![r] = "ok"]
              /\ UNCHANGED gate
  /\ UNCHANGED <<cache, life, call, page>>

-----------------------------------------------------------------------------
(* DisposeAsync: the inner source first, then the gate.  A disposed        *)
(* semaphore forgets its waiters, which never resume.  (With disposeInner  *)
(* false the two steps follow each other with nothing in between.)         *)

DisposeInner ==
  /\ life = "open"
  /\ life' = "disposing"
  /\ UNCHANGED <<cache, gate, pc, reads, reply>>

DisposeGate ==
  /\ life = "disposing"
  /\ life' = "disposed"
  /\ ForgetWaiters
  /\ pc' = [r \in Readers |-> IF pc[r] = "waiting" THEN "orphaned" ELSE pc[r]]
  /\ UNCHANGED <<cache, reads, reply>>

-----------------------------------------------------------------------------
Init ==
  /\ pagesByIndex = [p \in {} |-> NoPage]
  /\ recency = <<>>
  /\ GateInit
  /\ life = "open"
  /\ pc = [r \in Readers |-> "idle"]
  /\ call = [r \in Readers |-> [offset |-> 0, count |-> 0]]
  /\ copied = [r \in Readers |-> 0]
  /\ dest = [r \in Readers |-> [i \in {} |-> Blank]]
  /\ page = [r \in Readers |-> NoPage]
  /\ reply = [r \in Readers |-> "none"]

LoadEnds(r) == Loaded(r) \/ \E kind \in {"io", "cancelled"} : LoadFailed(r, kind)

Advance(r) == Hit(r) \/ Miss(r) \/ LoadEnds(r) \/ Copy(r)

Read(r) == Advance(r) \/ CancelWait(r) \/ \E req \in Requests : Call(r, req)

Dispose == DisposeInner \/ DisposeGate

Next == (\E r \in Readers : Read(r)) \/ Dispose

Spec == Init /\ [][Next]_vars

\* Scheduled continuations run and the browser or the disk answers a read,
\* with data or with an error; nobody has to call, cancel or dispose.
FairSpec == Spec /\ \A r \in Readers : WF_vars(Advance(r))

-----------------------------------------------------------------------------
(* Properties                                                              *)

Byte == {Content[o] : o \in DOMAIN Content}

Page == [index : Int, data : Seq(Byte)]

PC == {"idle", "waiting", "granted", "loading", "copying", "orphaned"}

Reply == {"none", "ok", "range", "short", "io", "cancelled", "disposed"}

\* Every variable has its type (the fields of CachingDataSource and the locals
\* of its two asynchronous methods).
TypeOK ==
  /\ \A p \in DOMAIN pagesByIndex : p \in Nat /\ pagesByIndex[p] \in Page
  /\ recency \in Seq(Page)
  /\ holder \in Readers \cup {NoOne}
  /\ queue \in Seq(Readers)
  /\ life \in {"open", "disposing", "disposed"}
  /\ pc \in [Readers -> PC]
  /\ call \in [Readers -> [offset : Nat, count : Nat]]
  /\ copied \in [Readers -> Nat]
  /\ DOMAIN dest = Readers
  /\ \A r \in Readers : dest[r] \in [0..(call[r].count - 1) -> Byte \cup {Blank}]
  /\ page \in [Readers -> Page]
  /\ reply \in [Readers -> Reply]

\* The gate is held by exactly the read that is between WaitAsync and the
\* finally block of GetPageAsync, and the queue is exactly the waiting reads,
\* each once: however reads fail, are cancelled or the cache is disposed, the
\* gate is neither lost nor handed to two reads.
GateAgrees ==
  /\ \A r \in Readers : holder = r <=> pc[r] \in {"granted", "loading"}
  /\ \A i \in 1..Len(queue) : pc[queue[i]] = "waiting"
  /\ \A r \in Readers : pc[r] = "waiting" => \E i \in 1..Len(queue) : queue[i] = r
  /\ \A i, j \in 1..Len(queue) : queue[i] = queue[j] => i = j
  /\ queue # <<>> => holder # NoOne
  /\ life = "disposed" => queue = <<>>

\* The dictionary and the recency list of CachingDataSource always describe the
\* same pages, each once, and never more than maxPages of them.
ListsAgree ==
  /\ \A p \in DOMAIN pagesByIndex :
       \E i \in 1..Len(recency) : recency[i].index = p
  /\ \A i \in 1..Len(recency) :
       /\ recency[i].index \in DOMAIN pagesByIndex
       /\ pagesByIndex[recency[i].index] = recency[i]
  /\ \A i, j \in 1..Len(recency) : recency[i].index = recency[j].index => i = j
  /\ Len(recency) <= MaxPages

\* A cached page is a page of the file, with the file's bytes.
PagesCorrect ==
  \A p \in DOMAIN pagesByIndex : p * PageSize < FileLength /\ pagesByIndex[p] = LoadedPage(p)

\* A read that succeeds has filled its buffer with exactly the bytes of its
\* range, whatever other reads loaded or evicted between its pages
\* (ReadExactlyAsync).
ExactRead ==
  \A r \in Readers :
    reply[r] = "ok" => dest[r] = [i \in 0..(call[r].count - 1) |-> Content[call[r].offset + i]]

\* The "source returned a short page" error of ReadExactlyAsync never fires
\* over a source that keeps the IDataSource contract: the position is always
\* inside the page, the last and shorter one included.
NeverShort == \A r \in Readers : reply[r] # "short"

\* The state of a read, at every step of its loop: what it has copied so far is
\* right; while it is under way it has not replied, has more to copy and stays
\* inside the file; and the page it was handed is the one its position is on.
\* (With the invariants above, this is what makes ExactRead and NeverShort
\* inductive.)
ReadConsistent(r) ==
  /\ copied[r] <= call[r].count
  /\ \A i \in 0..(copied[r] - 1) : dest[r][i] = Content[call[r].offset + i]
  /\ pc[r] # "idle" => /\ reply[r] = "none"
                       /\ copied[r] < call[r].count
                       /\ call[r].offset + call[r].count <= FileLength
  /\ pc[r] = "copying" => page[r] = LoadedPage(PageIndex(r))
  /\ reply[r] = "ok" => copied[r] = call[r].count

ReadsConsistent == \A r \in Readers : ReadConsistent(r)

\* A page is fetched from the inner source only while it is not cached: of two
\* reads that want the same page, the second finds it (GetPageAsync keeps the
\* gate while it loads).
LoadsOnce ==
  \A r \in Readers : pc[r] = "loading" => PageIndex(r) \notin DOMAIN pagesByIndex

IInv ==
  /\ TypeOK /\ GateAgrees /\ ListsAgree /\ PagesCorrect
  /\ LoadsOnce /\ ReadsConsistent /\ NeverShort

\* A read under way returns, unless the cache is disposed under it: the gate is
\* passed on after every outcome, so no failure or cancellation blocks the
\* readers behind it.
ReadsReturn ==
  \A r \in Readers : pc[r] # "idle" ~> pc[r] = "idle" \/ life = "disposed"

\* The cache is a data source: it implements IDataSource over the same bytes.
Source == INSTANCE DataSource WITH
  asked   <- call,
  pending <- {r \in Readers : pc[r] # "idle"},
  reply   <- [r \in Readers |->
                [kind  |-> reply[r],
                 bytes |-> IF reply[r] = "ok" THEN dest[r] ELSE [i \in {} |-> i]]]

\* Every step of the cache is a step of an IDataSource or changes nothing a
\* caller can see.
ImplementsSource == Source!Spec
=============================================================================
