-------------------------- MODULE PageCacheHistory --------------------------
(***************************************************************************)
(* PageCache with a history variable: every page a read was handed so far, *)
(* last use first.  It is what "evicted least-recently-used" is about; the *)
(* code does not keep it.                                                  *)
(***************************************************************************)
EXTENDS PageCache

VARIABLE used

\* A read is handed the page of its position.
Uses(r) == Hit(r) \/ Loaded(r)

HistoryInit == Init /\ used = <<>>

HistoryNext ==
  \/ \E r \in Readers :
       /\ Uses(r)
       /\ used' = Cons(PageIndex(r), RemoveFirst(used, PageIndex(r)))
  \/ /\ Next
     /\ \A r \in Readers : ~ Uses(r)
     /\ UNCHANGED used

HistorySpec == HistoryInit /\ [][HistoryNext]_<<vars, used>>

HistoryFairSpec == HistorySpec /\ \A r \in Readers : WF_vars(Advance(r))

\* CachingDataSource.cs:6, "Pages are evicted least-recently-used": the cache
\* holds the most recently used pages and no others, in order of use, whichever
\* reads used them.
HoldsMostRecent ==
  [i \in 1..Len(recency) |-> recency[i].index]
    = SubSeq(used, 1, MinOf(MaxPages, Len(used)))

\* The strengthening that makes it inductive, with IInv: a page is in the history once.
UsedOnce ==
  /\ used \in Seq(Nat)
  /\ \A i, j \in 1..Len(used) : used[i] = used[j] => i = j

HistoryInv == IInv /\ UsedOnce /\ HoldsMostRecent
=============================================================================
