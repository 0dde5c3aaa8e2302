---------------------------- MODULE MCPageCache -----------------------------
(***************************************************************************)
(* A small instance of PageCache: a file of five bytes in pages of two     *)
(* (the last page is short), a cache of two pages, so that a third one     *)
(* evicts.                                                                 *)
(***************************************************************************)
EXTENDS PageCacheHistory

CONSTANTS r1, r2

TwoReaders == {r1, r2}

\* Byte o of the file is o: any misplaced byte shows.
MCContent == [o \in 0..(FileLength - 1) |-> o]

Bytes(offset, count) == [offset |-> offset, count |-> count]

\* Whole file; inside one page; across two pages; the short last page; past
\* the end; empty.
MCRequests ==
  {Bytes(0, 5), Bytes(1, 1), Bytes(1, 2), Bytes(4, 1), Bytes(4, 2), Bytes(5, 0)}
=============================================================================
