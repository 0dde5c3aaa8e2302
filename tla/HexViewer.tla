------------------------------ MODULE HexViewer ------------------------------
(***************************************************************************)
(* Components/HexViewer.razor: one page at a time of the bytes of a node.  *)
(* Changing the node or the page starts a read of the new page; a read     *)
(* that was already under way still stores its bytes when it returns.      *)
(***************************************************************************)
EXTENDS NodeDetails

CONSTANTS
  WindowOf,    \* Offset and TotalSize of each node
  PluginOf,    \* the plugin of each node
  PageSize     \* PageSize

ASSUME HexAssumption ==
  /\ PageSize \in Nat \ {0}
  /\ DOMAIN PluginOf = PaneNodes
  /\ \A n \in PaneNodes : WindowOf[n] \in [start : Nat, length : Nat \ {0}]

VARIABLES
  plugin, window,  \* the parameters Plugin and (StartOffset, TotalLength)
  loadedWindow,    \* _loadedWindow
  pageIndex,       \* _pageIndex
  bytes,           \* _bytes: the range they were read from
  error,           \* _error: the range whose read failed
  pageReads,       \* the ranges whose ReadBytesAsync is under way
  pageOvertaken    \* history: the last of them to start returned before an earlier one

hex == <<plugin, window, loadedWindow, pageIndex, bytes, error, pageReads, pageOvertaken>>

NoWindow == [start |-> -1, length |-> -1]

MinOf(a, b) == IF a < b THEN a ELSE b
MaxOf(a, b) == IF a > b THEN a ELSE b

PageCount(w) == (w.length + PageSize - 1) \div PageSize

\* WindowStart and WindowEnd of a page.
PageRange(p, w, i) ==
  [plugin |-> p,
   from   |-> w.start + i * PageSize,
   to     |-> MinOf(w.start + (i + 1) * PageSize, w.start + w.length)]

\* LoadPageAsync up to its await.
LoadPage(p, w, i) ==
  /\ Len(pageReads) < MaxReads
  /\ bytes' = Nothing
  /\ error' = Nothing
  /\ pageReads' = Append(pageReads, PageRange(p, w, i))
  /\ pageOvertaken' = FALSE

HexInit ==
  /\ plugin = Nothing
  /\ window = NoWindow
  /\ loadedWindow = NoWindow
  /\ pageIndex = 0
  /\ bytes = Nothing
  /\ error = Nothing
  /\ pageReads = <<>>
  /\ pageOvertaken = FALSE

\* The component is removed with its state; what it still reads is lost.
Unmount ==
  /\ plugin' = Nothing
  /\ window' = NoWindow
  /\ loadedWindow' = NoWindow
  /\ pageIndex' = 0
  /\ bytes' = Nothing
  /\ error' = Nothing
  /\ pageReads' = <<>>
  /\ pageOvertaken' = FALSE

\* Mutant of SetWindow: the page index is kept.
SetWindowKeepsPage(p, w) ==
  /\ plugin' = p
  /\ window' = w
  /\ loadedWindow # w
  /\ loadedWindow' = w
  /\ LoadPage(p, w, 0)
  /\ UNCHANGED pageIndex

\* OnParametersSetAsync: the plugin is not part of what is compared.
SetWindow(p, w) ==
  /\ plugin' = p
  /\ window' = w
  /\ \/ loadedWindow = w /\ UNCHANGED <<loadedWindow, pageIndex, bytes, error, pageReads, pageOvertaken>>
     \/ /\ loadedWindow # w
        /\ pageIndex' = 0
        /\ loadedWindow' = w
        /\ LoadPage(p, w, 0)

\* MoveAsync; each button is disabled on the last page of its side.
Move(delta) ==
  LET target == MaxOf(0, MinOf(pageIndex + delta, PageCount(window) - 1))
  IN
  /\ pageIndex + delta \in 0..(PageCount(window) - 1)
  /\ pageIndex' = target
  /\ LoadPage(plugin, window, target)
  /\ UNCHANGED <<plugin, window, loadedWindow>>

PageRead(i, ok) ==
  /\ bytes' = IF ok THEN pageReads[i] ELSE Nothing
  /\ error' = IF ok THEN Nothing ELSE pageReads[i]
  /\ pageReads' = RemoveAt(pageReads, i)
  /\ pageOvertaken' = (pageOvertaken \/ Overtakes(i, pageReads))
  /\ UNCHANGED <<plugin, window, loadedWindow, pageIndex>>

-----------------------------------------------------------------------------
(* What the dump shows                                                     *)

Mounted == window # NoWindow

Shown == PageRange(plugin, window, pageIndex)
=============================================================================
