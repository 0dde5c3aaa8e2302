----------------------------- MODULE DetailsPane -----------------------------
(***************************************************************************)
(* The right side of Explorer.razor: NodeDetails and the HexViewer inside  *)
(* it.  One render hands the selected node to both; each then reads on its *)
(* own, from the same plugin.                                              *)
(*                                                                         *)
(* Explorer.razor hands down the active plugin with the node.  Here they    *)
(* belong together; ExplorerState tells when they may part                  *)
(* (SelectionIsLive, GoToShows).                                            *)
(***************************************************************************)
EXTENDS HexViewer

paneVars == <<details, hex>>

PaneInit == DetailsInit /\ HexInit

\* A render with a selected node, or with none (the hex dump disappears).
Show(n) ==
  /\ SetNode(n)
  /\ \/ n = Nothing /\ Unmount
     \/ n # Nothing /\ SetWindow(PluginOf[n], WindowOf[n])

Turn(delta) == Mounted /\ Move(delta) /\ UNCHANGED details

Returns ==
  \/ \E i \in 1..Len(recordReads), ok \in BOOLEAN : FieldsRead(i, ok) /\ UNCHANGED hex
  \/ \E i \in 1..Len(pageReads), ok \in BOOLEAN : PageRead(i, ok) /\ UNCHANGED details

PaneNext ==
  \/ \E n \in PaneNodes \cup {Nothing} : Show(n)
  \/ \E delta \in {-1, 1} : Turn(delta)
  \/ Returns

PaneSpec == PaneInit /\ [][PaneNext]_paneVars

-----------------------------------------------------------------------------
(* Properties                                                              *)

\* Two plugins have a node at the same offset and of the same size.
Twins(n) == \E m \in PaneNodes : WindowOf[m] = WindowOf[n] /\ PluginOf[m] # PluginOf[n]

\* Once every read has returned, the pane shows the fields or the error of the selected
\* record, unless the read for it returned before an earlier one; and the bytes or the
\* error of the current page of its window, unless the read of that page returned before
\* an earlier one; and nothing of any other node.  Only between twins does
\* HexViewer.razor:68 see no difference and keep the bytes of the other plugin.
SettlesRight ==
  recordReads = <<>> /\ pageReads = <<>> =>
    /\ node \in Records /\ ~ overtaken => {recordData, recordError} = {node, Nothing}
    /\ node # Nothing => window = WindowOf[node]
    /\ node # Nothing /\ ~ pageOvertaken =>
         \E from \in {plugin} \cup (IF Twins(node) THEN Range(PluginOf) ELSE {}) :
           {bytes, error} = {[Shown EXCEPT !.plugin = from], Nothing}
-----------------------------------------------------------------------------
(* The inductive invariant of the proofs (DetailsPane is part of the       *)
(* explorer, and so are its proofs: ExplorerProofs)                        *)

PageOf(n) == [Shown EXCEPT !.plugin = PluginOf[n]]

Pages == {PageRange(PluginOf[n], WindowOf[n], i) : n \in PaneNodes, i \in Int}

PaneTypeOK ==
  /\ node \in PaneNodes \cup {Nothing}
  /\ recordReads \in Seq(Records)
  /\ pageReads \in Seq(Pages)
  /\ pageIndex \in Int
  /\ overtaken \in BOOLEAN /\ pageOvertaken \in BOOLEAN

\* The last read that was started is for the selected record, and returns last unless
\* it overtakes another.
FieldsOfNode ==
  /\ loadedFor = node
  /\ node \in Records /\ ~ overtaken =>
       IF recordReads = <<>>
       THEN {recordData, recordError} = {node, Nothing}
       ELSE recordReads[Len(recordReads)] = node

\* The last read that was started is for the current page, in a plugin that has a
\* node at this window.
BytesOfWindow ==
  /\ loadedWindow = window
  /\ node = Nothing => window = NoWindow
  /\ node # Nothing => window = WindowOf[node] /\ plugin = PluginOf[node]
  /\ node # Nothing /\ ~ pageOvertaken =>
       \E n \in PaneNodes :
         /\ WindowOf[n] = window
         /\ IF pageReads = <<>>
            THEN {bytes, error} = {PageOf(n), Nothing}
            ELSE pageReads[Len(pageReads)] = PageOf(n)

PaneInv == PaneTypeOK /\ FieldsOfNode /\ BytesOfWindow
=============================================================================
