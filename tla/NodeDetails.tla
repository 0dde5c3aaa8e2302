----------------------------- MODULE NodeDetails -----------------------------
(***************************************************************************)
(* Components/NodeDetails.razor: the pane that reads and decodes the       *)
(* selected record.  Each new selection starts a read; a read that is      *)
(* still under way when the selection changes returns later.  DetailsPane  *)
(* puts it together with the hex dump it contains.                         *)
(***************************************************************************)
EXTENDS Integers, Sequences, SequencesExt

CONSTANTS
  Records, GroupNodes,  \* the nodes of the tree that can be selected
  Nothing,              \* null
  MaxReads              \* bound on the reads under way, of each kind

PaneNodes == Records \cup GroupNodes

ASSUME NodeAssumption == Records \cap GroupNodes = {} /\ Nothing \notin PaneNodes

VARIABLES
  node,        \* the Node parameter
  loadedFor,   \* _loadedFor
  recordData,  \* _recordData and _decodedFields: the record they were read from
  recordError, \* _recordError: the record whose read failed
  recordReads, \* the records whose ReadRecordDataAsync is under way
  overtaken    \* history: the last of them to start returned before an earlier one

details == <<node, loadedFor, recordData, recordError, recordReads, overtaken>>

DetailsInit ==
  /\ node = Nothing
  /\ loadedFor = Nothing
  /\ recordData = Nothing
  /\ recordError = Nothing
  /\ recordReads = <<>>
  /\ overtaken = FALSE

\* OnParametersSetAsync up to its await.
SetNode(n) ==
  /\ node' = n
  /\ \/ loadedFor = n /\ UNCHANGED <<loadedFor, recordData, recordError, recordReads, overtaken>>
     \/ /\ loadedFor # n
        /\ loadedFor' = n
        /\ recordData' = Nothing
        /\ recordError' = Nothing
        /\ overtaken' = FALSE
        /\ \/ n \notin Records /\ UNCHANGED recordReads
           \/ n \in Records /\ Len(recordReads) < MaxReads /\ recordReads' = Append(recordReads, n)

\* The newest of the reads under way, and not the only one, returns.
Overtakes(i, reads) == i = Len(reads) /\ i # 1

\* The read of recordReads[i] returns: the rest of OnParametersSetAsync.
FieldsRead(i, ok) ==
  /\ recordReads' = RemoveAt(recordReads, i)
  /\ \/ /\ loadedFor = node
        /\ recordData' = IF ok THEN recordReads[i] ELSE Nothing
        /\ recordError' = IF ok THEN Nothing ELSE recordReads[i]
     \/ /\ loadedFor # node
        /\ UNCHANGED <<recordData, recordError>>
  /\ overtaken' = (overtaken \/ Overtakes(i, recordReads))
  /\ UNCHANGED <<node, loadedFor>>

-----------------------------------------------------------------------------
(* Properties                                                              *)

\* NodeDetails.razor:1, "Details for the selected node": the fields (or the
\* error) under a record's header are those of that record.
ShowsSelected ==
  node \in Records => {recordData, recordError} \subseteq {node, Nothing}
=============================================================================
