----------------------------- MODULE PluginFile -----------------------------
(***************************************************************************)
(* PluginFile: opening validates the TES4 record and its fields, after     *)
(* that the file is navigated and records are read.                        *)
(***************************************************************************)
EXTENDS PluginTree, RecordFields

CONSTANT DataSizes   \* sizes of inflated data, declared or real

ASSUME PluginFileAssumption == DataSizes \subseteq Nat

VARIABLE phase   \* of OpenAsync: "new", "header", "open" or "failed"

vars == <<bytes, tree, reading, phase>>

Init == BytesInit /\ TreeInit /\ FieldsInit /\ phase = "new"

-----------------------------------------------------------------------------
(* OpenAsync                                                               *)

Fail ==
  /\ phase' = "failed"
  /\ reading' = NotReading

\* The checks up to the read of the TES4 data; isTes4: the signature is right.
Open(header, isTes4, declared, inflated) ==
  /\ phase = "new"
  /\ UNCHANGED tree
  /\ \/ length < HeaderSize /\ Fail /\ UNCHANGED bytes
     \/ /\ length >= HeaderSize
        /\ header \in RecordHeaders
        /\ Holds(0, header)
        /\ LET n == Node(0, 0, header)
               fits == isTes4 /\ EndOffset(n) <= length
           IN \/ fits /\ ReadData(n, declared, inflated) /\ phase' = "header"
              \/ ~fits /\ Fail
              \/ fits /\ DataRefused(n, declared, inflated) /\ Fail

\* The fields of the TES4 record are there.
Opened ==
  /\ phase = "header" /\ FieldsDone
  /\ reading' = NotReading
  /\ phase' = IF HeaderIsValid(reading.fields) THEN "open" ELSE "failed"
  /\ UNCHANGED <<bytes, tree>>

-----------------------------------------------------------------------------
(* ReadRecordDataAsync                                                     *)

\* The node a caller has at hand: the one it searched or went to.
Given ==
  IF answer.kind \in {"find", "path"} /\ answer.result # <<>> THEN {Last(answer.result)} ELSE {}

ReadRecordData(n, declared, inflated) ==
  /\ phase = "open" /\ op = Idle /\ ~IsReading
  /\ ReadData(n, declared, inflated)
  /\ UNCHANGED <<bytes, tree, phase>>

Parse ==
  /\ \E extended \in BOOLEAN, signature \in Signatures, declared \in FieldSizes, size \in FieldSizes :
       \/ ParseField(extended, signature, declared, size) /\ UNCHANGED phase
       \/ /\ FieldRefused(extended, declared, size)
          /\ reading' = NotReading
          /\ phase' = IF phase = "header" THEN "failed" ELSE phase
  /\ UNCHANGED <<bytes, tree>>

\* The fields are handed to the caller.
RecordRead ==
  /\ phase = "open" /\ FieldsDone
  /\ reading' = NotReading
  /\ UNCHANGED <<bytes, tree, phase>>

-----------------------------------------------------------------------------

\* The operations a caller starts.
Request ==
  /\ phase = "open" /\ ~IsReading
  /\ \/ \E root \in {None} \cup {n \in Given : IsGroup(n)} :
          \/ GetChildren(root) \/ ComputeStatistics(root)
          \/ \E id \in FormIds : FindRecord(id, root)
     \/ index = None /\ BuildIndex
     \/ \E o \in 0..length : GetPath(o)
  /\ UNCHANGED <<reading, phase>>

\* A plugin that could not be opened is dropped by its caller.
Dropped == phase = "failed" /\ UNCHANGED vars

Next ==
  \/ \E header \in Headers, isTes4 \in BOOLEAN, declared \in DataSizes, inflated \in DataSizes \cup {None} :
       Open(header, isTes4, declared, inflated)
  \/ Opened
  \/ Request
  \/ Navigate /\ UNCHANGED <<reading, phase>>
  \/ \E n \in Given, declared \in DataSizes, inflated \in DataSizes \cup {None} :
       ~IsGroup(n) /\ ReadRecordData(n, declared, inflated)
  \/ Parse
  \/ RecordRead
  \/ Dropped

Spec == Init /\ [][Next]_vars
-----------------------------------------------------------------------------
(* Properties                                                              *)

\* After the checks of OpenAsync the TES4 record is in the file.
OpenInv ==
  /\ phase \in {"new", "header", "open", "failed"}
  /\ phase \in {"header", "open"} =>
       0 \in DOMAIN file /\ HeaderRecord \in FileNodes /\ ~IsGroup(HeaderRecord)

\* The inductive invariant: whatever sizes the headers declare, everything that
\* is scanned, found or read lies in the file.
IInv == BytesTypeOK /\ TreeInv /\ ReadingInv /\ OpenInv
=============================================================================
