-------------------------- MODULE PluginFileProofs --------------------------
(***************************************************************************)
(* Proofs about PluginFile, for files of any length with any headers in    *)
(* them, any window and any sizes of fields.  First what stays inside the  *)
(* file, then the fields of a record, then what the walks, the index and   *)
(* the descents find in it (PluginWalks).                                  *)
(***************************************************************************)
EXTENDS PluginWalks, SequenceFacts, FiniteSetTheorems

-----------------------------------------------------------------------------
(* Nodes and containers                                                    *)

\* What a header of either kind says.
LEMMA HeaderFacts ==
  ASSUME NEW h \in Headers
  PROVE  /\ h.size \in Nat
         /\ h.kind # "group" => h \in RecordHeaders /\ h.kind \in {"record", "compressed"}
         /\ h \in RecordHeaders => h.kind # "group"
<1>1. CASE h \in RecordHeaders
  BY <1>1, PluginNodesAssumption
<1>2. CASE h \in GroupHeaders
  BY <1>2, PluginNodesAssumption
<1>3. QED
  BY <1>1, <1>2 DEF Headers

\* The offsets of a node; the data of a record are never negative.
LEMMA NodeFacts ==
  ASSUME NEW n \in NodeSet
  PROVE  /\ n # None
         /\ n.offset \in Nat /\ n.depth \in Nat /\ n.header \in Headers
         /\ DataOffset(n) \in Nat /\ n.offset < DataOffset(n)
         /\ DataSize(n) \in Int /\ EndOffset(n) \in Int
         /\ EndOffset(n) = DataOffset(n) + DataSize(n)
         /\ ~IsGroup(n) =>
              /\ n.header \in RecordHeaders
              /\ n.header.kind \in {"record", "compressed"}
              /\ DataSize(n) >= 0
<1>1. n # None /\ n.offset \in Nat /\ n.depth \in Nat /\ n.header \in Headers
  BY PluginNodesAssumption DEF NodeSet
<1>2. HeaderSize \in Nat \ {0}
  BY PluginNodesAssumption
<1>3. /\ n.header.size \in Nat
      /\ n.header.kind # "group" =>
           n.header \in RecordHeaders /\ n.header.kind \in {"record", "compressed"}
  BY <1>1, HeaderFacts
<1>4. DataSize(n) \in Int /\ (~IsGroup(n) => DataSize(n) >= 0)
  BY <1>2, <1>3 DEF DataSize, IsGroup
<1>5. QED
  BY <1>1, <1>2, <1>3, <1>4 DEF DataOffset, EndOffset, IsGroup

\* The node that a header makes of an offset.
LEMMA NewNode ==
  ASSUME NEW o \in Nat, NEW d \in Nat, NEW h \in Headers
  PROVE  /\ Node(o, d, h) \in NodeSet
         /\ Node(o, d, h).offset = o /\ Node(o, d, h).header = h
         /\ Node(o, d, h).depth = d
  BY DEF Node, NodeSet

\* The contents of a node of the file are a container of the file.
LEMMA ContentsFacts ==
  ASSUME NEW n \in FileNodes, length \in Nat
  PROVE  /\ Contents(n) \in Containers
         /\ Contents(n).start = DataOffset(n) /\ Contents(n).end = EndOffset(n)
<1>1. n \in NodeSet /\ EndOffset(n) <= length
  BY DEF FileNodes
<1>2. Contents(n) = [start |-> DataOffset(n), end |-> EndOffset(n), depth |-> n.depth + 1]
  BY <1>1, NodeFacts DEF Contents
<1>3. QED
  BY <1>1, <1>2, NodeFacts DEF Containers

\* So are those of an opened file.
LEMMA RootFacts ==
  ASSUME BytesTypeOK, OpenInv, phase = "open"
  PROVE  /\ Contents(None) \in Containers
         /\ length \in Nat
<1>1. length \in Nat
  BY PluginNodesAssumption DEF BytesTypeOK
<1>2. HeaderRecord \in NodeSet /\ ~IsGroup(HeaderRecord)
  BY DEF OpenInv, FileNodes
<1>3. EndOffset(HeaderRecord) \in Nat
  BY <1>2, NodeFacts
<1>4. Contents(None) = [start |-> EndOffset(HeaderRecord), end |-> length, depth |-> 0]
  BY DEF Contents
<1>5. QED
  BY <1>1, <1>3, <1>4 DEF Containers

\* A header once looked at stays, and nothing but headers of the file is kept.
LEMMA HoldsFacts ==
  ASSUME BytesTypeOK, NEW o \in Nat, NEW h \in Headers,
         Holds(o, h), o + HeaderSize <= length
  PROVE  /\ BytesTypeOK'
         /\ length' = length
         /\ o \in DOMAIN file' /\ file'[o] = h
         /\ \A p \in DOMAIN file : p \in DOMAIN file' /\ file'[p] = file[p]
<1>1. /\ length' = length
      /\ o \in DOMAIN file => h = file[o]
      /\ file' = [p \in DOMAIN file \cup {o} |-> IF p = o THEN h ELSE file[p]]
  BY DEF Holds
<1>2. QED
  BY <1>1 DEF BytesTypeOK

-----------------------------------------------------------------------------
(* The operations on the tree                                              *)

\* Along a step that leaves the length the file has the same nodes.
LEMMA SameFile ==
  ASSUME length' = length
  PROVE  FileNodes' = FileNodes /\ Containers' = Containers
  BY DEF FileNodes, Containers, DataSize, EndOffset, DataOffset, IsGroup

\* An operation that ends leaves nothing to be scanned.
LEMMA EndKeeps ==
  ASSUME TreeInv, length' = length, NEW ok, NEW result, End(ok, result),
         op.kind \in {"find", "path"} => result \in Seq(FileNodes)
  PROVE  TreeInv' /\ scan' = NoScan /\ pending' = <<>>
<1>1. /\ answer' = [kind |-> op.kind, root |-> op.root, target |-> op.target,
                    ok |-> ok, result |-> result]
      /\ op' = Idle /\ pending' = <<>> /\ scan' = NoScan
  BY DEF End
<1>2. FileNodes' = FileNodes /\ Containers' = Containers
  BY SameFile
<1>3. op'.kind = "none"
  BY <1>1 DEF Idle
<1>4. <<>> \in Seq(Containers)
  OBVIOUS
<1>5. QED
  BY <1>1, <1>2, <1>3, <1>4 DEF TreeInv, ScanOK

\* Neither does one that fails.
LEMMA RefuseKeeps ==
  ASSUME TreeInv, length' = length, Refuse
  PROVE  TreeInv' /\ scan' = NoScan /\ pending' = <<>>
<1>1. End(FALSE, <<>>)
  BY DEF Refuse
<1>2. <<>> \in Seq(FileNodes)
  OBVIOUS
<1>3. QED
  BY <1>1, <1>2, EndKeeps

\* An operation starts with one container of the file.
LEMMA BeginKeeps ==
  ASSUME TreeInv, NEW kind \in Walks \cup {"children", "path"},
         NEW root, Contents(root) \in Containers, NEW target, NEW seen,
         kind = "path" => seen \in Seq(FileNodes),
         kind = "index" => seen \in Seq([id : Nat, offset : Nat]),
         Begin(kind, root, target, seen)
  PROVE  TreeInv' /\ UNCHANGED <<scan, bytes>> /\ scan = NoScan
<1>1. /\ op = Idle
      /\ op' = [kind |-> kind, root |-> root, target |-> target, seen |-> seen]
      /\ pending' = <<Contents(root)>>
      /\ answer' = NoAnswer
      /\ scan' = scan /\ length' = length /\ UNCHANGED bytes
  BY DEF Begin, bytes
<1>2. FileNodes' = FileNodes /\ Containers' = Containers
  BY <1>1, SameFile
<1>3. op'.kind = kind /\ op'.seen = seen /\ DOMAIN op' = {"kind", "root", "target", "seen"}
  BY <1>1
<1>4. op' # Idle
  BY <1>3 DEF Idle, Walks
<1>5. answer'.kind = "none"
  BY <1>1 DEF NoAnswer
<1>6. <<Contents(root)>> \in Seq(Containers)
  OBVIOUS
<1>7. scan = NoScan /\ scan' = NoScan
  BY <1>1 DEF TreeInv
<1>8. QED
  BY <1>1, <1>2, <1>3, <1>4, <1>5, <1>6, <1>7 DEF TreeInv, ScanOK

\* What the next container on the stack gives: a scan of it.
LEMMA BeginSiblingsKeeps ==
  ASSUME TreeInv, BeginSiblings
  PROVE  TreeInv' /\ scan = NoScan
<1> DEFINE c == Last(pending)
<1>1. /\ op # Idle /\ scan = NoScan /\ pending # <<>>
      /\ scan' = [start |-> c.start, end |-> c.end, depth |-> c.depth, at |-> c.start,
                  from |-> 0, to |-> 0, nodes |-> <<>>]
      /\ pending' = Front(pending)
      /\ UNCHANGED <<op, answer, length>>
  BY DEF BeginSiblings, bytes
<1>2. FileNodes' = FileNodes /\ Containers' = Containers
  BY <1>1, SameFile
<1>3. pending \in Seq(Containers)
  BY DEF TreeInv
<1>4. c \in Containers
  BY <1>1, <1>3 DEF Last
<1>5. Front(pending) \in Seq(Containers)
  BY <1>1, <1>3, FrontFacts
<1> HIDE DEF c
<1>6. c.start \in Nat /\ c.end \in Int /\ c.depth \in Nat /\ c.end <= length
  BY <1>4 DEF Containers
<1>7. <<>> \in Seq(NodesIn(scan)')
  OBVIOUS
<1>8. ScanOK'
  BY <1>1, <1>6, <1>7 DEF ScanOK
<1>9. QED
  BY <1>1, <1>2, <1>5, <1>8 DEF TreeInv

\* A scan that stays in its container has the same nodes to choose from.
LEMMA SameContainer ==
  ASSUME length' = length, scan'.start = scan.start, scan'.end = scan.end
  PROVE  NodesIn(scan)' = NodesIn(scan)
<1>1. FileNodes' = FileNodes
  BY SameFile
<1>2. QED
  BY <1>1 DEF NodesIn, EndOffset, DataOffset, DataSize, IsGroup

\* What is known of a scan.
LEMMA ScanFacts ==
  ASSUME TreeInv, scan # NoScan, length \in Nat
  PROVE  /\ scan \in [start : Nat, end : Int, depth : Nat, at : Nat, from : Nat, to : Nat,
                      nodes : Seq(NodesIn(scan))]
         /\ scan.start \in Nat /\ scan.end \in Int /\ scan.at \in Nat
         /\ scan.from \in Nat /\ scan.to \in Nat
         /\ scan.nodes \in Seq(NodesIn(scan)) /\ Len(scan.nodes) \in Nat
         /\ scan.end <= length /\ scan.start <= scan.at
         /\ scan.to = 0 \/ scan.to <= scan.end
         /\ op # Idle
<1>1. ScanOK /\ op # Idle
  BY DEF TreeInv
<1>2. scan \in [start : Nat, end : Int, depth : Nat, at : Nat, from : Nat, to : Nat,
                nodes : Seq(NodesIn(scan))]
  BY <1>1 DEF ScanOK
<1>3. scan.nodes \in Seq(NodesIn(scan))
  BY <1>2
<1>4. Len(scan.nodes) \in Nat
  BY <1>3
<1>5. QED
  BY <1>1, <1>2, <1>3, <1>4 DEF ScanOK

\* A window that is read reaches to the end of the container at most.
LEMMA ReadWindowKeeps ==
  ASSUME TreeInv, length \in Nat, ReadWindow
  PROVE  /\ TreeInv' /\ scan # NoScan /\ scan' # NoScan
         /\ scan'.nodes = scan.nodes /\ pending' = pending
<1> DEFINE w == scan.at + MinOf(ChunkSize, scan.end - scan.at)
<1>1. /\ scan # NoScan /\ scan.at < scan.end
      /\ scan' = [scan EXCEPT !.from = scan.at, !.to = w]
      /\ UNCHANGED <<op, pending, answer, length>>
  BY DEF ReadWindow, Scanning, bytes
<1>2. FileNodes' = FileNodes /\ Containers' = Containers
  BY <1>1, SameFile
<1>3. w \in Nat /\ w <= scan.end
  BY <1>1, ScanFacts, PluginTreeAssumption DEF MinOf
<1> HIDE DEF w
<1>4. /\ scan'.start = scan.start /\ scan'.end = scan.end /\ scan'.nodes = scan.nodes
      /\ scan'.at = scan.at /\ scan'.to = w
      /\ scan' \in [start : Nat, end : Int, depth : Nat, at : Nat, from : Nat, to : Nat,
                    nodes : Seq(NodesIn(scan))]
  BY <1>1, <1>3, ScanFacts
<1>5. NodesIn(scan)' = NodesIn(scan)
  BY <1>1, <1>4, SameContainer
<1>6. ScanOK'
  BY <1>1, <1>3, <1>4, <1>5, ScanFacts DEF ScanOK
<1>7. scan' # NoScan
  BY <1>4 DEF NoScan
<1>8. QED
  BY <1>1, <1>2, <1>4, <1>6, <1>7, ScanFacts DEF TreeInv

\* Two action properties hold of a step that parses nothing and adds no
\* container.
LEMMA QuietStep ==
  ASSUME \/ scan = NoScan
         \/ scan' = NoScan /\ pending' = <<>>
         \/ /\ ~(Len(scan'.nodes) > Len(scan.nodes))
            /\ pending' = pending
  PROVE  ParsesWindow /\ Shrinks
<1>1. DOMAIN <<>> = {}
  OBVIOUS
<1>2. QED
  BY <1>1 DEF ParsesWindow, Shrinks

\* A parsed header is that of a node in the container, behind the last one.
LEMMA ParseHeaderKeeps ==
  ASSUME TreeInv, BytesTypeOK, length \in Nat, NEW header \in Headers, ParseHeader(header)
  PROVE  /\ TreeInv' /\ BytesTypeOK' /\ length' = length
         /\ \A p \in DOMAIN file : p \in DOMAIN file' /\ file'[p] = file[p]
         /\ ParsesWindow /\ Shrinks
<1> DEFINE n == Node(scan.at, scan.depth, header)
<1>1. /\ scan # NoScan /\ scan.at < scan.end /\ scan.end - scan.at >= HeaderSize
      /\ scan.from <= scan.at /\ scan.at + HeaderSize <= scan.to
      /\ Holds(scan.at, header)
  BY DEF ParseHeader, Scanning, WindowHolds
<1>2. HeaderSize \in Nat \ {0}
  BY PluginNodesAssumption
<1>3. BytesTypeOK' /\ length' = length
      /\ \A p \in DOMAIN file : p \in DOMAIN file' /\ file'[p] = file[p]
  BY <1>1, <1>2, ScanFacts, HoldsFacts
<1>4. scan.depth \in Nat
  BY <1>1, ScanFacts
<1>5. n \in NodeSet /\ n.offset = scan.at
  BY <1>1, <1>4, ScanFacts, NewNode
<1>6. FileNodes' = FileNodes /\ Containers' = Containers
  BY <1>3, SameFile
<1>7. CASE /\ NodeFits(n)
           /\ scan' = [scan EXCEPT !.at = EndOffset(n), !.nodes = Append(@, n)]
           /\ UNCHANGED <<op, pending, answer, index>>
  <2>1. DataSize(n) >= 0 /\ EndOffset(n) <= scan.end
    BY <1>7 DEF NodeFits
  <2>2. EndOffset(n) \in Nat /\ scan.at < EndOffset(n)
    BY <1>5, <2>1, NodeFacts
  <2>3. n \in NodesIn(scan)
    BY <1>1, <1>5, <2>1, <2>2, ScanFacts DEF NodesIn, FileNodes
  <2>4. /\ Append(scan.nodes, n) \in Seq(NodesIn(scan))
        /\ Len(Append(scan.nodes, n)) = Len(scan.nodes) + 1
    BY <1>1, <2>3, ScanFacts, AppendFacts
  <2> HIDE DEF n
  <2>5. /\ scan' \in [start : Nat, end : Int, depth : Nat, at : Nat, from : Nat, to : Nat,
                      nodes : Seq(NodesIn(scan))]
        /\ scan'.start = scan.start /\ scan'.end = scan.end /\ scan'.to = scan.to
        /\ scan'.at = EndOffset(n)
    BY <1>1, <1>7, <2>2, <2>4, ScanFacts
  <2>6. NodesIn(scan)' = NodesIn(scan)
    BY <1>3, <2>5, SameContainer
  <2>7. ScanOK'
    BY <1>1, <1>3, <2>2, <2>5, <2>6, ScanFacts DEF ScanOK
  <2>8. TreeInv'
    BY <1>1, <1>6, <1>7, <2>7, ScanFacts DEF TreeInv
  <2>9. ParsesWindow
    BY <1>1, <1>2, ScanFacts DEF ParsesWindow
  <2>10. Shrinks
    BY <1>7, <2>1, <2>2, <2>5 DEF Shrinks
  <2>11. QED
    BY <1>3, <2>8, <2>9, <2>10
<1>8. CASE ~NodeFits(n) /\ Refuse
  BY <1>3, <1>8, RefuseKeeps, QuietStep
<1>9. QED
  BY <1>7, <1>8 DEF ParseHeader

\* What is handed out as a child of a container is a node of the file.
LEMMA NodesAreInFile ==
  ASSUME NEW c, NEW s \in Seq(NodesIn(c)), NEW i \in DOMAIN s
  PROVE  /\ s[i] \in NodesIn(c) /\ s[i] \in FileNodes /\ s[i] \in NodeSet
         /\ c.start <= s[i].offset /\ EndOffset(s[i]) <= c.end
  BY DEF NodesIn, FileNodes

\* The contents of a group found in a run are a proper part of the container.
LEMMA ContentsSmaller ==
  ASSUME TreeInv, scan # NoScan, length \in Nat, NEW i \in DOMAIN scan.nodes
  PROVE  /\ Contents(scan.nodes[i]) \in Containers
         /\ Smaller(Contents(scan.nodes[i]))
<1> DEFINE n == scan.nodes[i]
<1>1. n \in FileNodes /\ n \in NodeSet /\ scan.start <= n.offset /\ EndOffset(n) <= scan.end
  BY ScanFacts, NodesAreInFile
<1>2. DataSize(n) >= 0
  BY <1>1 DEF FileNodes
<1> HIDE DEF n
<1>3. /\ Contents(n) \in Containers
      /\ Contents(n).start = DataOffset(n) /\ Contents(n).end = EndOffset(n)
  BY <1>1, ContentsFacts
<1>4. DataOffset(n) > n.offset /\ DataOffset(n) <= EndOffset(n)
  BY <1>1, <1>2, NodeFacts
<1>5. Smaller(Contents(n))
  BY <1>1, <1>3, <1>4, NodeFacts, ScanFacts DEF Smaller
<1>6. QED
  BY <1>3, <1>5 DEF n

\* A descent answers with a path in the file or goes on in something smaller.
LEMMA DescendKeeps ==
  ASSUME TreeInv, length \in Nat, Descend
  PROVE  TreeInv' /\ length' = length /\ file' = file /\ ParsesWindow /\ Shrinks
<1>1. scan # NoScan /\ op.kind = "path" /\ UNCHANGED bytes
  BY DEF Descend, Parsed
<1>2. length' = length /\ file' = file
  BY <1>1 DEF bytes
<1>3. FileNodes' = FileNodes /\ Containers' = Containers
  BY <1>2, SameFile
<1>4. CASE Refuse
  BY <1>2, <1>4, RefuseKeeps, QuietStep
<1>5. ASSUME NEW i \in DOMAIN scan.nodes, Enter(scan.nodes[i], op.target)
      PROVE  TreeInv' /\ ParsesWindow /\ Shrinks
  <2> DEFINE n == scan.nodes[i]
  <2>1. n \in FileNodes
    BY <1>1, ScanFacts, NodesAreInFile
  <2>2. op.seen \in Seq(FileNodes)
    BY <1>1 DEF TreeInv
  <2>3. Append(op.seen, n) \in Seq(FileNodes)
    BY <2>1, <2>2, AppendFacts
  <2>4. Contents(n) \in Containers /\ Smaller(Contents(n))
    BY <1>1, ContentsSmaller
  <2> HIDE DEF n
  <2>5. CASE End(TRUE, Append(op.seen, n))
    BY <1>2, <2>3, <2>5, EndKeeps, QuietStep
  <2>6. CASE Refuse
    BY <1>2, <2>6, RefuseKeeps, QuietStep
  <2>7. CASE /\ op' = [op EXCEPT !.seen = Append(@, n)]
             /\ pending' = <<Contents(n)>>
             /\ scan' = NoScan
             /\ UNCHANGED <<answer, index>>
    <3>1. DOMAIN op = {"kind", "root", "target", "seen"} /\ op # Idle
      BY <1>1, ScanFacts DEF TreeInv
    <3>2. /\ op'.kind = "path" /\ op'.seen = Append(op.seen, n)
          /\ DOMAIN op' = {"kind", "root", "target", "seen"}
      BY <1>1, <2>7, <3>1
    <3>3. op' # Idle
      BY <3>2 DEF Idle
    <3>4. /\ <<Contents(n)>> \in Seq(Containers) /\ DOMAIN <<Contents(n)>> = {1}
          /\ <<Contents(n)>>[1] = Contents(n)
      BY <2>4
    <3>5. TreeInv'
      BY <1>3, <2>3, <2>7, <3>2, <3>3, <3>4 DEF TreeInv, ScanOK
    <3>6. ParsesWindow
      BY <2>7 DEF ParsesWindow
    <3>7. Shrinks
      BY <2>4, <2>7, <3>4 DEF Shrinks
    <3>8. QED
      BY <3>5, <3>6, <3>7
  <2>8. QED
    BY <1>5, <2>5, <2>6, <2>7 DEF Enter, n
<1>6. QED
  BY <1>2, <1>4, <1>5 DEF Descend, Containing

\* A visitor takes the next node of the run; a group with contents is put on the
\* stack.
LEMMA VisitKeeps ==
  ASSUME TreeInv, length \in Nat, Visit
  PROVE  TreeInv' /\ length' = length /\ file' = file /\ ParsesWindow /\ Shrinks
<1> DEFINE n == Head(scan.nodes)
<1>1. /\ scan # NoScan /\ op.kind \in Walks /\ scan.nodes # <<>> /\ UNCHANGED bytes
  BY DEF Visit, Parsed
<1>2. length' = length /\ file' = file
  BY <1>1 DEF bytes
<1>3. FileNodes' = FileNodes /\ Containers' = Containers
  BY <1>2, SameFile
<1>4. /\ Tail(scan.nodes) \in Seq(NodesIn(scan))
      /\ Len(Tail(scan.nodes)) = Len(scan.nodes) - 1
      /\ n = scan.nodes[1] /\ 1 \in DOMAIN scan.nodes
  BY <1>1, ScanFacts, TailFacts
<1>5. n \in FileNodes
  BY <1>1, <1>4, ScanFacts, NodesAreInFile
<1>6. Contents(n) \in Containers /\ Smaller(Contents(n))
  BY <1>1, <1>4, ContentsSmaller
<1> HIDE DEF n
<1>7. CASE End(TRUE, <<n>>)
  <2>1. <<n>> \in Seq(FileNodes)
    BY <1>5
  <2>2. QED
    BY <1>2, <1>7, <2>1, EndKeeps, QuietStep
<1>8. CASE /\ op' = [op EXCEPT !.seen = Visited(@, n)]
           /\ pending' = pending \o Pushed(n)
           /\ scan' = [scan EXCEPT !.nodes = Tail(@)]
           /\ UNCHANGED answer
  <2>1. /\ DOMAIN op = {"kind", "root", "target", "seen"} /\ op # Idle
        /\ pending \in Seq(Containers)
    BY <1>1, ScanFacts DEF TreeInv
  <2>2. op'.kind = op.kind /\ DOMAIN op' = {"kind", "root", "target", "seen"}
    BY <1>8, <2>1
  <2>3. op'.kind # "path" /\ op' # Idle
    BY <1>1, <2>2 DEF Walks, Idle
  <2>4. Pushed(n) = <<Contents(n)>> \/ Pushed(n) = <<>>
    BY DEF Pushed
  <2>5. /\ Pushed(n) \in Seq(Containers)
        /\ \A i \in 1..Len(Pushed(n)) : Pushed(n)[i] = Contents(n)
    <3> DEFINE c == Contents(n)
    <3>1. c \in Containers
      BY <1>6
    <3> HIDE DEF c
    <3>2. <<c>> \in Seq(Containers) /\ \A i \in 1..Len(<<c>>) : <<c>>[i] = c
      BY <3>1
    <3>3. <<>> \in Seq(Containers) /\ 1..Len(<<>>) = {}
      OBVIOUS
    <3>4. CASE Pushed(n) = <<c>>
      BY <3>2, <3>4 DEF c
    <3>5. CASE Pushed(n) = <<>>
      BY <3>3, <3>5
    <3>6. QED
      BY <2>4, <3>4, <3>5 DEF c
  <2>6. /\ pending' \in Seq(Containers)
        /\ \A i \in DOMAIN pending' :
             pending'[i] = Contents(n) \/ (i \in DOMAIN pending /\ pending'[i] = pending[i])
    <3>1. /\ pending' \in Seq(Containers)
          /\ Len(pending') = Len(pending) + Len(Pushed(n))
          /\ \A i \in 1..(Len(pending) + Len(Pushed(n))) :
               pending'[i] = IF i <= Len(pending) THEN pending[i] ELSE Pushed(n)[i - Len(pending)]
      BY <1>8, <2>1, <2>5, ConcatProperties
    <3>2. Len(pending) \in Nat /\ Len(Pushed(n)) \in Nat
      BY <2>1, <2>5
    <3>3. DOMAIN pending' = 1..(Len(pending) + Len(Pushed(n))) /\ DOMAIN pending = 1..Len(pending)
      BY <2>1, <3>1
    <3>4. ASSUME NEW i \in DOMAIN pending'
          PROVE  pending'[i] = Contents(n) \/ (i \in DOMAIN pending /\ pending'[i] = pending[i])
      <4>1. i \in 1..(Len(pending) + Len(Pushed(n)))
        BY <3>3, <3>4
      <4>2. CASE i <= Len(pending)
        BY <3>1, <3>2, <3>3, <4>1, <4>2
      <4>3. CASE ~(i <= Len(pending))
        BY <2>5, <3>1, <3>2, <4>1, <4>3
      <4>4. QED
        BY <4>2, <4>3
    <3>5. QED
      BY <3>1, <3>4
  <2>7. /\ scan' \in [start : Nat, end : Int, depth : Nat, at : Nat, from : Nat, to : Nat,
                      nodes : Seq(NodesIn(scan))]
        /\ scan'.start = scan.start /\ scan'.end = scan.end /\ scan'.to = scan.to
        /\ scan'.at = scan.at /\ scan'.nodes = Tail(scan.nodes)
    BY <1>1, <1>4, <1>8, ScanFacts
  <2>8. NodesIn(scan)' = NodesIn(scan)
    BY <1>2, <2>7, SameContainer
  <2>9. ScanOK'
    BY <1>1, <1>2, <2>7, <2>8, ScanFacts DEF ScanOK
  <2>10. TreeInv'
    <3>1. op'.kind = "index" => op'.seen \in Seq([id : Nat, offset : Nat])
      <4>1. SUFFICES ASSUME op.kind = "index" PROVE op'.seen \in Seq([id : Nat, offset : Nat])
        BY <2>2
      <4>2. op.seen \in Seq([id : Nat, offset : Nat]) /\ op'.seen = Visited(op.seen, n)
        BY <1>8, <2>1, <4>1 DEF TreeInv
      <4>3. CASE IsGroup(n)
        BY <4>1, <4>2, <4>3 DEF Visited
      <4>4. CASE ~ IsGroup(n)
        <5>1. n \in NodeSet
          BY <1>5 DEF FileNodes
        <5>2. n.header.id \in Nat /\ n.offset \in Nat
          BY <4>4, <5>1, NodeFacts, PluginNodesAssumption
        <5>3. Visited(op.seen, n) = Append(op.seen, [id |-> n.header.id, offset |-> n.offset])
          BY <4>1, <4>4 DEF Visited
        <5>4. QED
          BY <4>2, <5>2, <5>3
      <4>5. QED
        BY <4>3, <4>4
    <3>2. QED
      BY <1>3, <1>8, <2>1, <2>2, <2>3, <2>6, <2>9, <3>1 DEF TreeInv
  <2>11. ~(Len(scan'.nodes) > Len(scan.nodes))
    BY <1>1, <1>4, <2>7, ScanFacts
  <2>12. ParsesWindow /\ Shrinks
    BY <1>6, <2>6, <2>11 DEF ParsesWindow, Shrinks
  <2>13. QED
    BY <1>2, <2>10, <2>12
<1>9. QED
  BY <1>7, <1>8 DEF Visit, n

\* Steps that only put a finished run, or a finished operation, away.
LEMMA DoneKeeps ==
  ASSUME TreeInv, length \in Nat, Listed \/ RunVisited \/ WalkDone \/ HeaderCutOff
  PROVE  TreeInv' /\ length' = length /\ file' = file /\ ParsesWindow /\ Shrinks
<1>1. UNCHANGED bytes
  BY DEF Listed, RunVisited, WalkDone, HeaderCutOff
<1>2. length' = length /\ file' = file
  BY <1>1 DEF bytes
<1>3. FileNodes' = FileNodes /\ Containers' = Containers
  BY <1>2, SameFile
<1>4. CASE HeaderCutOff
  BY <1>2, <1>4, RefuseKeeps, QuietStep DEF HeaderCutOff
<1>5. CASE Listed
  BY <1>2, <1>5, EndKeeps, QuietStep DEF Listed
<1>6. CASE RunVisited
  <2>1. scan # NoScan /\ scan' = NoScan /\ UNCHANGED <<op, pending, answer>>
    BY <1>6 DEF RunVisited, Parsed
  <2>2. TreeInv'
    BY <1>3, <2>1 DEF TreeInv, ScanOK
  <2>3. ParsesWindow /\ Shrinks
    BY <2>1 DEF ParsesWindow, Shrinks
  <2>4. QED
    BY <1>2, <2>2, <2>3
<1>7. CASE WalkDone
  <2>1. scan = NoScan /\ op.kind \in Walks
    BY <1>7 DEF WalkDone
  <2>2. CASE End(TRUE, <<>>)
    <3>1. <<>> \in Seq(FileNodes)
      OBVIOUS
    <3>2. QED
      BY <1>2, <2>1, <2>2, <3>1, EndKeeps, QuietStep
  <2>3. CASE op.kind = "statistics" /\ End(TRUE, op.seen)
    BY <1>2, <2>1, <2>3, EndKeeps, QuietStep
  <2>4. QED
    BY <1>7, <2>2, <2>3 DEF WalkDone
<1>8. QED
  BY <1>4, <1>5, <1>6, <1>7

\* Every step of the navigation keeps its invariant and shrinks what is left.
LEMMA NavigateKeeps ==
  ASSUME TreeInv, BytesTypeOK, length \in Nat, Navigate
  PROVE  /\ TreeInv' /\ BytesTypeOK' /\ length' = length
         /\ \A p \in DOMAIN file : p \in DOMAIN file' /\ file'[p] = file[p]
         /\ ParsesWindow /\ Shrinks
<1>1. ASSUME NEW header \in Headers, ParseHeader(header)
      PROVE  /\ TreeInv' /\ BytesTypeOK' /\ length' = length
             /\ \A p \in DOMAIN file : p \in DOMAIN file' /\ file'[p] = file[p]
             /\ ParsesWindow /\ Shrinks
  BY <1>1, ParseHeaderKeeps
<1>2. CASE BeginSiblings
  BY <1>2, BeginSiblingsKeeps, QuietStep DEF BeginSiblings, bytes, BytesTypeOK
<1>3. CASE ReadWindow
  <2>1. length' = length /\ file' = file
    BY <1>3 DEF ReadWindow, bytes
  <2>2. ~(Len(scan'.nodes) > Len(scan.nodes)) /\ pending' = pending
    BY <1>3, ReadWindowKeeps, ScanFacts
  <2>3. QED
    BY <1>3, <2>1, <2>2, ReadWindowKeeps, QuietStep DEF BytesTypeOK
<1>4. CASE Listed \/ RunVisited \/ WalkDone \/ HeaderCutOff
  BY <1>4, DoneKeeps DEF BytesTypeOK
<1>5. CASE Descend
  BY <1>5, DescendKeeps DEF BytesTypeOK
<1>6. CASE Visit
  BY <1>6, VisitKeeps DEF BytesTypeOK
<1>7. QED
  BY <1>1, <1>2, <1>3, <1>4, <1>5, <1>6 DEF Navigate

-----------------------------------------------------------------------------
(* Requests                                                                *)

\* What a caller has at hand is a node of the file.
LEMMA GivenFacts ==
  ASSUME TreeInv, NEW n \in Given
  PROVE  n \in FileNodes
<1>1. answer.kind \in {"find", "path"} /\ answer.result # <<>> /\ n = Last(answer.result)
  BY DEF Given
<1>2. answer.result \in Seq(FileNodes)
  BY <1>1 DEF TreeInv
<1>3. QED
  BY <1>1, <1>2 DEF Last

\* A request starts an operation in the file, or is answered at once.
LEMMA RequestKeeps ==
  ASSUME IInv, Request
  PROVE  TreeInv' /\ UNCHANGED <<bytes, reading, phase>> /\ ParsesWindow /\ Shrinks
<1>1. TreeInv /\ BytesTypeOK /\ OpenInv /\ phase = "open" /\ UNCHANGED <<reading, phase>>
  BY DEF IInv, Request
<1>2. length \in Nat /\ Contents(None) \in Containers
  BY <1>1, RootFacts
<1>3. ASSUME NEW kind \in Walks \cup {"children", "path"},
             NEW root, Contents(root) \in Containers, NEW target, NEW seen,
             kind = "path" => seen \in Seq(FileNodes),
             kind = "index" => seen \in Seq([id : Nat, offset : Nat]),
             Begin(kind, root, target, seen)
      PROVE  TreeInv' /\ UNCHANGED bytes /\ ParsesWindow /\ Shrinks
  BY <1>1, <1>3, BeginKeeps, QuietStep
<1>4. ASSUME NEW root \in {None} \cup {n \in Given : IsGroup(n)}
      PROVE  Contents(root) \in Containers
  BY <1>1, <1>2, GivenFacts, ContentsFacts
<1>5. ASSUME NEW root \in {None} \cup {n \in Given : IsGroup(n)}, GetChildren(root)
      PROVE  TreeInv' /\ UNCHANGED bytes /\ ParsesWindow /\ Shrinks
  BY <1>3, <1>4, <1>5 DEF GetChildren
<1>6. ASSUME NEW root \in {None} \cup {n \in Given : IsGroup(n)}, ComputeStatistics(root)
      PROVE  TreeInv' /\ UNCHANGED bytes /\ ParsesWindow /\ Shrinks
  BY <1>3, <1>4, <1>6 DEF ComputeStatistics, Walks
<1>7. ASSUME NEW root \in {None} \cup {n \in Given : IsGroup(n)}, NEW id \in FormIds,
             FindRecord(id, root)
      PROVE  TreeInv' /\ UNCHANGED bytes /\ ParsesWindow /\ Shrinks
  BY <1>3, <1>4, <1>7 DEF FindRecord, Walks
<1>8. CASE BuildIndex
  <2>1. Begin("index", None, None, <<>>)
    BY <1>8 DEF BuildIndex
  <2>2. "index" \in Walks \cup {"children", "path"} /\ "index" # "path"
        /\ <<>> \in Seq([id : Nat, offset : Nat])
    BY DEF Walks
  <2>3. QED
    BY <1>1, <1>2, <1>3, <2>1, <2>2
<1>9. ASSUME NEW o \in 0..length, GetPath(o)
      PROVE  TreeInv' /\ UNCHANGED bytes /\ ParsesWindow /\ Shrinks
  <2>1. CASE Begin("path", None, o, <<>>)
    <3>1. <<>> \in Seq(FileNodes)
      OBVIOUS
    <3>2. QED
      BY <1>2, <1>3, <2>1, <3>1
  <2>2. CASE /\ op = Idle
             /\ answer' = [kind |-> "path", root |-> None, target |-> o, ok |-> o = 0,
                           result |-> IF o = 0 THEN <<HeaderRecord>> ELSE <<>>]
             /\ UNCHANGED <<op, pending, scan, index, bytes>>
    <3>1. HeaderRecord \in FileNodes
      BY <1>1 DEF OpenInv
    <3>2. <<HeaderRecord>> \in Seq(FileNodes) /\ <<>> \in Seq(FileNodes)
      BY <3>1
    <3>3. answer'.result \in Seq(FileNodes)
      BY <2>2, <3>2
    <3>4. length' = length
      BY <2>2 DEF bytes
    <3>5. FileNodes' = FileNodes /\ Containers' = Containers
      BY <3>4, SameFile
    <3>6. scan = NoScan /\ scan' = NoScan
      BY <1>1, <2>2 DEF TreeInv
    <3>7. TreeInv'
      BY <1>1, <2>2, <3>3, <3>5, <3>6 DEF TreeInv, ScanOK
    <3>8. QED
      BY <2>2, <3>6, <3>7, QuietStep
  <2>3. QED
    BY <1>9, <2>1, <2>2 DEF GetPath
<1>10. QED
  BY <1>1, <1>5, <1>6, <1>7, <1>8, <1>9 DEF Request

-----------------------------------------------------------------------------
(* Reading a record                                                        *)

\* The data of a record of the file are read.
LEMMA ReadDataKeeps ==
  ASSUME NEW n \in FileNodes, ~IsGroup(n), NEW declared \in DataSizes, NEW inflated,
         ReadData(n, declared, inflated), length' = length
  PROVE  ReadingInv'
<1>1. n \in NodeSet /\ DataSize(n) >= 0
  BY DEF FileNodes
<1>2. /\ n # None /\ n.header \in RecordHeaders /\ DataSize(n) \in Nat
      /\ DataOffset(n) \in Nat /\ n.header.kind \in {"record", "compressed"}
  BY <1>1, NodeFacts
<1>3. DataSize(n) <= MaxInt
  BY DEF ReadData
<1>4. FileNodes' = FileNodes
  BY SameFile
<1>5. declared \in Nat
  BY PluginFileAssumption
<1>6. ASSUME NEW size \in Nat, NEW compressed \in BOOLEAN, Cut(n, size, compressed),
             compressed <=> n.header.kind = "compressed",
             ~compressed => size = DataSize(n)
      PROVE  ReadingInv'
  <2> DEFINE base == IF compressed THEN None ELSE DataOffset(n)
  <2>1. reading' = [record |-> n, length |-> size, at |-> 0, fields |-> <<>>, base |-> base]
    BY <1>6 DEF Cut
  <2>2. base \in Nat \cup {None}
    BY <1>2
  <2>3. <<>> \in Seq(FieldSet) /\ DOMAIN <<>> = {}
    OBVIOUS
  <2> HIDE DEF base
  <2>4. /\ reading' \in [record : FileNodes, length : Nat, at : Nat, fields : Seq(FieldSet),
                         base : Nat \cup {None}]
        /\ reading'.record = n /\ reading'.length = size /\ reading'.at = 0
        /\ reading'.fields = <<>> /\ reading'.base = base
    BY <2>1, <2>2, <2>3
  <2>5. IF n.header.kind = "compressed" THEN base = None
        ELSE base = DataOffset(n) /\ size = DataSize(n)
    BY <1>6 DEF base
  <2>6. /\ DataSize(reading.record)' = DataSize(n)
        /\ DataOffset(reading.record)' = DataOffset(n)
    BY <2>4 DEF DataSize, DataOffset, IsGroup
  <2>7. QED
    BY <1>2, <1>3, <1>4, <2>3, <2>4, <2>5, <2>6 DEF ReadingInv, FieldSet
<1>7. CASE n.header.kind = "record" /\ Cut(n, DataSize(n), FALSE)
  BY <1>2, <1>6, <1>7
<1>8. CASE n.header.kind = "compressed" /\ Cut(n, declared, TRUE)
  BY <1>5, <1>6, <1>8
<1>9. QED
  BY <1>7, <1>8 DEF ReadData

\* Both ways a field can be accepted: where its data start, and that it ends in
\* the buffer.
LEMMA FieldBounds ==
  ASSUME ReadingInv, IsReading, NEW extended \in BOOLEAN,
         NEW declared \in FieldSizes, NEW size \in FieldSizes, FieldOk(extended, declared, size)
  PROVE  /\ size \in Nat /\ reading.at \in Nat /\ reading.length \in Nat
         /\ DataStart(extended) \in Nat
         /\ DataStart(extended) >= reading.at + FieldHeaderSize
         /\ ~extended => DataStart(extended) = reading.at + FieldHeaderSize
         /\ DataStart(extended) + size <= reading.length
<1>1. size \in Nat /\ FieldHeaderSize \in Nat /\ Word \in Nat
  BY RecordFieldsAssumption, PluginNodesAssumption
<1>2. reading.at \in Nat /\ reading.length \in Nat
  BY DEF ReadingInv
<1>3. DataStart(extended) + size <= reading.length
  BY DEF FieldOk
<1>4. QED
  BY <1>1, <1>2, <1>3 DEF DataStart

\* What accepting a field leaves: the others as they are, and the new one
\* between the old position and the new one.
LEMMA ParseFieldSteps ==
  ASSUME ReadingInv, NEW extended \in BOOLEAN, NEW signature \in Signatures,
         NEW declared \in FieldSizes, NEW size \in FieldSizes,
         ParseField(extended, signature, declared, size)
  PROVE  LET start == DataStart(extended)
             k == Len(reading.fields) + 1
         IN  /\ IsReading /\ k \in Nat
             /\ reading' \in [record : FileNodes, length : Nat, at : Nat, fields : Seq(FieldSet),
                              base : Nat \cup {None}]
             /\ reading'.record = reading.record /\ reading'.length = reading.length
             /\ reading'.base = reading.base /\ reading'.at = start + size
             /\ Len(reading'.fields) = k
             /\ \A i \in 1..(k - 1) : reading'.fields[i] = reading.fields[i]
             /\ reading'.fields[k] =
                  Field(signature, start, IF reading.base = None THEN None ELSE reading.base + start,
                        IF extended THEN reading.at ELSE None, size)
<1> DEFINE start == DataStart(extended)
           f == Field(signature, start, IF reading.base = None THEN None ELSE reading.base + start,
                      IF extended THEN reading.at ELSE None, size)
<1>1. /\ IsReading /\ FieldOk(extended, declared, size)
      /\ reading' = [reading EXCEPT !.at = start + size, !.fields = Append(@, f)]
  BY DEF ParseField
<1>2. start \in Nat /\ size \in Nat /\ reading.at \in Nat
  BY <1>1, FieldBounds
<1>3. reading \in [record : FileNodes, length : Nat, at : Nat, fields : Seq(FieldSet),
                  base : Nat \cup {None}]
  BY <1>1 DEF ReadingInv
<1>4. reading.base \in Nat \cup {None} /\ reading.fields \in Seq(FieldSet)
  BY <1>3
<1>5. (IF reading.base = None THEN None ELSE reading.base + start) \in Nat \cup {None}
  BY <1>2, <1>4
<1>6. f \in FieldSet
  BY <1>2, <1>5 DEF Field, FieldSet
<1> HIDE DEF start, f
<1>7. /\ Append(reading.fields, f) \in Seq(FieldSet)
      /\ Len(Append(reading.fields, f)) = Len(reading.fields) + 1
      /\ \A j \in 1..Len(reading.fields) : Append(reading.fields, f)[j] = reading.fields[j]
      /\ Append(reading.fields, f)[Len(reading.fields) + 1] = f
      /\ Len(reading.fields) \in Nat
  BY <1>4, <1>6, AppendFacts
<1>8. start + size \in Nat
  BY <1>2
<1>9. /\ reading' \in [record : FileNodes, length : Nat, at : Nat, fields : Seq(FieldSet),
                       base : Nat \cup {None}]
      /\ reading'.record = reading.record /\ reading'.length = reading.length
      /\ reading'.base = reading.base /\ reading'.at = start + size
      /\ reading'.fields = Append(reading.fields, f)
  BY <1>1, <1>3, <1>7, <1>8
<1>10. QED
  BY <1>1, <1>7, <1>9 DEF start, f

\* An accepted field stays in the data of the record.
LEMMA ParseFieldKeeps ==
  ASSUME ReadingInv, NEW extended \in BOOLEAN, NEW signature \in Signatures,
         NEW declared \in FieldSizes, NEW size \in FieldSizes,
         ParseField(extended, signature, declared, size), length' = length
  PROVE  ReadingInv'
<1> DEFINE start == DataStart(extended)
           k == Len(reading.fields) + 1
<1>1. /\ IsReading /\ k \in Nat
      /\ reading' \in [record : FileNodes, length : Nat, at : Nat, fields : Seq(FieldSet),
                       base : Nat \cup {None}]
      /\ reading'.record = reading.record /\ reading'.length = reading.length
      /\ reading'.base = reading.base /\ reading'.at = start + size
      /\ Len(reading'.fields) = k
      /\ \A i \in 1..(k - 1) : reading'.fields[i] = reading.fields[i]
      /\ reading'.fields[k] =
           Field(signature, start, IF reading.base = None THEN None ELSE reading.base + start,
                 IF extended THEN reading.at ELSE None, size)
  BY ParseFieldSteps
<1>2. FieldOk(extended, declared, size)
  BY DEF ParseField
<1>3. /\ size \in Nat /\ reading.at \in Nat /\ reading.length \in Nat /\ start \in Nat
      /\ start >= reading.at + FieldHeaderSize /\ start + size <= reading.length
  BY <1>1, <1>2, FieldBounds
<1>4. FileNodes' = FileNodes
  BY SameFile
<1>5. FieldHeaderSize \in Nat
  BY RecordFieldsAssumption
<1>6. /\ reading'.fields[k].data = start /\ reading'.fields[k].size = size
      /\ reading'.fields[k].absolute = IF reading.base = None THEN None ELSE reading.base + start
  BY <1>1 DEF Field
<1> HIDE DEF start
<1>7. DOMAIN reading'.fields = 1..k /\ DOMAIN reading.fields = 1..(k - 1)
  <2>1. reading'.fields \in Seq(FieldSet) /\ reading.fields \in Seq(FieldSet)
    BY <1>1 DEF ReadingInv
  <2>2. QED
    BY <1>1, <2>1
<1>8. ASSUME NEW i \in DOMAIN reading'.fields
      PROVE  /\ reading'.fields[i].data + reading'.fields[i].size <= reading'.at
             /\ reading'.fields[i].absolute =
                  IF reading.base = None THEN None ELSE reading.base + reading'.fields[i].data
  <2>1. CASE i = k
    BY <1>1, <1>3, <1>6, <2>1
  <2>2. CASE i # k
    <3>1. i \in DOMAIN reading.fields /\ reading'.fields[i] = reading.fields[i]
      BY <1>1, <1>7, <2>2
    <3>2. /\ reading.fields[i].data + reading.fields[i].size <= reading.at
          /\ reading.fields[i].absolute =
               IF reading.base = None THEN None ELSE reading.base + reading.fields[i].data
      BY <1>1, <3>1 DEF ReadingInv
    <3>3. reading.fields[i] \in FieldSet
      BY <1>1, <3>1 DEF ReadingInv
    <3>4. reading.fields[i].data \in Nat /\ reading.fields[i].size \in Nat
      BY <3>3 DEF FieldSet
    <3>5. reading.at <= start + size
      BY <1>3, <1>5
    <3>6. reading'.fields[i].data + reading'.fields[i].size <= start + size
      BY <1>3, <3>1, <3>2, <3>4, <3>5
    <3>7. QED
      BY <1>1, <3>1, <3>2, <3>6
  <2>3. QED
    BY <2>1, <2>2
<1>9. /\ DataSize(reading.record)' = DataSize(reading.record)
      /\ DataOffset(reading.record)' = DataOffset(reading.record)
  BY <1>1 DEF DataSize, DataOffset, IsGroup
<1>10. /\ reading.record.header \in RecordHeaders
       /\ DataSize(reading.record) <= MaxInt
       /\ IF reading.record.header.kind = "compressed" THEN reading.base = None
          ELSE reading.base = DataOffset(reading.record) /\ reading.length = DataSize(reading.record)
  BY <1>1 DEF ReadingInv
<1>11. QED
  BY <1>1, <1>3, <1>4, <1>8, <1>9, <1>10 DEF ReadingInv, FieldSet

-----------------------------------------------------------------------------
(* Opening                                                                 *)

\* Navigation and reading leave the tree of an unopened file alone; opening
\* looks at its first header only.
LEMMA OpenKeeps ==
  ASSUME IInv, NEW header \in Headers, NEW isTes4 \in BOOLEAN, NEW declared \in DataSizes,
         NEW inflated, Open(header, isTes4, declared, inflated)
  PROVE  IInv' /\ UNCHANGED tree
<1>1. /\ BytesTypeOK /\ TreeInv /\ ReadingInv /\ OpenInv /\ phase = "new" /\ UNCHANGED tree
  BY DEF IInv, Open
<1>2. UNCHANGED <<op, pending, scan, answer, index>>
  BY <1>1 DEF tree
<1>3. ASSUME length' = length
      PROVE  TreeInv'
  <2>1. FileNodes' = FileNodes /\ Containers' = Containers
    BY <1>3, SameFile
  <2>2. scan # NoScan => NodesIn(scan)' = NodesIn(scan)
    BY <1>2, <1>3, SameContainer
  <2>3. QED
    BY <1>1, <1>2, <1>3, <2>1, <2>2 DEF TreeInv, ScanOK
<1>4. ASSUME Fail, BytesTypeOK', length' = length
      PROVE  IInv'
  <2>1. ReadingInv'
    BY <1>4 DEF Fail, ReadingInv, IsReading
  <2>2. OpenInv'
    BY <1>4 DEF Fail, OpenInv
  <2>3. QED
    BY <1>3, <1>4, <2>1, <2>2 DEF IInv
<1>5. CASE length < HeaderSize /\ Fail /\ UNCHANGED bytes
  BY <1>1, <1>4, <1>5 DEF bytes, BytesTypeOK
<1>6. CASE length >= HeaderSize /\ header \in RecordHeaders /\ Holds(0, header)
  <2> DEFINE n == Node(0, 0, header)
  <2>1. HeaderSize \in Nat /\ length \in Nat
    BY <1>1, PluginNodesAssumption DEF BytesTypeOK
  <2>2. BytesTypeOK' /\ length' = length /\ 0 \in DOMAIN file' /\ file'[0] = header
    BY <1>1, <1>6, <2>1, HoldsFacts
  <2>3. n \in NodeSet /\ n.header = header
    BY NewNode
  <2>4. ~IsGroup(n)
    BY <1>6, <2>3, HeaderFacts DEF IsGroup
  <2>5. DataSize(n) >= 0
    BY <2>3, <2>4, NodeFacts
  <2>6. CASE Fail
    BY <1>1, <1>4, <2>2, <2>6
  <2>7. CASE EndOffset(n) <= length /\ ReadData(n, declared, inflated) /\ phase' = "header"
    <3>1. n \in FileNodes
      BY <2>3, <2>5, <2>7 DEF FileNodes
    <3>2. ReadingInv'
      BY <2>2, <2>4, <2>7, <3>1, ReadDataKeeps
    <3>3. FileNodes' = FileNodes
      BY <2>2, SameFile
    <3>4. HeaderRecord' = n
      BY <2>2 DEF HeaderRecord, Node
    <3>5. IsGroup(HeaderRecord)' = IsGroup(n)
      BY <3>4 DEF IsGroup
    <3>6. OpenInv'
      BY <2>2, <2>4, <2>7, <3>1, <3>3, <3>4, <3>5 DEF OpenInv
    <3>7. QED
      BY <1>1, <1>3, <2>2, <3>2, <3>6 DEF IInv
  <2>8. QED
    BY <1>1, <1>6, <2>6, <2>7 DEF Open
<1>7. QED
  BY <1>1, <1>5, <1>6 DEF Open

-----------------------------------------------------------------------------
(* The invariant                                                           *)

\* What every step does: it keeps the invariant, reads no header outside the
\* window and shrinks what is left to be scanned.
LEMMA StepKeeps ==
  ASSUME IInv, [Next]_vars
  PROVE  IInv' /\ ParsesWindow /\ Shrinks
<1>1. BytesTypeOK /\ TreeInv /\ ReadingInv /\ OpenInv /\ length \in Nat
  BY PluginNodesAssumption DEF IInv, BytesTypeOK
<1>2. ASSUME UNCHANGED tree, length' = length
      PROVE  TreeInv' /\ ParsesWindow /\ Shrinks
  <2>1. UNCHANGED <<op, pending, scan, answer, index>>
    BY <1>2 DEF tree
  <2>2. FileNodes' = FileNodes /\ Containers' = Containers
    BY <1>2, SameFile
  <2>3. scan # NoScan => NodesIn(scan)' = NodesIn(scan)
    BY <1>2, <2>1, SameContainer
  <2>4. TreeInv'
    BY <1>1, <1>2, <2>1, <2>2, <2>3 DEF TreeInv, ScanOK
  <2>5. scan # NoScan => Len(scan.nodes) \in Nat
    BY <1>1, ScanFacts
  <2>6. ~(Len(scan'.nodes) > Len(scan.nodes)) \/ scan = NoScan
    BY <2>1, <2>5
  <2>7. QED
    BY <2>1, <2>4, <2>6, QuietStep
<1>3. ASSUME UNCHANGED <<file, length>>
      PROVE  BytesTypeOK'
  BY <1>1, <1>3 DEF BytesTypeOK
<1>4. ASSUME UNCHANGED <<file, length, phase>>
      PROVE  OpenInv'
  <2>1. FileNodes' = FileNodes
    BY <1>4, SameFile
  <2>2. HeaderRecord' = HeaderRecord
    BY <1>4 DEF HeaderRecord, Node
  <2>3. IsGroup(HeaderRecord)' = IsGroup(HeaderRecord)
    BY <2>2 DEF IsGroup
  <2>4. QED
    BY <1>1, <1>4, <2>1, <2>2, <2>3 DEF OpenInv
<1>5. ASSUME UNCHANGED <<length, reading>>
      PROVE  ReadingInv'
  <2>1. FileNodes' = FileNodes
    BY <1>5, SameFile
  <2>2. QED
    BY <1>1, <1>5, <2>1 DEF ReadingInv, IsReading, DataSize, DataOffset, IsGroup, FieldSet
<1>6. ASSUME reading' = NotReading
      PROVE  ReadingInv'
  BY <1>6 DEF ReadingInv, IsReading
<1>7. ASSUME NEW header \in Headers, NEW isTes4 \in BOOLEAN, NEW declared \in DataSizes,
             NEW inflated \in DataSizes \cup {None}, Open(header, isTes4, declared, inflated)
      PROVE  IInv' /\ ParsesWindow /\ Shrinks
  <2>1. IInv' /\ UNCHANGED tree
    BY <1>7, OpenKeeps
  <2>2. length' = length
    BY <1>7 DEF Open, Holds, bytes
  <2>3. QED
    BY <1>2, <2>1, <2>2
<1>8. CASE Opened
  <2>1. UNCHANGED <<length, file, tree>> /\ reading' = NotReading
    BY <1>8 DEF Opened, bytes
  <2>2. phase = "header" /\ phase' \in {"open", "failed"}
    BY <1>8 DEF Opened
  <2>3. /\ FileNodes' = FileNodes /\ HeaderRecord' = HeaderRecord
        /\ IsGroup(HeaderRecord)' = IsGroup(HeaderRecord)
    BY <2>1, SameFile DEF HeaderRecord, Node, IsGroup
  <2>4. OpenInv'
    BY <1>1, <2>1, <2>2, <2>3 DEF OpenInv
  <2>5. QED
    BY <1>2, <1>3, <1>6, <2>1, <2>4 DEF IInv
<1>9. CASE Request
  <2>1. TreeInv' /\ UNCHANGED <<bytes, reading, phase>> /\ ParsesWindow /\ Shrinks
    BY <1>9, RequestKeeps
  <2>2. UNCHANGED <<length, file, reading, phase>>
    BY <2>1 DEF bytes
  <2>3. QED
    BY <1>3, <1>4, <1>5, <2>1, <2>2 DEF IInv
<1>10. CASE Navigate /\ UNCHANGED <<reading, phase>>
  <2>1. /\ TreeInv' /\ BytesTypeOK' /\ length' = length
        /\ \A p \in DOMAIN file : p \in DOMAIN file' /\ file'[p] = file[p]
        /\ ParsesWindow /\ Shrinks
    BY <1>1, <1>10, NavigateKeeps
  <2>2. FileNodes' = FileNodes
    BY <2>1, SameFile
  <2>3. 0 \in DOMAIN file =>
          HeaderRecord' = HeaderRecord /\ IsGroup(HeaderRecord)' = IsGroup(HeaderRecord)
    BY <2>1 DEF HeaderRecord, Node, IsGroup
  <2>4. OpenInv'
    BY <1>1, <1>10, <2>1, <2>2, <2>3 DEF OpenInv
  <2>5. QED
    BY <1>5, <1>10, <2>1, <2>4 DEF IInv
<1>11. ASSUME NEW n \in Given, NEW declared \in DataSizes, NEW inflated \in DataSizes \cup {None},
              ~IsGroup(n), ReadRecordData(n, declared, inflated)
       PROVE  IInv' /\ ParsesWindow /\ Shrinks
  <2>1. UNCHANGED <<length, file, tree, phase>> /\ ReadData(n, declared, inflated)
    BY <1>11 DEF ReadRecordData, bytes
  <2>2. n \in FileNodes
    BY <1>1, GivenFacts
  <2>3. ReadingInv'
    BY <1>11, <2>1, <2>2, ReadDataKeeps
  <2>4. QED
    BY <1>2, <1>3, <1>4, <2>1, <2>3 DEF IInv
<1>12. CASE Parse
  <2>1. UNCHANGED <<length, file, tree>>
    BY <1>12 DEF Parse, bytes
  <2>2. BytesTypeOK' /\ TreeInv' /\ ParsesWindow /\ Shrinks
    BY <1>2, <1>3, <2>1
  <2>3. ASSUME NEW extended \in BOOLEAN, NEW signature \in Signatures,
               NEW declared \in FieldSizes, NEW size \in FieldSizes,
               ParseField(extended, signature, declared, size), UNCHANGED phase
        PROVE  ReadingInv' /\ OpenInv'
    BY <1>1, <1>4, <2>1, <2>3, ParseFieldKeeps
  <2>4. ASSUME reading' = NotReading, phase' = IF phase = "header" THEN "failed" ELSE phase
        PROVE  ReadingInv' /\ OpenInv'
    <3>1. CASE phase = "header"
      BY <1>6, <2>4, <3>1 DEF OpenInv
    <3>2. CASE phase # "header"
      BY <1>4, <1>6, <2>1, <2>4, <3>2
    <3>3. QED
      BY <3>1, <3>2
  <2>5. QED
    BY <1>12, <2>2, <2>3, <2>4 DEF Parse, IInv
<1>13. CASE RecordRead
  <2>1. UNCHANGED <<length, file, tree, phase>> /\ reading' = NotReading
    BY <1>13 DEF RecordRead, bytes
  <2>2. QED
    BY <1>2, <1>3, <1>4, <1>6, <2>1 DEF IInv
<1>14. CASE UNCHANGED vars
  <2>1. UNCHANGED <<length, file, tree, reading, phase>>
    BY <1>14 DEF vars, bytes
  <2>2. QED
    BY <1>2, <1>3, <1>4, <1>5, <2>1 DEF IInv
<1>15. QED
  BY <1>7, <1>8, <1>9, <1>10, <1>11, <1>12, <1>13, <1>14
  DEF Next, Dropped

\* The fields read so far cut the data: each byte before the position belongs
\* to exactly one of them.
Covers(f, b) == Start(f) <= b /\ b < f.data + f.size

EachByteOnce ==
  IsReading =>
    \A b \in 0..(reading.at - 1) :
      \E i \in DOMAIN reading.fields :
        /\ Covers(reading.fields[i], b)
        /\ \A j \in DOMAIN reading.fields : Covers(reading.fields[j], b) => j = i

\* A new field begins where the last one ended.
LEMMA ParseFieldPartitions ==
  ASSUME ReadingInv, EachByteOnce, NEW extended \in BOOLEAN, NEW signature \in Signatures,
         NEW declared \in FieldSizes, NEW size \in FieldSizes,
         ParseField(extended, signature, declared, size)
  PROVE  EachByteOnce'
<1> DEFINE start == DataStart(extended)
           k == Len(reading.fields) + 1
           new == reading'.fields[k]
<1>1. /\ IsReading /\ k \in Nat
      /\ reading' \in [record : FileNodes, length : Nat, at : Nat, fields : Seq(FieldSet),
                       base : Nat \cup {None}]
      /\ reading'.at = start + size /\ Len(reading'.fields) = k
      /\ \A i \in 1..(k - 1) : reading'.fields[i] = reading.fields[i]
      /\ new = Field(signature, start, IF reading.base = None THEN None ELSE reading.base + start,
                     IF extended THEN reading.at ELSE None, size)
  BY ParseFieldSteps
<1>2. FieldOk(extended, declared, size)
  BY DEF ParseField
<1>3. /\ size \in Nat /\ reading.at \in Nat /\ start \in Nat
      /\ start >= reading.at + FieldHeaderSize
      /\ ~extended => start = reading.at + FieldHeaderSize
      /\ FieldHeaderSize \in Nat
  BY <1>1, <1>2, FieldBounds, RecordFieldsAssumption
<1>4. DOMAIN reading'.fields = 1..k /\ DOMAIN reading.fields = 1..(k - 1)
  <2>1. reading'.fields \in Seq(FieldSet) /\ reading.fields \in Seq(FieldSet)
    BY <1>1 DEF ReadingInv
  <2>2. QED
    BY <1>1, <2>1
<1>5. new.data = start /\ new.size = size /\ new.extended = IF extended THEN reading.at ELSE None
  BY <1>1 DEF Field
<1>6. reading.at # None
  BY <1>3, PluginNodesAssumption
<1> HIDE DEF start, k, new
<1>7. Start(new) = reading.at
  BY <1>3, <1>5, <1>6 DEF Start
<1>8. \A b \in Int : Covers(new, b) <=> reading.at <= b /\ b < start + size
  BY <1>5, <1>7 DEF Covers
<1>9. ASSUME NEW i \in 1..(k - 1), NEW b \in Int, Covers(reading'.fields[i], b)
      PROVE  b < reading.at
  <2>1. reading.fields[i] = reading'.fields[i] /\ i \in DOMAIN reading.fields
    BY <1>1, <1>4, <1>9 DEF k
  <2>2. reading.fields[i].data + reading.fields[i].size <= reading.at
    BY <1>1, <2>1 DEF ReadingInv
  <2>3. reading.fields[i].data \in Nat /\ reading.fields[i].size \in Nat
    <3>1. reading.fields[i] \in FieldSet
      BY <1>1, <2>1 DEF ReadingInv
    <3>2. QED
      BY <3>1 DEF FieldSet
  <2>4. b < reading.fields[i].data + reading.fields[i].size
    BY <1>9, <2>1 DEF Covers
  <2>5. QED
    BY <1>3, <2>2, <2>3, <2>4
<1>10. ASSUME NEW b \in 0..(reading'.at - 1)
       PROVE  \E i \in DOMAIN reading'.fields :
                /\ Covers(reading'.fields[i], b)
                /\ \A j \in DOMAIN reading'.fields : Covers(reading'.fields[j], b) => j = i
  <2>1. b \in Int /\ 0 <= b /\ b < start + size
    BY <1>1, <1>3
  <2>2. CASE b < reading.at
    <3>1. b \in 0..(reading.at - 1)
      BY <1>3, <2>1, <2>2
    <3>2. PICK i \in DOMAIN reading.fields :
            /\ Covers(reading.fields[i], b)
            /\ \A j \in DOMAIN reading.fields : Covers(reading.fields[j], b) => j = i
      BY <1>1, <3>1 DEF EachByteOnce
    <3>3. ~Covers(new, b)
      BY <1>3, <1>8, <2>1, <2>2
    <3>4. ASSUME NEW j \in DOMAIN reading'.fields, Covers(reading'.fields[j], b)
          PROVE  j = i
      <4>1. j # k
        BY <3>3, <3>4 DEF new
      <4>2. j \in DOMAIN reading.fields /\ j \in 1..(k - 1)
        BY <1>1, <1>4, <4>1 DEF k
      <4>3. QED
        BY <1>1, <3>2, <3>4, <4>2 DEF k
    <3>5. i \in 1..(k - 1) /\ i \in DOMAIN reading'.fields
      BY <1>1, <1>4 DEF k
    <3>6. Covers(reading'.fields[i], b)
      BY <1>1, <3>2, <3>5 DEF k
    <3>7. QED
      BY <3>4, <3>5, <3>6
  <2>3. CASE ~(b < reading.at)
    <3>1. k \in DOMAIN reading'.fields
      BY <1>1, <1>4 DEF k
    <3>2. Covers(reading'.fields[k], b)
      BY <1>3, <1>8, <2>1, <2>3 DEF new
    <3>3. ASSUME NEW j \in DOMAIN reading'.fields, Covers(reading'.fields[j], b)
          PROVE  j = k
      <4>1. CASE j \in 1..(k - 1)
        BY <1>9, <2>1, <2>3, <3>3, <4>1
      <4>2. QED
        BY <1>1, <1>4, <4>1 DEF k
    <3>4. QED
      BY <3>1, <3>2, <3>3
  <2>4. QED
    BY <2>2, <2>3
<1>11. QED
  BY <1>10 DEF EachByteOnce, Covers, Start

-----------------------------------------------------------------------------
(* Theorems                                                                *)

\* A plugin that is not opened yet.
LEMMA InitOK ==
  ASSUME Init
  PROVE  IInv /\ EachByteOnce
<1>1. /\ length \in Lengths /\ file = <<>> /\ op = Idle /\ pending = <<>> /\ scan = NoScan
      /\ answer = NoAnswer /\ reading = NotReading /\ phase = "new"
  BY DEF Init, BytesInit, TreeInit, FieldsInit
<1>2. BytesTypeOK
  <2>1. DOMAIN file = {}
    BY <1>1
  <2>2. QED
    BY <1>1, <2>1 DEF BytesTypeOK
<1>3. TreeInv
  <2>1. <<>> \in Seq(Containers)
    OBVIOUS
  <2>2. op.kind = "none" /\ answer.kind = "none"
    BY <1>1 DEF Idle, NoAnswer
  <2>3. QED
    BY <1>1, <2>1, <2>2 DEF TreeInv, ScanOK
<1>4. QED
  BY <1>1, <1>2, <1>3 DEF IInv, ReadingInv, IsReading, OpenInv, EachByteOnce

\* Whatever sizes the headers of a file declare, nothing outside the file is
\* scanned, found or read.
THEOREM FileInvariant == Spec => []IInv
<1>1. Init => IInv
  BY InitOK
<1>2. IInv /\ [Next]_vars => IInv'
  BY StepKeeps
<1>3. QED
  BY <1>1, <1>2, PTL DEF Spec

\* ParseSiblingsAsync takes a header only from a window that holds it whole and
\* does not reach behind the container.  WalkAsync and GetPathToOffsetAsync never
\* meet the same bytes again as a part of themselves: a container found in a run is
\* a proper part of the one scanned.
THEOREM SoundScans == Spec => ScansAreSound
<1>1. IInv /\ [Next]_vars => [ParsesWindow /\ Shrinks]_tree
  BY StepKeeps
<1>2. QED
  BY <1>1, FileInvariant, PTL DEF Spec, ScansAreSound

\* The file offset of a field, where it has one, is the place of its data inside
\* its record, and inside the file.
LEMMA FieldsInRecord == Spec => []FieldsLieInRecord
<1>1. IInv => FieldsLieInRecord
  <2> SUFFICES ASSUME IInv, IsReading, NEW i \in DOMAIN reading.fields
               PROVE  LET f == reading.fields[i] IN
                      IF reading.record.header.kind = "compressed" THEN f.absolute = None
                      ELSE /\ f.absolute = DataOffset(reading.record) + f.data
                           /\ f.absolute + f.size <= EndOffset(reading.record)
                           /\ EndOffset(reading.record) <= length
    BY DEF FieldsLieInRecord
  <2> DEFINE f == reading.fields[i]
             n == reading.record
  <2>1. ReadingInv
    BY DEF IInv
  <2>2. /\ n \in FileNodes /\ f \in FieldSet
        /\ reading.at \in Nat /\ reading.length \in Nat /\ reading.at <= reading.length
        /\ f.data + f.size <= reading.at
        /\ f.absolute = IF reading.base = None THEN None ELSE reading.base + f.data
        /\ IF n.header.kind = "compressed" THEN reading.base = None
           ELSE reading.base = DataOffset(n) /\ reading.length = DataSize(n)
    BY <2>1 DEF ReadingInv
  <2>3. f.data \in Nat /\ f.size \in Nat
    BY <2>2 DEF FieldSet
  <2>4. n \in NodeSet /\ EndOffset(n) <= length
    BY <2>2 DEF FileNodes
  <2>5. /\ DataOffset(n) \in Nat /\ DataSize(n) \in Int
        /\ EndOffset(n) = DataOffset(n) + DataSize(n)
    BY <2>4, NodeFacts
  <2> HIDE DEF f, n
  <2>6. CASE n.header.kind = "compressed"
    BY <2>2, <2>6 DEF f, n
  <2>7. CASE n.header.kind # "compressed"
    <3>1. reading.base = DataOffset(n) /\ reading.length = DataSize(n)
      BY <2>2, <2>7
    <3>2. reading.base # None
      BY <2>5, <3>1, PluginNodesAssumption
    <3>3. f.absolute = DataOffset(n) + f.data
      BY <2>2, <3>1, <3>2
    <3>4. f.absolute + f.size <= EndOffset(n)
      BY <2>2, <2>3, <2>5, <3>1, <3>3
    <3>5. QED
      BY <2>4, <2>7, <3>3, <3>4 DEF f, n
  <2>8. QED
    BY <2>6, <2>7
<1>2. QED
  BY <1>1, FileInvariant, PTL

\* ParseFields hands out every byte of the data once: fields neither overlap nor
\* leave a gap, however their sizes are declared.
LEMMA FieldsPartition == Spec => []FieldsPartitionData
<1>1. Init => EachByteOnce
  BY InitOK
<1>2. IInv /\ EachByteOnce /\ [Next]_vars => EachByteOnce'
  <2> SUFFICES ASSUME IInv, EachByteOnce, [Next]_vars
               PROVE  EachByteOnce'
    OBVIOUS
  <2>1. ReadingInv
    BY DEF IInv
  <2>2. ASSUME UNCHANGED reading
        PROVE  EachByteOnce'
    BY <2>2 DEF EachByteOnce, IsReading, Covers, Start
  <2>3. ASSUME reading' = NotReading
        PROVE  EachByteOnce'
    BY <2>3 DEF EachByteOnce, IsReading
  <2>4. ASSUME NEW n, NEW declared, NEW inflated, ReadData(n, declared, inflated)
        PROVE  EachByteOnce'
    <3>1. reading'.at = 0
      BY <2>4 DEF ReadData, Cut
    <3>2. QED
      BY <3>1 DEF EachByteOnce
  <2>5. ASSUME NEW header \in Headers, NEW isTes4 \in BOOLEAN, NEW declared \in DataSizes,
               NEW inflated \in DataSizes \cup {None}, Open(header, isTes4, declared, inflated)
        PROVE  EachByteOnce'
    BY <2>3, <2>4, <2>5 DEF Open, Fail
  <2>6. CASE Parse
    <3>1. ASSUME NEW extended \in BOOLEAN, NEW signature \in Signatures,
                 NEW declared \in FieldSizes, NEW size \in FieldSizes,
                 ParseField(extended, signature, declared, size)
          PROVE  EachByteOnce'
      BY <2>1, <3>1, ParseFieldPartitions
    <3>2. QED
      BY <2>3, <2>6, <3>1 DEF Parse
  <2>7. CASE Opened \/ RecordRead
    BY <2>3, <2>7 DEF Opened, RecordRead
  <2>8. CASE Request \/ (Navigate /\ UNCHANGED <<reading, phase>>) \/ UNCHANGED vars
    BY <2>2, <2>8 DEF Request, vars
  <2>9. ASSUME NEW n \in Given, NEW declared \in DataSizes, NEW inflated \in DataSizes \cup {None},
               ReadRecordData(n, declared, inflated)
        PROVE  EachByteOnce'
    BY <2>4, <2>9 DEF ReadRecordData
  <2>10. QED
    BY <2>5, <2>6, <2>7, <2>8, <2>9 DEF Next, Dropped
<1>3. IInv /\ EachByteOnce => FieldsPartitionData
  <2> SUFFICES ASSUME IInv, EachByteOnce, IsReading
               PROVE  /\ reading.at <= reading.length
                      /\ \A b \in 0..(reading.at - 1) :
                           Cardinality({i \in DOMAIN reading.fields :
                             /\ Start(reading.fields[i]) <= b
                             /\ b < reading.fields[i].data + reading.fields[i].size}) = 1
    BY DEF FieldsPartitionData
  <2>1. reading.at <= reading.length
    BY DEF IInv, ReadingInv
  <2>2. ASSUME NEW b \in 0..(reading.at - 1)
        PROVE  Cardinality({i \in DOMAIN reading.fields :
                 /\ Start(reading.fields[i]) <= b
                 /\ b < reading.fields[i].data + reading.fields[i].size}) = 1
    <3>1. PICK i \in DOMAIN reading.fields :
            /\ Covers(reading.fields[i], b)
            /\ \A j \in DOMAIN reading.fields : Covers(reading.fields[j], b) => j = i
      BY DEF EachByteOnce
    <3>2. {j \in DOMAIN reading.fields :
             /\ Start(reading.fields[j]) <= b
             /\ b < reading.fields[j].data + reading.fields[j].size} = {i}
      BY <3>1 DEF Covers
    <3>3. QED
      BY <3>2, FS_Singleton
  <2>3. QED
    BY <2>1, <2>2
<1>4. QED
  BY <1>1, <1>2, <1>3, FileInvariant, PTL DEF Spec

\* The fields of a record are its data, each byte once, and each field that has
\* an offset in the file stands there.
THEOREM RightFields == Spec => []FieldsAreRight
<1>1. FieldsPartitionData /\ FieldsLieInRecord => FieldsAreRight
  BY DEF FieldsAreRight
<1>2. QED
  BY <1>1, FieldsInRecord, FieldsPartition, PTL

-----------------------------------------------------------------------------
(* The layout of a file                                                    *)

\* The numbers of a header that is in the file.
LEMMA OffsetFacts ==
  ASSUME NEW f, NEW L, FileOK(f, L), NEW o \in DOMAIN f
  PROVE  /\ o \in Nat /\ DataIn(o) \in Nat /\ o < DataIn(o) /\ DataIn(o) = o + HeaderSize
         /\ DataIn(o) <= L
         /\ EndIn(f, o) \in Int
         /\ ~ GroupIn(f, o) => DataIn(o) <= EndIn(f, o)
         /\ L \in Nat /\ First(f) \in Nat
<1>1. \A p \in DOMAIN f : p \in Nat /\ p + HeaderSize <= L /\ f[p] \in Headers
  BY DEF FileOK
<1>2. 0 \in DOMAIN f /\ ~ GroupIn(f, 0) /\ L \in Nat
  BY DEF FileOK, GroupIn
<1>3. HeaderSize \in Nat \ {0}
  BY PluginNodesAssumption
<1>4. \A p \in DOMAIN f : f[p].size \in Nat
  BY <1>1, HeaderFacts
<1>5. \A p \in DOMAIN f : EndIn(f, p) \in Int /\ (~ GroupIn(f, p) => DataIn(p) <= EndIn(f, p))
  BY <1>1, <1>3, <1>4 DEF EndIn, DataIn
<1>6. First(f) \in Nat
  BY <1>2, <1>3, <1>4, <1>1 DEF First, EndIn, DataIn
<1>7. QED
  BY <1>1, <1>2, <1>3, <1>5, <1>6 DEF DataIn

\* In a file that was walked through, every place a node should begin at is one that
\* was visited.
LEMMA WalkedThrough ==
  ASSUME NEW f, NEW L, FileOK(f, L), NEW V, Walked(f, L, V, {}),
         NEW o \in Nat, o < L, o = First(f) \/ \E p \in V : Behind(f, o, p)
  PROVE  o \in V
<1> DEFINE I == {v \in V : EndIn(f, v) = o}
<1>1. V \subseteq DOMAIN f /\ \A v \in V : v \in Nat
  BY DEF Walked, Known, FileOK
<1>2. CASE I # {}
  <2>1. PICK m \in I : \A i \in I : m <= i
    BY <1>1, <1>2, MinFacts
  <2>2. m \in V /\ EndIn(f, m) = o
    BY <2>1
  <2>3. GoesOn(V, {}, o, {L} \cup {EndIn(f, g) : g \in {g \in V : GroupIn(f, g) /\ g < m}})
    BY <2>2 DEF Walked
  <2>4. ~ (\E g \in V : g < m /\ EndIn(f, g) = o)
    BY <1>1, <2>1, <2>2
  <2>5. QED
    BY <2>3, <2>4 DEF GoesOn
<1>3. CASE I = {}
  <2>1. CASE o = First(f)
    BY <2>1 DEF Walked, GoesOn
  <2>2. CASE \E p \in V : Behind(f, o, p)
    <3>1. PICK p \in V : GroupIn(f, p) /\ o = DataIn(p)
      BY <1>3, <2>2 DEF Behind
    <3>2. GoesOn(V, {}, o, {EndIn(f, p)})
      BY <3>1 DEF Walked
    <3>3. QED
      BY <1>3, <3>2 DEF GoesOn
  <2>3. QED
    BY <2>1, <2>2
<1>4. QED
  BY <1>2, <1>3

\* It is the whole file: of the nodes not visited the first one would have to be behind
\* one that was.
LEMMA WalkedIsAll ==
  ASSUME NEW f, NEW L, FileOK(f, L), NEW V, Walked(f, L, V, {}),
         \A o \in Known(f) : Reached(f, o)
  PROVE  V = Known(f)
<1> DEFINE I == Known(f) \ V
<1>1. \A o \in Known(f) : o \in Nat /\ o < L
  BY OffsetFacts DEF Known
<1>2. SUFFICES ASSUME I # {}
               PROVE  FALSE
  BY DEF Walked
<1>3. PICK m \in I : \A i \in I : m <= i
  BY <1>1, <1>2, MinFacts
<1>4. m = First(f) \/ \E p \in V : Behind(f, m, p)
  BY <1>1, <1>3 DEF Reached
<1>5. m \in V
  BY <1>1, <1>3, <1>4, WalkedThrough
<1>6. QED
  BY <1>3, <1>5

\* Looking at more headers changes nothing for what was visited.
LEMMA WalkedGrows ==
  ASSUME NEW f, NEW g, NEW L, NEW V, NEW R, FileOK(f, L), Walked(f, L, V, R),
         \A o \in DOMAIN f : o \in DOMAIN g /\ g[o] = f[o]
  PROVE  Walked(g, L, V, R)
<1>1. V \subseteq DOMAIN f /\ 0 \in DOMAIN f
  BY DEF Walked, Known, FileOK
<1>2. \A o \in DOMAIN f : GroupIn(g, o) = GroupIn(f, o) /\ EndIn(g, o) = EndIn(f, o)
  BY DEF GroupIn, EndIn
<1>3. First(g) = First(f)
  BY <1>1, <1>2 DEF First
<1>4. \A m, n \in V : Nests(g, m, n) = Nests(f, m, n)
  BY <1>1, <1>2 DEF Nests
<1>5. \A v \in V : {EndIn(g, h) : h \in {h \in V : GroupIn(g, h) /\ h < v}}
                   = {EndIn(f, h) : h \in {h \in V : GroupIn(f, h) /\ h < v}}
  BY <1>1, <1>2
<1>6. V \subseteq Known(g)
  BY DEF Walked, Known
<1>7. \A r \in R :
        /\ r.start \in Nat /\ r.end \in Nat
        /\ First(g) <= r.start /\ r.start <= r.end /\ r.end <= L
        /\ r.end = L \/ \E h \in V : GroupIn(g, h) /\ h < r.start /\ r.end = EndIn(g, h)
        /\ \A v \in V :
             \/ EndIn(g, v) <= r.start \/ r.end <= v
             \/ GroupIn(g, v) /\ DataIn(v) <= r.start /\ r.end <= EndIn(g, v)
  BY <1>1, <1>2, <1>3 DEF Walked
<1>8. \A v \in V :
        /\ GoesOn(V, R, EndIn(g, v), {L} \cup {EndIn(g, h) : h \in {h \in V : GroupIn(g, h) /\ h < v}})
        /\ GroupIn(g, v) => GoesOn(V, R, DataIn(v), {EndIn(g, v)})
  BY <1>1, <1>2, <1>5 DEF Walked
<1>9. GoesOn(V, R, First(g), {L}) /\ \A v \in V : First(g) <= v /\ DataIn(v) <= EndIn(g, v) /\ EndIn(g, v) <= L
  BY <1>1, <1>2, <1>3 DEF Walked
<1>10. QED
  BY <1>4, <1>6, <1>7, <1>8, <1>9 DEF Walked

\* A region of which nothing is left can be forgotten: it ends where a container does.
LEMMA DropRegion ==
  ASSUME NEW f, NEW L, NEW V, NEW R, NEW a, Walked(f, L, V, R \cup {Region(a, a)})
  PROVE  Walked(f, L, V, R)
<1>1. \A o, ends : GoesOn(V, R \cup {Region(a, a)}, o, ends) => GoesOn(V, R, o, ends)
  BY DEF GoesOn, Region
<1>2. QED
  BY <1>1 DEF Walked

\* The node at the beginning of the last region is visited: what is behind it is left,
\* and what is inside it, if that is anything.
LEMMA SplitRegion ==
  ASSUME NEW f, NEW L, FileOK(f, L), NEW V, NEW R, NEW a \in Known(f), NEW b,
         Walked(f, L, V, R \cup {Region(a, b)}),
         DataIn(a) <= EndIn(f, a), EndIn(f, a) <= b,
         \A r \in R : r.end <= a
  PROVE  Walked(f, L, V \cup {a},
                R \cup {Region(EndIn(f, a), b)} \cup
                (IF GroupIn(f, a) /\ DataIn(a) < EndIn(f, a)
                 THEN {Region(DataIn(a), EndIn(f, a))} ELSE {}))
<1> DEFINE W == V \cup {a}
           whole == Region(a, b)
           rest == Region(EndIn(f, a), b)
           inner == Region(DataIn(a), EndIn(f, a))
           Q == R \cup {rest} \cup (IF GroupIn(f, a) /\ DataIn(a) < EndIn(f, a) THEN {inner} ELSE {})
           e == EndIn(f, a)
           d == DataIn(a)
           Ends(X, v) == {L} \cup {EndIn(f, g) : g \in {g \in X : GroupIn(f, g) /\ g < v}}
<1>1. /\ a \in Nat /\ d \in Nat /\ a < d /\ d <= e /\ e <= b /\ e \in Int
      /\ L \in Nat /\ First(f) \in Nat
  BY OffsetFacts DEF Known
<1>2. /\ whole.start = a /\ whole.end = b /\ rest.start = e /\ rest.end = b
      /\ inner.start = d /\ inner.end = e
  BY DEF Region
<1>3. V \subseteq Known(f) /\ \A v \in V : /\ v \in Nat /\ EndIn(f, v) \in Int /\ DataIn(v) \in Nat
                                     /\ v < DataIn(v) /\ DataIn(v) <= EndIn(f, v)
  BY OffsetFacts DEF Walked, Known
<1>4. \A r \in R \cup {whole} :
        /\ r.start \in Nat /\ r.end \in Nat
        /\ First(f) <= r.start /\ r.start <= r.end /\ r.end <= L
        /\ r.end = L \/ \E g \in V : GroupIn(f, g) /\ g < r.start /\ r.end = EndIn(f, g)
        /\ \A v \in V :
             \/ EndIn(f, v) <= r.start \/ r.end <= v
             \/ GroupIn(f, v) /\ DataIn(v) <= r.start /\ r.end <= EndIn(f, v)
  BY DEF Walked
<1>5. b \in Nat /\ First(f) <= a /\ b <= L
  BY <1>2, <1>4
<1>6. \A v \in V : EndIn(f, v) <= a \/ b <= v \/ (GroupIn(f, v) /\ DataIn(v) <= a /\ b <= EndIn(f, v))
  BY <1>2, <1>4
<1> HIDE DEF e, d, whole, rest, inner
<1>7. \A v \in W : First(f) <= v /\ DataIn(v) <= EndIn(f, v) /\ EndIn(f, v) <= L
  BY <1>1, <1>5 DEF Walked, e, d
<1>8. \A m, n \in W : m < n => Nests(f, m, n)
  <2>1. \A m, n \in V : m < n => Nests(f, m, n)
    BY DEF Walked
  <2>2. \A n \in V : a < n => Nests(f, a, n)
    BY <1>1, <1>3, <1>5, <1>6 DEF Nests, e, d
  <2>3. \A m \in V : m < a => Nests(f, m, a)
    BY <1>1, <1>3, <1>5, <1>6 DEF Nests, e, d
  <2>4. QED
    BY <1>1, <2>1, <2>2, <2>3
<1>9. \A r \in Q :
        /\ r.start \in Nat /\ r.end \in Nat
        /\ First(f) <= r.start /\ r.start <= r.end /\ r.end <= L
        /\ r.end = L \/ \E g \in W : GroupIn(f, g) /\ g < r.start /\ r.end = EndIn(f, g)
        /\ \A v \in W :
             \/ EndIn(f, v) <= r.start \/ r.end <= v
             \/ GroupIn(f, v) /\ DataIn(v) <= r.start /\ r.end <= EndIn(f, v)
  <2>1. ASSUME NEW r \in R
        PROVE  /\ r.start \in Nat /\ r.end \in Nat
               /\ First(f) <= r.start /\ r.start <= r.end /\ r.end <= L
               /\ r.end = L \/ \E g \in W : GroupIn(f, g) /\ g < r.start /\ r.end = EndIn(f, g)
               /\ \A v \in W :
                    \/ EndIn(f, v) <= r.start \/ r.end <= v
                    \/ GroupIn(f, v) /\ DataIn(v) <= r.start /\ r.end <= EndIn(f, v)
    BY <1>4, <2>1
  <2>2. /\ rest.start \in Nat /\ rest.end \in Nat
        /\ First(f) <= rest.start /\ rest.start <= rest.end /\ rest.end <= L
    BY <1>1, <1>2, <1>5
  <2>3. rest.end = L \/ \E g \in W : GroupIn(f, g) /\ g < rest.start /\ rest.end = EndIn(f, g)
    <3>1. b = L \/ \E g \in V : GroupIn(f, g) /\ g < a /\ b = EndIn(f, g)
      BY <1>2, <1>4
    <3>2. QED
      BY <1>1, <1>2, <1>3, <3>1
  <2>4. \A v \in W :
          \/ EndIn(f, v) <= rest.start \/ rest.end <= v
          \/ GroupIn(f, v) /\ DataIn(v) <= rest.start /\ rest.end <= EndIn(f, v)
    BY <1>1, <1>2, <1>3, <1>5, <1>6 DEF e
  <2>5. ASSUME GroupIn(f, a), d < e
        PROVE  /\ inner.start \in Nat /\ inner.end \in Nat
               /\ First(f) <= inner.start /\ inner.start <= inner.end /\ inner.end <= L
               /\ \E g \in W : GroupIn(f, g) /\ g < inner.start /\ inner.end = EndIn(f, g)
               /\ \A v \in W :
                    \/ EndIn(f, v) <= inner.start \/ inner.end <= v
                    \/ GroupIn(f, v) /\ DataIn(v) <= inner.start /\ inner.end <= EndIn(f, v)
    <3>1. /\ inner.start \in Nat /\ inner.end \in Nat
          /\ First(f) <= inner.start /\ inner.start <= inner.end /\ inner.end <= L
      BY <1>1, <1>2, <1>5, <2>5
    <3>2. \E g \in W : GroupIn(f, g) /\ g < inner.start /\ inner.end = EndIn(f, g)
      BY <1>1, <1>2, <2>5 DEF e
    <3>3. \A v \in V :
            \/ EndIn(f, v) <= inner.start \/ inner.end <= v
            \/ GroupIn(f, v) /\ DataIn(v) <= inner.start /\ inner.end <= EndIn(f, v)
      BY <1>1, <1>2, <1>3, <1>5, <1>6
    <3>4. GroupIn(f, a) /\ DataIn(a) <= inner.start /\ inner.end <= EndIn(f, a)
      BY <1>1, <1>2, <2>5 DEF e, d
    <3>5. QED
      BY <3>1, <3>2, <3>3, <3>4
  <2>6. QED
    BY <2>1, <2>2, <2>3, <2>4, <2>5 DEF d, e, inner
<1>10. \A o, ends : GoesOn(V, R \cup {whole}, o, ends) => GoesOn(W, Q, o, ends)
  BY <1>2 DEF GoesOn
<1>11. GoesOn(W, Q, First(f), {L})
  BY <1>10 DEF Walked, whole
<1>12. ASSUME NEW v \in W
       PROVE  /\ GoesOn(W, Q, EndIn(f, v), Ends(W, v))
              /\ GroupIn(f, v) => GoesOn(W, Q, DataIn(v), {EndIn(f, v)})
  <2>1. CASE v \in V
    <3>1. GoesOn(V, R \cup {whole}, EndIn(f, v), Ends(V, v))
      BY <2>1 DEF Walked, whole
    <3>2. Ends(V, v) \subseteq Ends(W, v)
      OBVIOUS
    <3>3. \A o, x, y : x \subseteq y /\ GoesOn(W, Q, o, x) => GoesOn(W, Q, o, y)
      BY DEF GoesOn
    <3>4. GroupIn(f, v) => GoesOn(V, R \cup {whole}, DataIn(v), {EndIn(f, v)})
      BY <2>1 DEF Walked, whole
    <3>5. GoesOn(W, Q, EndIn(f, v), Ends(V, v))
      BY <1>10, <3>1
    <3>6. GoesOn(W, Q, EndIn(f, v), Ends(W, v))
      BY <3>2, <3>3, <3>5
    <3>7. QED
      BY <1>10, <3>4, <3>6
  <2>2. CASE v = a
    <3>1. b \in Ends(W, a)
      <4>1. b = L \/ \E g \in V : GroupIn(f, g) /\ g < a /\ b = EndIn(f, g)
        BY <1>2, <1>4
      <4>2. QED
        BY <4>1
    <3>2. GoesOn(W, Q, e, Ends(W, a))
      BY <1>2, <3>1 DEF GoesOn
    <3>3. GroupIn(f, a) => GoesOn(W, Q, d, {e})
      <4>1. CASE d = e
        BY <4>1 DEF GoesOn
      <4>2. CASE d < e
        BY <1>2, <4>2 DEF GoesOn, d, e, inner
      <4>3. QED
        BY <1>1, <4>1, <4>2
    <3>4. QED
      BY <2>2, <3>2, <3>3 DEF d, e
  <2>3. QED
    BY <2>1, <2>2
<1>13. W \subseteq Known(f)
  BY <1>3
<1> HIDE DEF Q, W
<1>14. Walked(f, L, W, Q)
  BY <1>7, <1>8, <1>9, <1>11, <1>12, <1>13 DEF Walked
<1>15. QED
  BY <1>14 DEF W, Q, rest, inner

-----------------------------------------------------------------------------
(* An opened file                                                          *)

\* OpenAsync leaves a file whose first node begins behind the TES4 record.
LEMMA OpenedFile ==
  ASSUME BytesTypeOK, OpenInv, phase = "open"
  PROVE  /\ FileOK(file, length) /\ length \in Nat
         /\ Contents(None) = [start |-> First(file), end |-> length, depth |-> 0]
         /\ First(file) \in Nat /\ First(file) <= length
<1>1. length \in Nat
  BY PluginNodesAssumption DEF BytesTypeOK
<1>2. 0 \in DOMAIN file /\ HeaderRecord \in FileNodes /\ ~IsGroup(HeaderRecord)
  BY DEF OpenInv
<1>3. HeaderRecord.header = file[0] /\ HeaderRecord.offset = 0
  BY DEF HeaderRecord, Node
<1>4. FileOK(file, length)
  BY <1>1, <1>2, <1>3 DEF FileOK, BytesTypeOK, IsGroup
<1>5. EndOffset(HeaderRecord) = First(file)
  BY <1>2, <1>3, PluginNodesAssumption
  DEF First, EndIn, DataIn, EndOffset, DataOffset, DataSize, GroupIn, IsGroup
<1>6. Contents(None) = [start |-> First(file), end |-> length, depth |-> 0]
  BY <1>5 DEF Contents
<1>7. First(file) <= length
  BY <1>2, <1>5 DEF FileNodes
<1>8. First(file) \in Nat
  BY <1>2, <1>4, OffsetFacts
<1>9. QED
  BY <1>1, <1>4, <1>6, <1>7, <1>8

\* What a node of the file says, its header says.
LEMMA KnownNodeFacts ==
  ASSUME NEW n \in KnownNodes
  PROVE  /\ n \in FileNodes /\ n \in NodeSet /\ n.offset \in DOMAIN file
         /\ n.offset \in Nat /\ n.depth \in Nat
         /\ IsGroup(n) = GroupIn(file, n.offset)
         /\ DataOffset(n) = DataIn(n.offset) /\ DataOffset(n) \in Nat /\ n.offset < DataOffset(n)
         /\ EndOffset(n) = EndIn(file, n.offset) /\ EndOffset(n) \in Int
         /\ DataOffset(n) <= EndOffset(n) /\ EndOffset(n) <= length
         /\ DataSize(n) \in Nat /\ EndOffset(n) = DataOffset(n) + DataSize(n)
         /\ n.header = file[n.offset] /\ n # None
<1>1. n \in FileNodes /\ n.offset \in DOMAIN file /\ n.header = file[n.offset]
  BY DEF KnownNodes
<1>2. n \in NodeSet /\ DataSize(n) >= 0 /\ EndOffset(n) <= length
  BY <1>1 DEF FileNodes
<1>3. /\ n.offset \in Nat /\ n.depth \in Nat /\ n # None
      /\ DataOffset(n) \in Nat /\ n.offset < DataOffset(n)
      /\ DataSize(n) \in Int /\ EndOffset(n) \in Int
      /\ EndOffset(n) = DataOffset(n) + DataSize(n)
  BY <1>2, NodeFacts
<1>4. IsGroup(n) = GroupIn(file, n.offset) /\ DataOffset(n) = DataIn(n.offset)
  BY <1>1 DEF IsGroup, GroupIn, DataOffset, DataIn
<1>5. EndOffset(n) = EndIn(file, n.offset)
  BY <1>1, <1>4 DEF EndOffset, EndIn, DataSize
<1>6. QED
  BY <1>1, <1>2, <1>3, <1>4, <1>5

\* The node at an offset that was looked at, if it fits into the file.
LEMMA NodeAtFacts ==
  ASSUME NEW f, NEW o \in DOMAIN f, NEW d
  PROVE  LET n == Node(o, d, f[o]) IN
         /\ n.offset = o /\ n.header = f[o] /\ n.depth = d
         /\ IsGroup(n) = GroupIn(f, o)
         /\ DataOffset(n) = DataIn(o)
         /\ EndOffset(n) = EndIn(f, o)
         /\ EndOffset(n) = DataOffset(n) + DataSize(n)
BY DEF Node, IsGroup, GroupIn, DataOffset, DataIn, EndOffset, EndIn, DataSize

\* More headers were looked at.
Grows(f, g) == \A o \in DOMAIN f : o \in DOMAIN g /\ g[o] = f[o]

\* Headers that are looked at later do not change what is known.
LEMMA ReachedGrows ==
  ASSUME NEW f, NEW g, NEW L, FileOK(f, L), Grows(f, g)
  PROVE  /\ First(g) = First(f) /\ Known(f) \subseteq Known(g)
         /\ \A o \in DOMAIN f : GroupIn(g, o) = GroupIn(f, o) /\ EndIn(g, o) = EndIn(f, o)
         /\ \A o : Reached(f, o) => Reached(g, o)
         /\ \A start, end : IsContents(f, L, start, end) => IsContents(g, L, start, end)
<1>1. 0 \in DOMAIN f /\ Known(f) \subseteq DOMAIN f
  BY DEF FileOK, Known
<1>2. Known(f) \subseteq Known(g)
  BY DEF Known, Grows
<1>3. \A o \in DOMAIN f : GroupIn(g, o) = GroupIn(f, o) /\ EndIn(g, o) = EndIn(f, o)
  BY DEF GroupIn, EndIn, Grows
<1>4. First(g) = First(f)
  BY <1>1, <1>3 DEF First
<1>5. \A o : Reached(f, o) => Reached(g, o)
  BY <1>1, <1>2, <1>3, <1>4 DEF Reached, Behind
<1>6. \A start, end : IsContents(f, L, start, end) => IsContents(g, L, start, end)
  BY <1>1, <1>2, <1>3, <1>4 DEF IsContents
<1>7. QED
  BY <1>2, <1>3, <1>4, <1>5, <1>6

\* Nodes that are known stay known.
LEMMA KnownNodesGrow ==
  ASSUME length' = length, Grows(file, file')
  PROVE  KnownNodes \subseteq KnownNodes'
<1>1. FileNodes' = FileNodes
  BY SameFile
<1>2. QED
  BY <1>1 DEF KnownNodes, Grows

-----------------------------------------------------------------------------
(* Steps that end an operation, or start one                               *)

\* Between operations nothing is left to be said but what was answered and indexed.
LEMMA EndWalk ==
  ASSUME phase = "open", phase' = phase, NEW ok, NEW result, End(ok, result),
         \A o \in Known(file') : First(file') <= o /\ Reached(file', o),
         op.kind \in {"find", "path"} =>
           /\ \A i \in DOMAIN result : result[i] \in KnownNodes'
           /\ index' # None /\ result # <<>> /\ IsGroup(Last(result)) =>
                Last(result).depth = DepthOf(file', Last(result)),
         IndexInv', PathIsRight', FindIsRight', StatisticsAreRight'
  PROVE  WalkInv'
<1>1. /\ answer' = [kind |-> op.kind, root |-> op.root, target |-> op.target,
                    ok |-> ok, result |-> result]
      /\ op' = Idle /\ pending' = <<>> /\ scan' = NoScan
  BY DEF End
<1>2. op'.kind = "none" /\ DOMAIN pending' = {} /\ answer'.kind = op.kind /\ answer'.result = result
  BY <1>1 DEF Idle
<1>3. TraceInv'
  BY <1>1, <1>2 DEF TraceInv
<1>4. OrderInv'
  BY <1>1, <1>2 DEF OrderInv
<1>5. IndexWalkInv' /\ DescentInv' /\ CountInv'
  BY <1>2 DEF IndexWalkInv, DescentInv, CountInv
<1>6. DepthInv'
  BY <1>1, <1>2 DEF DepthInv
<1>7. QED
  BY <1>3, <1>4, <1>5, <1>6 DEF WalkInv

-----------------------------------------------------------------------------
(* Groups around a place in a file that was visited                        *)

\* A node of the file is what the header at its offset says.
LEMMA NodesOfFacts ==
  ASSUME NEW f, NEW n \in NodesOf(f)
  PROVE  /\ n.offset \in Known(f) /\ n = Node(n.offset, 0, f[n.offset])
         /\ IsGroup(n) = GroupIn(f, n.offset)
         /\ DataOffset(n) = DataIn(n.offset) /\ EndOffset(n) = EndIn(f, n.offset)
<1>1. PICK o \in Known(f) : n = Node(o, 0, f[o])
  BY DEF NodesOf
<1>2. o \in DOMAIN f
  BY DEF Known
<1>3. QED
  BY <1>1, <1>2, NodeAtFacts

\* A file holds finitely many nodes: each has an offset of its own.
LEMMA NodesOfFinite ==
  ASSUME NEW f, NEW L, FileOK(f, L)
  PROVE  IsFiniteSet(NodesOf(f))
<1> DEFINE at == [n \in NodesOf(f) |-> n.offset]
<1>1. L \in Nat /\ \A o \in Known(f) : o \in 0..L
  <2>1. \A o \in Known(f) : o \in Nat /\ DataIn(o) \in Nat /\ o < DataIn(o) /\ DataIn(o) <= L
    BY OffsetFacts DEF Known
  <2>2. L \in Nat
    BY DEF FileOK
  <2>3. QED
    BY <2>1, <2>2
<1>2. at \in [NodesOf(f) -> 0..L]
  BY <1>1, NodesOfFacts
<1>3. \A m, n \in NodesOf(f) : at[m] = at[n] => m = n
  <2>1. ASSUME NEW m \in NodesOf(f), NEW n \in NodesOf(f), at[m] = at[n]
        PROVE  m = n
    <3>1. m = Node(m.offset, 0, f[m.offset]) /\ n = Node(n.offset, 0, f[n.offset])
      BY NodesOfFacts
    <3>2. QED
      BY <2>1, <3>1
  <2>2. QED
    BY <2>1
<1> HIDE DEF at
<1>4. at \in Injection(NodesOf(f), 0..L)
  BY <1>2, <1>3 DEF Injection, IsInjective
<1>5. IsFiniteSet(0..L)
  BY <1>1, FS_Interval
<1>6. QED
  BY <1>4, <1>5, FS_Injection

\* No group is around the whole file.
LEMMA AroundRoot ==
  ASSUME NEW f, NEW L, FileOK(f, L), \A o \in Known(f) : First(f) <= o
  PROVE  Cardinality(Around(f, First(f), L)) = 0
<1>1. ASSUME NEW g \in NodesOf(f)
      PROVE  ~ (DataOffset(g) <= First(f))
  BY NodesOfFacts, OffsetFacts DEF Known
<1>2. Around(f, First(f), L) = {}
  BY <1>1 DEF Around
<1>3. QED
  BY <1>2, FS_EmptySet

\* Around the contents of a group are the group and the groups around it.
LEMMA AroundContents ==
  ASSUME NEW f, NEW L, FileOK(f, L), Closed(f, L), NEW g \in Known(f), GroupIn(f, g)
  PROVE  /\ Cardinality(Around(f, DataIn(g), EndIn(f, g)))
              = Cardinality(Around(f, g, EndIn(f, g))) + 1
         /\ Cardinality(Around(f, g, EndIn(f, g))) \in Nat
<1> DEFINE n == Node(g, 0, f[g])
           inner == Around(f, DataIn(g), EndIn(f, g))
           outer == Around(f, g, EndIn(f, g))
<1>1. n \in NodesOf(f) /\ IsGroup(n) /\ DataOffset(n) = DataIn(g) /\ EndOffset(n) = EndIn(f, g) /\ n.offset = g
  BY NodeAtFacts DEF NodesOf, Known
<1>2. g \in Nat /\ DataIn(g) \in Nat /\ g < DataIn(g) /\ EndIn(f, g) \in Int /\ DataIn(g) <= EndIn(f, g)
  BY OffsetFacts DEF Known, Closed, Walked
<1>3. ASSUME NEW h \in NodesOf(f), DataOffset(h) <= DataIn(g), EndIn(f, g) <= EndOffset(h), h # n
      PROVE  DataOffset(h) <= g
  <2>1. /\ h.offset \in Known(f) /\ h = Node(h.offset, 0, f[h.offset])
        /\ DataOffset(h) = DataIn(h.offset) /\ EndOffset(h) = EndIn(f, h.offset)
    BY NodesOfFacts
  <2>2. /\ h.offset \in Nat /\ DataIn(h.offset) = h.offset + HeaderSize /\ DataIn(g) = g + HeaderSize
        /\ EndIn(f, h.offset) \in Int /\ DataIn(h.offset) \in Nat
    BY <2>1, OffsetFacts DEF Known
  <2>3. h.offset # g
    BY <1>3, <2>1
  <2>4. h.offset < g
    BY <1>2, <1>3, <2>1, <2>2, <2>3, PluginNodesAssumption
  <2>5. Nests(f, h.offset, g)
    BY <2>1, <2>4 DEF Closed, Walked
  <2>6. QED
    BY <1>2, <1>3, <2>1, <2>2, <2>5 DEF Nests
<1>4. ASSUME NEW h \in NodesOf(f), DataOffset(h) <= g
      PROVE  DataOffset(h) <= DataIn(g) /\ h # n
  BY <1>1, <1>2, <1>4, NodesOfFacts, OffsetFacts DEF Known
<1>5. inner = outer \cup {n}
  <2>1. \A h \in inner : h \in outer \cup {n}
    BY <1>3 DEF Around
  <2>2. \A h \in outer : h \in inner
    BY <1>4 DEF Around
  <2>3. n \in inner
    BY <1>1, <1>2 DEF Around
  <2>4. QED
    BY <2>1, <2>2, <2>3
<1>6. n \notin outer
  BY <1>1, <1>4 DEF Around
<1>7. IsFiniteSet(outer)
  BY NodesOfFinite, FS_Subset DEF Around
<1> HIDE DEF n, inner, outer
<1>8. Cardinality(inner) = Cardinality(outer) + 1 /\ Cardinality(outer) \in Nat
  BY <1>5, <1>6, <1>7, FS_AddElement, FS_CardinalityType
<1>9. QED
  BY <1>8 DEF inner, outer

\* Around a node of a run are the groups around the container.
LEMMA AroundSibling ==
  ASSUME NEW f, NEW L, FileOK(f, L), Closed(f, L), NEW start, NEW end, IsContents(f, L, start, end),
         NEW a \in Known(f), start <= a, EndIn(f, a) <= end,
         \A o \in Known(f) : start <= o /\ o < a => EndIn(f, o) <= a
  PROVE  Around(f, a, EndIn(f, a)) = Around(f, start, end)
<1>1. /\ a \in Nat /\ EndIn(f, a) \in Int /\ a < EndIn(f, a) /\ L \in Nat /\ First(f) \in Nat
  BY OffsetFacts DEF Known, Closed, Walked
<1>2. \A o \in Known(f) : /\ o \in Nat /\ DataIn(o) \in Nat /\ o < DataIn(o) /\ EndIn(f, o) \in Int
                          /\ First(f) <= o /\ DataIn(o) <= EndIn(f, o) /\ EndIn(f, o) <= L
  BY OffsetFacts DEF Known, Closed, Walked
<1>3. start \in Nat /\ end \in Int
  BY <1>1, <1>2 DEF IsContents
<1>4. ASSUME NEW g \in Known(f), DataIn(g) <= a, EndIn(f, a) <= EndIn(f, g)
      PROVE  DataIn(g) <= start /\ end <= EndIn(f, g)
  <2>1. g < start
    BY <1>1, <1>2, <1>3, <1>4
  <2>2. PICK c \in Known(f) : start = DataIn(c) /\ end = EndIn(f, c)
    <3>1. start # First(f)
      BY <1>1, <1>2, <1>4, <2>1
    <3>2. QED
      BY <3>1 DEF IsContents
  <2>3. CASE g = c
    BY <1>2, <2>2, <2>3
  <2>4. CASE g < c
    <3>1. Nests(f, g, c)
      BY <2>4 DEF Closed, Walked
    <3>2. QED
      BY <1>1, <1>2, <1>4, <2>2, <2>4, <3>1 DEF Nests
  <2>5. CASE c < g
    <3>1. DataIn(g) = g + HeaderSize /\ DataIn(c) = c + HeaderSize /\ HeaderSize \in Nat \ {0}
      BY PluginNodesAssumption DEF DataIn
    <3>2. Nests(f, c, g)
      BY <2>5 DEF Closed, Walked
    <3>3. QED
      BY <1>1, <1>2, <1>4, <2>1, <2>2, <2>5, <3>1, <3>2 DEF Nests
  <2>6. QED
    BY <1>2, <2>3, <2>4, <2>5
<1>5. ASSUME NEW g \in Known(f), DataIn(g) <= start, end <= EndIn(f, g)
      PROVE  DataIn(g) <= a /\ EndIn(f, a) <= EndIn(f, g)
  BY <1>1, <1>2, <1>3, <1>5
<1>6. QED
  BY <1>4, <1>5, NodesOfFacts DEF Around

-----------------------------------------------------------------------------
(* What is known during an operation                                       *)

\* An operation runs in an opened file, on nodes that are known.
LEMMA Walking ==
  ASSUME IInv, WalkInv, op # Idle
  PROVE  /\ phase = "open" /\ FileOK(file, length) /\ length \in Nat /\ First(file) \in Nat
         /\ TreeInv /\ BytesTypeOK /\ TraceInv /\ OrderInv
         /\ \A o \in Known(file) : First(file) <= o /\ Reached(file, o)
<1>1. TreeInv /\ BytesTypeOK /\ OpenInv /\ TraceInv /\ OrderInv
  BY DEF IInv, WalkInv
<1>2. phase = "open"
  BY <1>1 DEF TraceInv
<1>3. QED
  BY <1>1, <1>2, OpenedFile DEF TraceInv

\* A container begins where a node should, and ends in the file.
LEMMA ContainerFacts ==
  ASSUME NEW f, NEW L, FileOK(f, L), \A o \in Known(f) : First(f) <= o,
         NEW start, NEW end, IsContents(f, L, start, end), start <= end
  PROVE  start \in Nat /\ end \in Int /\ First(f) <= start /\ Reached(f, start)
<1>1. First(f) \in Nat /\ L \in Nat
  BY OffsetFacts DEF FileOK
<1>2. CASE start = First(f) /\ end = L
  BY <1>1, <1>2 DEF Reached
<1>3. ASSUME NEW g \in Known(f), GroupIn(f, g), start = DataIn(g), start <= end, end = EndIn(f, g)
      PROVE  start \in Nat /\ end \in Int /\ First(f) <= start /\ Reached(f, start)
  <2>1. g \in Nat /\ DataIn(g) \in Nat /\ g < DataIn(g) /\ EndIn(f, g) \in Int /\ First(f) <= g
    BY OffsetFacts DEF Known
  <2>2. Reached(f, start)
    BY <1>3, <2>1 DEF Reached, Behind
  <2>3. QED
    BY <1>1, <1>3, <2>1, <2>2
<1>4. QED
  BY <1>2, <1>3 DEF IsContents

\* Where a scan is, and where the nodes it found are.
LEMMA Scanned ==
  ASSUME IInv, WalkInv, scan # NoScan
  PROVE  /\ op # Idle
         /\ scan.start \in Nat /\ scan.end \in Nat /\ scan.at \in Nat /\ scan.depth \in Nat
         /\ First(file) <= scan.start /\ scan.start <= scan.at /\ scan.at <= scan.end /\ scan.end <= length
         /\ IsContents(file, length, scan.start, scan.end) /\ Reached(file, scan.at)
         /\ scan.nodes \in Seq(KnownNodes) /\ scan.nodes \in Seq(FileNodes)
         /\ \A n \in ToSet(scan.nodes) :
              /\ n \in KnownNodes /\ scan.start <= n.offset /\ EndOffset(n) <= scan.at
              /\ n.depth = scan.depth
<1>1. TreeInv /\ length \in Nat /\ op # Idle /\ TraceInv /\ OrderInv /\ FileOK(file, length)
      /\ First(file) \in Nat /\ \A o \in Known(file) : First(file) <= o
  <2>1. op # Idle
    BY DEF IInv, TreeInv
  <2>2. QED
    BY <2>1, Walking
<1>2. /\ scan \in [start : Nat, end : Int, depth : Nat, at : Nat, from : Nat, to : Nat,
                   nodes : Seq(NodesIn(scan))]
      /\ scan.start \in Nat /\ scan.end \in Int /\ scan.at \in Nat
      /\ scan.end <= length /\ scan.start <= scan.at
      /\ scan.nodes \in Seq(NodesIn(scan))
  BY <1>1, ScanFacts
<1>3. scan.depth \in Nat
  BY <1>2
<1>4. /\ IsContents(file, length, scan.start, scan.end) /\ Reached(file, scan.at)
      /\ \A i \in DOMAIN scan.nodes : scan.nodes[i] \in KnownNodes
  BY <1>1 DEF TraceInv
<1>5. scan.at <= scan.end /\ \A k \in DOMAIN scan.nodes : EndOffset(scan.nodes[k]) <= scan.at /\ scan.nodes[k].depth = scan.depth
  BY <1>1 DEF OrderInv
<1>6. First(file) <= scan.start /\ scan.end \in Nat
  BY <1>1, <1>2, <1>4, <1>5, ContainerFacts
<1>7. scan.nodes \in Seq(KnownNodes) /\ scan.nodes \in Seq(FileNodes)
  BY <1>2, <1>4 DEF NodesIn
<1>8. ASSUME NEW n \in ToSet(scan.nodes)
      PROVE  /\ n \in KnownNodes /\ scan.start <= n.offset /\ EndOffset(n) <= scan.at
             /\ n.depth = scan.depth
  <2>1. PICK k \in DOMAIN scan.nodes : n = scan.nodes[k]
    BY <1>8 DEF ToSet
  <2>2. n \in NodesIn(scan)
    BY <1>2, <2>1
  <2>3. QED
    BY <1>4, <1>5, <2>1, <2>2 DEF NodesIn
<1>9. QED
  BY <1>1, <1>2, <1>3, <1>4, <1>5, <1>6, <1>7, <1>8

\* In a file that was indexed a node begins wherever a scan goes on, and fits.
LEMMA ClosedScan ==
  ASSUME NEW f, NEW L, FileOK(f, L), Closed(f, L), NEW start, NEW end \in Nat, IsContents(f, L, start, end),
         end <= L, NEW a \in Nat, start <= a, a < end, Reached(f, a)
  PROVE  a \in Known(f) /\ DataIn(a) <= EndIn(f, a) /\ EndIn(f, a) <= end
<1>1. \A o \in Known(f) : /\ o \in Nat /\ DataIn(o) \in Nat /\ o < DataIn(o) /\ EndIn(f, o) \in Int
                          /\ First(f) <= o /\ DataIn(o) <= EndIn(f, o) /\ EndIn(f, o) <= L
  BY OffsetFacts DEF Known, Closed, Walked
<1>2. L \in Nat /\ a < L
  BY DEF FileOK
<1>3. a = First(f) \/ \E p \in Known(f) : Behind(f, a, p)
  BY DEF Reached
<1>4. a \in Known(f)
  BY <1>2, <1>3, WalkedThrough DEF Closed
<1>5. CASE end = L
  BY <1>1, <1>4, <1>5
<1>6. ASSUME NEW g \in Known(f), start = DataIn(g), end = EndIn(f, g)
      PROVE  EndIn(f, a) <= end
  <2>1. g < a
    BY <1>1, <1>6
  <2>2. Nests(f, g, a)
    BY <1>4, <2>1 DEF Closed, Walked
  <2>3. QED
    BY <1>1, <1>4, <1>6, <2>2 DEF Nests
<1>7. QED
  BY <1>1, <1>4, <1>5, <1>6 DEF IsContents

-----------------------------------------------------------------------------
(* Steps that change nothing of a walk                                     *)

\* What is said of the last answer and the index depends on nothing else.
LEMMA SameAnswer ==
  ASSUME UNCHANGED <<length, file, answer, index>>
  PROVE  /\ IndexInv' = IndexInv
         /\ PathIsRight' = PathIsRight
         /\ FindIsRight' = FindIsRight
         /\ StatisticsAreRight' = StatisticsAreRight
<1>1. Nodes' = Nodes
  BY DEF Nodes, NodeAt
<1>2. IndexInv' = IndexInv
  BY DEF IndexInv
<1>3. PathIsRight' = PathIsRight
  BY DEF PathIsRight
<1>4. FindIsRight' = FindIsRight
  BY <1>1 DEF FindIsRight
<1>5. StatisticsAreRight' = StatisticsAreRight
  BY <1>1 DEF StatisticsAreRight, Ancestors
<1>6. QED
  BY <1>2, <1>3, <1>4, <1>5

\* A read of another window moves nothing.
LEMMA SameScan ==
  ASSUME WalkInv, UNCHANGED <<bytes, op, pending, answer, index, phase>>, scan # NoScan, scan' # NoScan,
         scan'.start = scan.start, scan'.end = scan.end, scan'.depth = scan.depth,
         scan'.at = scan.at, scan'.nodes = scan.nodes
  PROVE  WalkInv'
<1>1. /\ length' = length /\ file' = file /\ op' = op /\ pending' = pending
      /\ answer' = answer /\ index' = index /\ phase' = phase
  BY DEF bytes
<1>2. KnownNodes' = KnownNodes
  BY <1>1, SameFile DEF KnownNodes
<1>3. TraceInv'
  BY <1>1, <1>2 DEF WalkInv, TraceInv
<1>4. OrderInv'
  BY <1>1 DEF WalkInv, OrderInv
<1>5. Later' = Later /\ Regions' = Regions /\ Unvisited' = Unvisited /\ Ahead' = Ahead
  BY <1>1 DEF Later, Regions, Unvisited, Ahead
<1>6. Done' = Done
  BY <1>1, <1>5 DEF Done
<1>7. IndexWalkInv' /\ CountInv'
  <2>1. IndexWalkInv'
    BY <1>1, <1>5 DEF WalkInv, IndexWalkInv
  <2>2. CountInv'
    BY <1>1, <1>6 DEF WalkInv, CountInv
  <2>3. QED
    BY <2>1, <2>2
<1>8. DescentInv'
  BY <1>1 DEF WalkInv, DescentInv, LeadsOn
<1>9. DepthInv'
  BY <1>1 DEF WalkInv, DepthInv
<1>10. IndexInv' /\ PathIsRight' /\ FindIsRight' /\ StatisticsAreRight'
  BY <1>1, SameAnswer DEF WalkInv
<1>11. QED
  BY <1>3, <1>4, <1>7, <1>8, <1>9, <1>10 DEF WalkInv

\* Steps outside the walk and the file.
LEMMA QuietWalk ==
  ASSUME WalkInv, UNCHANGED <<bytes, tree>>, phase # "open" \/ phase' = phase
  PROVE  WalkInv'
<1>1. /\ length' = length /\ file' = file /\ op' = op /\ pending' = pending
      /\ answer' = answer /\ index' = index /\ scan' = scan
  BY DEF bytes, tree
<1>2. KnownNodes' = KnownNodes
  BY <1>1, SameFile DEF KnownNodes
<1>3. TraceInv'
  BY <1>1, <1>2 DEF WalkInv, TraceInv
<1>4. OrderInv'
  BY <1>1 DEF WalkInv, OrderInv
<1>5. Later' = Later /\ Regions' = Regions /\ Unvisited' = Unvisited /\ Ahead' = Ahead
  BY <1>1 DEF Later, Regions, Unvisited, Ahead
<1>6. Done' = Done
  BY <1>1, <1>5 DEF Done
<1>7. IndexWalkInv'
  BY <1>1, <1>5 DEF WalkInv, IndexWalkInv
<1>8. CountInv' /\ DescentInv'
  <2>1. CountInv'
    BY <1>1, <1>6 DEF WalkInv, CountInv
  <2>2. DescentInv'
    BY <1>1 DEF WalkInv, DescentInv
  <2>3. QED
    BY <2>1, <2>2
<1>9. DepthInv'
  BY <1>1 DEF WalkInv, DepthInv
<1>10. IndexInv' /\ PathIsRight' /\ FindIsRight' /\ StatisticsAreRight'
  BY <1>1, SameAnswer DEF WalkInv
<1>11. QED
  BY <1>3, <1>4, <1>7, <1>8, <1>9, <1>10 DEF WalkInv

\* Before a file is opened nothing was looked at but the TES4 record.
LEMMA NewWalk ==
  ASSUME phase' # "open", op' = Idle, pending' = <<>>, scan' = NoScan, index' = None, answer' = NoAnswer,
         DOMAIN file' \subseteq {0}
  PROVE  WalkInv'
<1>1. Known(file') = {} /\ op'.kind = "none" /\ answer'.kind = "none" /\ DOMAIN pending' = {}
  BY DEF Known, Idle, NoAnswer
<1>2. TraceInv' /\ OrderInv'
  BY <1>1 DEF TraceInv, OrderInv
<1>3. IndexWalkInv' /\ IndexInv' /\ DescentInv' /\ CountInv' /\ DepthInv'
  BY <1>1 DEF IndexWalkInv, IndexInv, DescentInv, CountInv, DepthInv
<1>4. PathIsRight' /\ FindIsRight' /\ StatisticsAreRight'
  BY <1>1 DEF PathIsRight, FindIsRight, StatisticsAreRight
<1>5. QED
  BY <1>2, <1>3, <1>4 DEF WalkInv

\* Nothing was looked at in the initial states.
LEMMA InitWalk ==
  ASSUME Init
  PROVE  WalkInv
<1>1. /\ phase # "open" /\ op = Idle /\ pending = <<>> /\ scan = NoScan /\ index = None /\ answer = NoAnswer
      /\ DOMAIN file = {}
  BY DEF Init, TreeInit, BytesInit
<1>2. Known(file) = {} /\ op.kind = "none" /\ answer.kind = "none" /\ DOMAIN pending = {}
  BY <1>1 DEF Known, Idle, NoAnswer
<1>3. TraceInv /\ OrderInv
  BY <1>1, <1>2 DEF TraceInv, OrderInv
<1>4. IndexWalkInv /\ IndexInv /\ DescentInv /\ CountInv /\ DepthInv
  BY <1>1, <1>2 DEF IndexWalkInv, IndexInv, DescentInv, CountInv, DepthInv
<1>5. PathIsRight /\ FindIsRight /\ StatisticsAreRight
  BY <1>2 DEF PathIsRight, FindIsRight, StatisticsAreRight
<1>6. QED
  BY <1>3, <1>4, <1>5 DEF WalkInv

\* The checks of OpenAsync look at the TES4 record only.
LEMMA OpenWalk ==
  ASSUME IInv, WalkInv, NEW header, NEW isTes4, NEW declared, NEW inflated,
         Open(header, isTes4, declared, inflated)
  PROVE  WalkInv'
<1>1. phase = "new" /\ UNCHANGED tree /\ phase' # "open"
  BY DEF Open, Fail
<1>2. op = Idle /\ Known(file) = {} /\ index = None /\ answer = NoAnswer
  BY <1>1 DEF WalkInv, TraceInv
<1>3. pending = <<>> /\ scan = NoScan
  BY <1>2 DEF IInv, TreeInv
<1>4. DOMAIN file' \subseteq {0}
  <2>1. file' = file \/ DOMAIN file' = DOMAIN file \cup {0}
    BY DEF Open, Holds, bytes
  <2>2. QED
    BY <1>2, <2>1 DEF Known
<1>5. QED
  BY <1>1, <1>2, <1>3, <1>4, NewWalk DEF tree

-----------------------------------------------------------------------------
(* Steps of a scan                                                         *)

\* A window is read for the position of the scan.
LEMMA ReadWindowWalk ==
  ASSUME IInv, WalkInv, ReadWindow, phase' = phase
  PROVE  WalkInv'
<1>1. /\ scan # NoScan /\ UNCHANGED <<op, pending, answer, index, bytes>>
      /\ scan' = [scan EXCEPT !.from = scan.at, !.to = scan.at + MinOf(ChunkSize, scan.end - scan.at)]
  BY DEF ReadWindow, Scanning
<1>2. scan' # NoScan
  BY <1>1, ReadWindowKeeps, PluginNodesAssumption DEF IInv, BytesTypeOK
<1>3. QED
  BY <1>1, <1>2, SameScan

\* Of a run that is visited nothing is left.
LEMMA RunVisitedWalk ==
  ASSUME IInv, WalkInv, RunVisited, phase' = phase
  PROVE  WalkInv'
<1>1. /\ scan # NoScan /\ scan.at >= scan.end /\ scan.nodes = <<>> /\ scan' = NoScan
      /\ op' = op /\ pending' = pending /\ answer' = answer /\ index' = index
      /\ length' = length /\ file' = file /\ UNCHANGED bytes
      /\ op.kind \in Walks
  BY DEF RunVisited, Parsed, bytes
<1>2. scan.at = scan.end /\ scan.at \in Nat
  BY <1>1, Scanned
<1>3. KnownNodes' = KnownNodes
  BY <1>1, SameFile DEF KnownNodes
<1>4. TraceInv'
  BY <1>1, <1>3 DEF WalkInv, TraceInv
<1>5. OrderInv'
  BY <1>1 DEF WalkInv, OrderInv
<1>6. Regions = Regions' \cup {Region(scan.at, scan.at)} /\ Unvisited = {} /\ Unvisited' = {}
  BY <1>1, <1>2 DEF Regions, Later, Unvisited, ToSet
<1>7. Ahead' = Ahead
  <2>1. \A o : ~ (\E r \in {Region(scan.at, scan.at)} : r.start <= o /\ o < r.end /\ o \in Known(file))
    BY <1>2, Scanned, Walking, OffsetFacts DEF Region, Known
  <2>2. QED
    BY <1>1, <1>6, <2>1 DEF Ahead
<1>8. Done' = Done
  BY <1>1, <1>7 DEF Done
<1>9. IndexWalkInv'
  <2>1. SUFFICES ASSUME op.kind = "index" PROVE IndexWalkInv'
    BY <1>1 DEF IndexWalkInv
  <2>2. PICK V \in SUBSET Known(file) :
          /\ Walked(file, length, V, Regions)
          /\ Unvisited \subseteq V
          /\ ToSet(op.seen) = {Entry(file, o) : o \in Records(file, V \ Unvisited)}
    BY <2>1 DEF WalkInv, IndexWalkInv
  <2>3. Walked(file, length, V, Regions')
    BY <1>6, <2>2, DropRegion
  <2>4. QED
    BY <1>1, <1>6, <2>2, <2>3 DEF IndexWalkInv
<1>10. CountInv'
  BY <1>1, <1>8 DEF WalkInv, CountInv
<1>11. DescentInv'
  BY <1>1 DEF DescentInv, Walks
<1>12. DepthInv'
  BY <1>1 DEF WalkInv, DepthInv
<1>13. IndexInv' /\ PathIsRight' /\ FindIsRight' /\ StatisticsAreRight'
  BY <1>1, SameAnswer DEF WalkInv
<1>14. QED
  BY <1>4, <1>5, <1>9, <1>10, <1>11, <1>12, <1>13 DEF WalkInv

\* The last container of the stack becomes the scan.
LEMMA BeginSiblingsWalk ==
  ASSUME IInv, WalkInv, BeginSiblings, phase' = phase
  PROVE  WalkInv'
<1> DEFINE c == Last(pending)
           n == Len(pending)
<1>1. /\ op # Idle /\ scan = NoScan /\ pending # <<>> /\ pending' = Front(pending)
      /\ scan' = [start |-> c.start, end |-> c.end, depth |-> c.depth, at |-> c.start,
                  from |-> 0, to |-> 0, nodes |-> <<>>]
      /\ op' = op /\ answer' = answer /\ index' = index
      /\ length' = length /\ file' = file
  BY DEF BeginSiblings, bytes
<1>2. /\ TreeInv /\ FileOK(file, length) /\ length \in Nat /\ TraceInv /\ OrderInv
      /\ \A o \in Known(file) : First(file) <= o
  BY <1>1, Walking
<1>3. /\ n \in Nat \ {0} /\ n \in DOMAIN pending /\ c = pending[n] /\ pending \in Seq(Containers)
      /\ DOMAIN pending = 1..n /\ DOMAIN pending' = 1..(n - 1)
      /\ \A i \in 1..(n - 1) : pending'[i] = pending[i]
  <2>1. pending \in Seq(Containers)
    BY <1>2 DEF TreeInv
  <2>2. QED
    BY <1>1, <2>1, FrontFacts DEF Last
<1>4. c \in Containers /\ c.start \in Nat /\ c.end \in Int /\ c.depth \in Nat
  BY <1>3 DEF Containers
<1> HIDE DEF c, n
<1>5. /\ scan' # NoScan /\ scan'.start = c.start /\ scan'.end = c.end /\ scan'.depth = c.depth
      /\ scan'.at = c.start /\ scan'.nodes = <<>> /\ DOMAIN scan'.nodes = {}
      /\ ToSet(scan'.nodes) = {}
  <2>1. DOMAIN scan' = {"start", "end", "depth", "at", "from", "to", "nodes"} /\ DOMAIN NoScan = {"end"}
    BY <1>1 DEF NoScan
  <2>2. scan' # NoScan
    BY <2>1
  <2>3. QED
    BY <1>1, <2>2 DEF ToSet
<1>6. IsContents(file, length, c.start, c.end)
  BY <1>2, <1>3 DEF TraceInv
<1>7. c.start <= c.end /\ \A i \in 1..(n - 1) : pending[i].end <= c.start
  BY <1>2, <1>3 DEF OrderInv
<1>8. Reached(file, c.start)
  BY <1>2, <1>4, <1>6, <1>7, ContainerFacts
<1>9. KnownNodes' = KnownNodes
  BY <1>1, SameFile DEF KnownNodes
<1>10. TraceInv'
  <2>1. \A i \in DOMAIN pending' : IsContents(file, length, pending'[i].start, pending'[i].end)
    BY <1>2, <1>3 DEF TraceInv
  <2>2. QED
    BY <1>1, <1>2, <1>5, <1>6, <1>8, <1>9, <2>1 DEF TraceInv
<1>11. OrderInv'
  <2>1. /\ \A i, j \in DOMAIN pending' : i < j => pending'[i].end <= pending'[j].start
        /\ \A i \in DOMAIN pending' : pending'[i].start <= pending'[i].end
    BY <1>2, <1>3 DEF OrderInv
  <2>2. op.root # None =>
          \A i \in DOMAIN pending' : DataOffset(op.root) <= pending'[i].start /\ pending'[i].end <= EndOffset(op.root)
    BY <1>1, <1>2, <1>3 DEF OrderInv
  <2>3. op.root # None => DataOffset(op.root) <= c.start /\ c.end <= EndOffset(op.root)
    BY <1>1, <1>2, <1>3 DEF OrderInv
  <2>4. \A i \in DOMAIN pending' : pending'[i].end <= c.start
    BY <1>3, <1>7
  <2>5. QED
    BY <1>1, <1>5, <1>7, <2>1, <2>2, <2>3, <2>4 DEF OrderInv
<1>12. Regions' = Regions /\ Unvisited' = {} /\ Unvisited = {}
  <2>1. Later' = {Region(pending[i].start, pending[i].end) : i \in 1..(n - 1)}
    BY <1>3, <1>5 DEF Later
  <2>2. Regions' = Later' \cup {Region(c.start, c.end)}
    BY <1>5 DEF Regions
  <2>3. Regions = {Region(pending[i].start, pending[i].end) : i \in 1..n}
    BY <1>1, <1>3 DEF Regions, Later
  <2>4. Regions' = Regions
    BY <1>3, <2>1, <2>2, <2>3
  <2>5. QED
    BY <1>1, <1>5, <2>4 DEF Unvisited
<1>13. Ahead' = Ahead
  BY <1>1, <1>12 DEF Ahead
<1>14. Done' = Done
  BY <1>1, <1>13 DEF Done
<1>15. IndexWalkInv'
  BY <1>1, <1>12 DEF WalkInv, IndexWalkInv
<1>16. CountInv'
  BY <1>1, <1>14 DEF WalkInv, CountInv
<1>17. DescentInv'
  <2>1. SUFFICES ASSUME op.kind = "path" PROVE DescentInv'
    BY <1>1 DEF DescentInv
  <2>2. /\ op.target \in Nat /\ Chain(op.seen)
        /\ \A i \in DOMAIN pending : LeadsOn(op.target, op.seen, pending[i])
    BY <2>1 DEF WalkInv, DescentInv
  <2>3. LeadsOn(op.target, op.seen, c)
    BY <1>3, <2>2
  <2>4. LeadsOn(op.target, op.seen, scan')
    BY <1>5, <2>3 DEF LeadsOn
  <2>5. ~ (op.target < scan'.at)
    BY <1>4, <1>5, <2>2, <2>3 DEF LeadsOn
  <2>6. \A i \in DOMAIN pending' : LeadsOn(op.target, op.seen, pending'[i])
    BY <1>3, <2>2
  <2>7. QED
    BY <1>1, <2>2, <2>4, <2>5, <2>6 DEF DescentInv
<1>18. DepthInv'
  <2>1. SUFFICES ASSUME index # None PROVE DepthInv'
    BY <1>1 DEF DepthInv
  <2>2. \A i \in DOMAIN pending :
          pending[i].depth = Cardinality(Around(file, pending[i].start, pending[i].end))
    BY <2>1 DEF WalkInv, DepthInv
  <2>3. \A i \in DOMAIN pending' :
          pending'[i].depth = Cardinality(Around(file, pending'[i].start, pending'[i].end))
    BY <1>3, <2>2
  <2>4. c.depth = Cardinality(Around(file, c.start, c.end))
    BY <1>3, <2>2
  <2>5. \A o \in Known(file) : ~ (c.start <= o /\ o < c.start)
    BY <1>2, <1>4, OffsetFacts DEF Known
  <2>6. op.root # None => op.root.depth = DepthOf(file, op.root)
    BY <1>1, <2>1 DEF WalkInv, DepthInv
  <2>7. answer.kind \in {"find", "path"} /\ answer.result # <<>> =>
          (IsGroup(Last(answer.result)) => Last(answer.result).depth = DepthOf(file, Last(answer.result)))
    BY <2>1 DEF WalkInv, DepthInv
  <2>8. QED
    BY <1>1, <1>5, <2>3, <2>4, <2>5, <2>6, <2>7 DEF DepthInv
<1>19. IndexInv' /\ PathIsRight' /\ FindIsRight' /\ StatisticsAreRight'
  BY <1>1, SameAnswer DEF WalkInv
<1>20. QED
  BY <1>10, <1>11, <1>15, <1>16, <1>17, <1>18, <1>19 DEF WalkInv

\* An operation that refuses what it read has nothing to say about an indexed file,
\* but that an offset is not that of a node.
LEMMA RefuseWalk ==
  ASSUME phase = "open", phase' = phase, Refuse,
         \A o \in Known(file') : First(file') <= o /\ Reached(file', o),
         index # None => op.kind = "path" /\ op.target \notin DOMAIN file',
         IndexInv'
  PROVE  WalkInv'
<1>1. End(FALSE, <<>>) /\ index' = index
  BY DEF Refuse
<1>2. answer' = [kind |-> op.kind, root |-> op.root, target |-> op.target, ok |-> FALSE, result |-> <<>>]
  BY <1>1 DEF End
<1>3. /\ answer'.kind = op.kind /\ answer'.ok = FALSE /\ answer'.target = op.target
      /\ answer'.result = <<>> /\ DOMAIN <<>> = {}
  BY <1>2
<1>4. PathIsRight'
  BY <1>1, <1>3 DEF PathIsRight
<1>5. FindIsRight'
  BY <1>1, <1>3 DEF FindIsRight
<1>6. StatisticsAreRight'
  BY <1>1, <1>3 DEF StatisticsAreRight
<1>7. QED
  BY <1>1, <1>3, <1>4, <1>5, <1>6, EndWalk

\* In an indexed file every header that is parsed is that of a node that fits.
LEMMA NextFits ==
  ASSUME IInv, WalkInv, index # None, scan # NoScan, scan.at < scan.end
  PROVE  LET n == Node(scan.at, scan.depth, file[scan.at]) IN
         /\ scan.at \in Known(file) /\ NodeFits(n)
         /\ scan.end - scan.at >= HeaderSize
<1>1. FileOK(file, length) /\ Closed(file, length)
  BY Scanned, Walking DEF WalkInv, IndexInv
<1>2. /\ scan.at \in Known(file) /\ DataIn(scan.at) <= EndIn(file, scan.at)
      /\ EndIn(file, scan.at) <= scan.end
  BY <1>1, Scanned, ClosedScan
<1>3. scan.at \in DOMAIN file
  BY <1>2 DEF Known
<1> DEFINE n == Node(scan.at, scan.depth, file[scan.at])
<1>4. /\ EndOffset(n) = EndIn(file, scan.at) /\ DataOffset(n) = DataIn(scan.at)
      /\ EndOffset(n) = DataOffset(n) + DataSize(n) /\ n.header = file[scan.at]
  BY <1>3, NodeAtFacts
<1>5. DataSize(n) \in Int
  <2>1. n.header \in Headers
    BY <1>1, <1>3, <1>4 DEF FileOK
  <2>2. n.header.size \in Nat
    BY <2>1, HeaderFacts
  <2>3. QED
    BY <2>2, PluginNodesAssumption DEF DataSize
<1>6. /\ scan.at \in Nat /\ scan.end \in Nat /\ DataIn(scan.at) \in Nat /\ EndIn(file, scan.at) \in Int
      /\ DataIn(scan.at) = scan.at + HeaderSize
  BY <1>1, <1>3, Scanned, OffsetFacts
<1> HIDE DEF n
<1>7. NodeFits(n) /\ scan.end - scan.at >= HeaderSize
  BY <1>2, <1>4, <1>5, <1>6, PluginNodesAssumption DEF NodeFits
<1>8. QED
  BY <1>2, <1>7 DEF n

\* Less than a header is left: the operation fails, so no index exists.
LEMMA HeaderCutOffWalk ==
  ASSUME IInv, WalkInv, HeaderCutOff, phase' = phase
  PROVE  WalkInv'
<1>1. /\ scan # NoScan /\ scan.at < scan.end /\ scan.end - scan.at < HeaderSize
      /\ Refuse /\ length' = length /\ file' = file
  BY DEF HeaderCutOff, Scanning, bytes
<1>2. index = None
  <2>1. scan.at \in Nat /\ scan.end \in Nat /\ HeaderSize \in Nat
    BY <1>1, Scanned, PluginNodesAssumption
  <2>2. QED
    BY <1>1, <2>1, NextFits
<1>3. phase = "open" /\ \A o \in Known(file) : First(file) <= o /\ Reached(file, o)
  BY <1>1, Scanned, Walking
<1>4. index' = None /\ IndexInv'
  BY <1>1, <1>2 DEF Refuse, IndexInv
<1>5. QED
  BY <1>1, <1>2, <1>3, <1>4, RefuseWalk

\* A header that is looked at where a scan has come to.
LEMMA LookedAt ==
  ASSUME IInv, WalkInv, NEW header \in Headers, ParseHeader(header)
  PROVE  /\ scan # NoScan /\ scan.at < scan.end
         /\ length' = length /\ Grows(file, file') /\ FileOK(file', length)
         /\ scan.at \in Known(file') /\ file'[scan.at] = header
         /\ Known(file') = Known(file) \cup {scan.at}
         /\ \A o \in Known(file') : First(file') <= o /\ Reached(file', o)
         /\ index # None => file' = file /\ header = file[scan.at]
<1>1. /\ scan # NoScan /\ scan.at < scan.end /\ scan.end - scan.at >= HeaderSize
      /\ Holds(scan.at, header)
  BY DEF ParseHeader, Scanning
<1>2. /\ scan.at \in Nat /\ scan.end \in Nat /\ scan.end <= length /\ First(file) <= scan.at
      /\ First(file) \in Nat /\ length \in Nat /\ FileOK(file, length) /\ Reached(file, scan.at)
      /\ BytesTypeOK /\ HeaderSize \in Nat \ {0}
      /\ \A o \in Known(file) : First(file) <= o /\ Reached(file, o)
  BY <1>1, Scanned, Walking, PluginNodesAssumption
<1>3. /\ length' = length /\ scan.at \in DOMAIN file' /\ file'[scan.at] = header
      /\ Grows(file, file') /\ BytesTypeOK' /\ DOMAIN file' = DOMAIN file \cup {scan.at}
  <2>1. scan.at + HeaderSize <= length
    BY <1>1, <1>2
  <2>2. QED
    BY <1>1, <1>2, <2>1, HoldsFacts DEF Grows, Holds
<1>4. FileOK(file', length)
  BY <1>2, <1>3 DEF FileOK, BytesTypeOK, Grows
<1>5. /\ First(file') = First(file)
      /\ \A o : Reached(file, o) => Reached(file', o)
  BY <1>2, <1>3, ReachedGrows
<1>6. scan.at # 0
  <2>1. 0 \in DOMAIN file /\ ~ GroupIn(file, 0)
    BY <1>2 DEF FileOK, GroupIn
  <2>2. 0 < First(file)
    BY <1>2, <2>1, OffsetFacts DEF First
  <2>3. QED
    BY <1>2, <2>2
<1>7. Known(file') = Known(file) \cup {scan.at}
  BY <1>3, <1>6 DEF Known
<1>8. \A o \in Known(file') : First(file') <= o /\ Reached(file', o)
  BY <1>2, <1>5, <1>7
<1>9. index # None => file' = file /\ header = file[scan.at]
  <2>1. SUFFICES ASSUME index # None PROVE file' = file /\ header = file[scan.at]
    OBVIOUS
  <2>2. scan.at \in DOMAIN file
    BY <1>1, <2>1, NextFits DEF Known
  <2>3. header = file[scan.at]
    BY <1>1, <2>2 DEF Holds
  <2>4. file' = [p \in DOMAIN file |-> file[p]]
    BY <1>1, <2>2, <2>3 DEF Holds
  <2>5. file = [p \in DOMAIN file |-> file[p]]
    BY <1>2 DEF BytesTypeOK
  <2>6. QED
    BY <2>3, <2>4, <2>5
<1>10. QED
  BY <1>1, <1>3, <1>4, <1>7, <1>8, <1>9

\* What a scan is after it accepted a node.
LEMMA ParsedNode ==
  ASSUME IInv, WalkInv, NEW header \in Headers, ParseHeader(header),
         NEW n, n = Node(scan.at, scan.depth, header), NodeFits(n), scan' # NoScan
  PROVE  /\ n.offset = scan.at /\ n.depth = scan.depth /\ n \in KnownNodes'
         /\ IsGroup(n) = GroupIn(file', scan.at) /\ DataOffset(n) = DataIn(scan.at)
         /\ EndOffset(n) = EndIn(file', scan.at)
         /\ DataIn(scan.at) \in Nat /\ scan.at < DataIn(scan.at) /\ EndOffset(n) \in Nat
         /\ DataIn(scan.at) <= EndOffset(n) /\ EndOffset(n) <= scan.end
         /\ DataSize(n) \in Nat /\ EndOffset(n) = DataOffset(n) + DataSize(n)
         /\ scan'.start = scan.start /\ scan'.end = scan.end /\ scan'.depth = scan.depth
         /\ scan'.at = EndOffset(n)
         /\ scan'.nodes = Append(scan.nodes, n) /\ Len(scan.nodes) \in Nat
         /\ DOMAIN scan'.nodes = 1..(Len(scan.nodes) + 1) /\ DOMAIN scan.nodes = 1..Len(scan.nodes)
         /\ \A k \in 1..Len(scan.nodes) : scan'.nodes[k] = scan.nodes[k]
         /\ scan'.nodes[Len(scan.nodes) + 1] = n
         /\ ToSet(scan'.nodes) = ToSet(scan.nodes) \cup {n}
         /\ op' = op /\ pending' = pending /\ answer' = answer /\ index' = index
<1>1. /\ scan # NoScan /\ scan.at \in Nat /\ scan.depth \in Nat /\ scan.end \in Nat
      /\ scan.end <= length /\ scan.nodes \in Seq(KnownNodes) /\ TreeInv /\ length \in Nat
  BY LookedAt, Scanned, Walking
<1>2. /\ length' = length /\ FileOK(file', length) /\ scan.at \in DOMAIN file' /\ file'[scan.at] = header
  BY LookedAt DEF Known
<1>3. /\ n.offset = scan.at /\ n.header = header /\ n.depth = scan.depth
      /\ IsGroup(n) = GroupIn(file', scan.at) /\ DataOffset(n) = DataIn(scan.at)
      /\ EndOffset(n) = EndIn(file', scan.at) /\ EndOffset(n) = DataOffset(n) + DataSize(n)
  BY <1>2, NodeAtFacts
<1>4. n \in NodeSet
  BY <1>1, NewNode
<1>5. /\ DataSize(n) \in Int /\ EndOffset(n) \in Int /\ DataOffset(n) \in Nat
      /\ scan.at < DataOffset(n)
  BY <1>3, <1>4, NodeFacts
<1>6. DataSize(n) >= 0 /\ EndOffset(n) <= scan.end
  BY DEF NodeFits
<1>7. DataSize(n) \in Nat /\ EndOffset(n) \in Nat /\ DataOffset(n) <= EndOffset(n)
  BY <1>3, <1>5, <1>6
<1>8. n \in FileNodes
  BY <1>1, <1>4, <1>5, <1>6 DEF FileNodes
<1>9. n \in KnownNodes'
  BY <1>2, <1>3, <1>8, SameFile DEF KnownNodes
<1>10. /\ scan' = [scan EXCEPT !.at = EndOffset(n), !.nodes = Append(@, n)]
       /\ op' = op /\ pending' = pending /\ answer' = answer /\ index' = index
  BY DEF ParseHeader, Refuse, End
<1>11. scan \in [start : Nat, end : Int, depth : Nat, at : Nat, from : Nat, to : Nat,
                 nodes : Seq(NodesIn(scan))]
  BY <1>1, ScanFacts
<1>12. /\ scan'.start = scan.start /\ scan'.end = scan.end /\ scan'.depth = scan.depth
       /\ scan'.at = EndOffset(n) /\ scan'.nodes = Append(scan.nodes, n)
  BY <1>10, <1>11
<1> DEFINE S == KnownNodes \cup {n}
<1>13. scan.nodes \in Seq(S) /\ n \in S
  BY <1>1
<1> HIDE DEF S
<1>14. /\ Len(scan.nodes) \in Nat /\ DOMAIN scan.nodes = 1..Len(scan.nodes)
       /\ DOMAIN scan'.nodes = 1..(Len(scan.nodes) + 1)
       /\ \A k \in 1..Len(scan.nodes) : scan'.nodes[k] = scan.nodes[k]
       /\ scan'.nodes[Len(scan.nodes) + 1] = n
  BY <1>12, <1>13, AppendFacts
<1>15. ToSet(scan'.nodes) = ToSet(scan.nodes) \cup {n}
  <2>1. DOMAIN scan'.nodes = DOMAIN scan.nodes \cup {Len(scan.nodes) + 1}
    BY <1>14
  <2>2. QED
    BY <1>14, <2>1 DEF ToSet
<1>16. QED
  BY <1>3, <1>5, <1>6, <1>7, <1>9, <1>10, <1>12, <1>14, <1>15

\* What is left is what is behind the node and what is in it.
LEMMA ParsedRegions ==
  ASSUME IInv, WalkInv, NEW header \in Headers, ParseHeader(header),
         NEW n, n = Node(scan.at, scan.depth, header), NodeFits(n), scan' # NoScan
  PROVE  /\ Regions = Later \cup {Region(scan.at, scan.end)}
         /\ Regions' = Later \cup {Region(EndOffset(n), scan.end)} \cup
              (IF GroupIn(file', scan.at) /\ DataIn(scan.at) < EndIn(file', scan.at)
               THEN {Region(DataIn(scan.at), EndIn(file', scan.at))} ELSE {})
         /\ Unvisited' = Unvisited \cup {scan.at}
         /\ \A r \in Later : r.end <= scan.at
<1>1. /\ n.offset = scan.at
      /\ IsGroup(n) = GroupIn(file', scan.at) /\ DataOffset(n) = DataIn(scan.at)
      /\ EndOffset(n) = EndIn(file', scan.at)
      /\ DataSize(n) \in Nat /\ EndOffset(n) = DataOffset(n) + DataSize(n) /\ DataIn(scan.at) \in Nat
      /\ scan'.end = scan.end /\ scan'.at = EndOffset(n)
      /\ ToSet(scan'.nodes) = ToSet(scan.nodes) \cup {n}
      /\ pending' = pending
  BY ParsedNode
<1>2. scan # NoScan
  BY LookedAt
<1>3. Regions = Later \cup {Region(scan.at, scan.end)}
  BY <1>2 DEF Regions
<1> DEFINE inner(s) == {Region(DataOffset(m), EndOffset(m)) : m \in {m \in s : IsGroup(m) /\ DataSize(m) > 0}}
           waits == {Region(pending[i].start, pending[i].end) : i \in DOMAIN pending}
<1>4. Later = waits \cup inner(ToSet(scan.nodes)) /\ Later' = waits \cup inner(ToSet(scan'.nodes))
  BY <1>1, <1>2 DEF Later
<1>5. inner({n}) = IF GroupIn(file', scan.at) /\ DataIn(scan.at) < EndIn(file', scan.at)
                   THEN {Region(DataIn(scan.at), EndIn(file', scan.at))} ELSE {}
  <2>1. (DataSize(n) > 0) <=> (DataIn(scan.at) < EndIn(file', scan.at))
    BY <1>1
  <2>2. QED
    BY <1>1, <2>1
<1>6. inner(ToSet(scan'.nodes)) = inner(ToSet(scan.nodes)) \cup inner({n})
  BY <1>1
<1> HIDE DEF inner, waits
<1>7. Regions' = Later' \cup {Region(EndOffset(n), scan.end)}
  BY <1>1 DEF Regions
<1>8. Unvisited' = Unvisited \cup {scan.at}
  BY <1>1, <1>2 DEF Unvisited
<1>9. ASSUME NEW r \in Later
      PROVE  r.end <= scan.at
  <2>1. CASE r \in waits
    <3>1. PICK i \in DOMAIN pending : r = Region(pending[i].start, pending[i].end)
      BY <2>1 DEF waits
    <3>2. pending[i].end <= scan.at
      BY <1>2 DEF WalkInv, OrderInv
    <3>3. QED
      BY <3>1, <3>2 DEF Region
  <2>2. CASE r \in inner(ToSet(scan.nodes))
    <3>1. PICK m \in ToSet(scan.nodes) : r = Region(DataOffset(m), EndOffset(m))
      BY <2>2 DEF inner
    <3>2. EndOffset(m) <= scan.at
      BY <1>2, Scanned
    <3>3. QED
      BY <3>1, <3>2 DEF Region
  <2>3. QED
    BY <1>4, <1>9, <2>1, <2>2
<1>10. QED
  BY <1>3, <1>4, <1>5, <1>6, <1>7, <1>8, <1>9

\* Building an index: the node goes to the nodes visited.
LEMMA ParsedIndex ==
  ASSUME IInv, WalkInv, NEW header \in Headers, ParseHeader(header),
         NEW n, n = Node(scan.at, scan.depth, header), NodeFits(n), scan' # NoScan
  PROVE  IndexWalkInv'
<1> DEFINE a == scan.at
           e == EndOffset(n)
<1>1. /\ EndIn(file', a) = e /\ DataIn(a) \in Nat /\ a < DataIn(a) /\ DataIn(a) <= e /\ e <= scan.end
      /\ e \in Nat /\ op' = op
  BY ParsedNode
<1>2. /\ length' = length /\ Grows(file, file') /\ FileOK(file', length) /\ a \in Known(file')
      /\ scan # NoScan /\ a < scan.end /\ a \in Nat /\ scan.end \in Nat
      /\ Known(file') = Known(file) \cup {a} /\ FileOK(file, length)
  BY LookedAt, Scanned, Walking
<1>3. SUFFICES ASSUME op.kind = "index" PROVE IndexWalkInv'
  BY <1>1 DEF IndexWalkInv
<1>4. PICK V \in SUBSET Known(file) :
        /\ Walked(file, length, V, Regions)
        /\ Unvisited \subseteq V
        /\ ToSet(op.seen) = {Entry(file, o) : o \in Records(file, V \ Unvisited)}
  BY <1>3 DEF WalkInv, IndexWalkInv
<1>5. Walked(file', length, V, Later \cup {Region(a, scan.end)})
  BY <1>2, <1>4, WalkedGrows, ParsedRegions DEF Grows
<1>6. Walked(file', length, V \cup {a}, Regions')
  <2>1. /\ DataIn(a) <= EndIn(file', a) /\ EndIn(file', a) <= scan.end
        /\ \A r \in Later : r.end <= a
    BY <1>1, ParsedRegions
  <2>2. Walked(file', length, V \cup {a},
               Later \cup {Region(EndIn(file', a), scan.end)} \cup
               (IF GroupIn(file', a) /\ DataIn(a) < EndIn(file', a)
                THEN {Region(DataIn(a), EndIn(file', a))} ELSE {}))
    BY <1>2, <1>5, <2>1, SplitRegion
  <2>3. QED
    BY <1>1, <2>2, ParsedRegions
<1>7. a \notin V
  <2>1. Region(a, scan.end).start = a /\ Region(a, scan.end).end = scan.end
    BY DEF Region
  <2>2. \A v \in V :
          \/ EndIn(file', v) <= a \/ scan.end <= v
          \/ DataIn(v) <= a
    BY <1>5, <2>1 DEF Walked
  <2>3. QED
    BY <1>1, <1>2, <2>2
<1>8. Unvisited' = Unvisited \cup {a} /\ (V \cup {a}) \ Unvisited' = V \ Unvisited
  BY <1>7, ParsedRegions
<1>9. Records(file', V \ Unvisited) = Records(file, V \ Unvisited)
      /\ \A o \in V : Entry(file', o) = Entry(file, o)
  <2>1. V \subseteq DOMAIN file
    BY DEF Known
  <2>2. \A o \in V : file'[o] = file[o]
    BY <1>2, <2>1 DEF Grows
  <2>3. QED
    BY <2>2 DEF Records, Entry, GroupIn
<1>10. ToSet(op'.seen) = {Entry(file', o) : o \in Records(file', (V \cup {a}) \ Unvisited')}
  <2>1. Records(file, V \ Unvisited) \subseteq V
    BY DEF Records
  <2>2. {Entry(file, o) : o \in Records(file, V \ Unvisited)} = {Entry(file', o) : o \in Records(file, V \ Unvisited)}
    BY <1>9, <2>1
  <2>3. QED
    BY <1>1, <1>4, <1>8, <1>9, <2>2
<1>11. V \cup {a} \in SUBSET Known(file') /\ Unvisited' \subseteq V \cup {a}
  BY <1>2, <1>4, <1>8
<1>12. QED
  BY <1>2, <1>6, <1>10, <1>11 DEF IndexWalkInv

\* In an indexed file nothing is ahead afterwards that was not before.
LEMMA ParsedAhead ==
  ASSUME IInv, WalkInv, NEW header \in Headers, ParseHeader(header),
         NEW n, n = Node(scan.at, scan.depth, header), NodeFits(n), scan' # NoScan, index # None
  PROVE  Ahead' = Ahead
<1> DEFINE a == scan.at
           e == EndOffset(n)
           whole == Region(a, scan.end)
           rest == Region(e, scan.end)
           inner == Region(DataIn(a), e)
           In(r) == {o \in Known(file) : r.start <= o /\ o < r.end}
<1>1. /\ EndIn(file', a) = e /\ DataIn(a) \in Nat /\ a < DataIn(a) /\ DataIn(a) <= e /\ e <= scan.end
      /\ e \in Nat /\ op' = op
  BY ParsedNode
<1>2. /\ file' = file /\ FileOK(file, length) /\ a \in Known(file)
      /\ a < scan.end /\ a \in Nat /\ scan.end \in Nat
  BY LookedAt, Scanned, Walking
<1>3. Closed(file, length)
  BY DEF WalkInv, IndexInv
<1>4. \A o \in Known(file) : o \in Nat /\ EndIn(file, o) \in Int /\ o < EndIn(file, o)
  BY <1>2, <1>3, OffsetFacts DEF Known, Closed, Walked
<1>5. \A o \in Known(file) : a < o => e <= o \/ (GroupIn(file, a) /\ DataIn(a) <= o /\ EndIn(file, o) <= e)
  BY <1>1, <1>2, <1>3 DEF Closed, Walked, Nests
<1>6. /\ whole.start = a /\ whole.end = scan.end /\ rest.start = e /\ rest.end = scan.end
      /\ inner.start = DataIn(a) /\ inner.end = e
  BY DEF Region
<1> HIDE DEF e, whole, rest, inner
<1>7. In(whole) = {a} \cup In(rest) \cup (IF GroupIn(file, a) /\ DataIn(a) < e THEN In(inner) ELSE {})
  <2>1. \A o \in In(whole) : o = a \/ o \in In(rest) \/ (GroupIn(file, a) /\ DataIn(a) < e /\ o \in In(inner))
    BY <1>1, <1>2, <1>4, <1>5, <1>6
  <2>2. a \in In(whole) /\ In(rest) \subseteq In(whole) /\ In(inner) \subseteq In(whole)
    BY <1>1, <1>2, <1>4, <1>6
  <2>3. QED
    BY <2>1, <2>2
<1>8. /\ Regions = Later \cup {whole} /\ Unvisited' = Unvisited \cup {a}
      /\ Regions' = Later \cup {rest} \cup (IF GroupIn(file, a) /\ DataIn(a) < e THEN {inner} ELSE {})
  BY <1>1, <1>2, ParsedRegions DEF whole, rest, inner, e
<1>9. /\ Ahead = Unvisited \cup UNION {In(r) : r \in Regions}
      /\ Ahead' = Unvisited' \cup UNION {In(r) : r \in Regions'}
  BY <1>2 DEF Ahead
<1> HIDE DEF In
<1>10. QED
  BY <1>7, <1>8, <1>9

\* A parsed node is known, and behind it a node should begin.
LEMMA ParsedTrace ==
  ASSUME IInv, WalkInv, NEW header \in Headers, ParseHeader(header), phase' = phase,
         NEW n, n = Node(scan.at, scan.depth, header), NodeFits(n), scan' # NoScan
  PROVE  TraceInv'
<1> DEFINE e == EndOffset(n)
           k == Len(scan.nodes)
<1>1. /\ n \in KnownNodes' /\ EndIn(file', scan.at) = e /\ scan.at < DataIn(scan.at) /\ DataIn(scan.at) <= e
      /\ DataIn(scan.at) \in Nat /\ e \in Nat
      /\ scan'.start = scan.start /\ scan'.end = scan.end /\ scan'.at = e
      /\ k \in Nat /\ DOMAIN scan'.nodes = 1..(k + 1) /\ DOMAIN scan.nodes = 1..k
      /\ \A i \in 1..k : scan'.nodes[i] = scan.nodes[i]
      /\ scan'.nodes[k + 1] = n
      /\ op' = op /\ pending' = pending /\ answer' = answer /\ index' = index
  BY ParsedNode
<1>2. /\ scan # NoScan /\ length' = length /\ Grows(file, file')
      /\ scan.at \in Known(file')
      /\ \A o \in Known(file') : First(file') <= o /\ Reached(file', o)
  BY LookedAt
<1>3. scan.at \in Nat /\ FileOK(file, length) /\ phase = "open" /\ TraceInv
  BY <1>2, Scanned, Walking
<1>4. KnownNodes \subseteq KnownNodes'
  BY <1>2, KnownNodesGrow
<1>5. \A start, end : IsContents(file, length, start, end) => IsContents(file', length, start, end)
  BY <1>2, <1>3, ReachedGrows
<1> HIDE DEF e, k
<1>6. Reached(file', e)
  BY <1>1, <1>2, <1>3 DEF Reached, Behind
<1>7. \A i \in 1..(k + 1) : scan'.nodes[i] \in KnownNodes'
  <2>1. \A i \in 1..k : scan.nodes[i] \in KnownNodes'
    BY <1>1, <1>2, <1>3, <1>4 DEF TraceInv
  <2>2. \A i \in 1..(k + 1) : i \in 1..k \/ i = k + 1
    BY <1>1
  <2>3. QED
    BY <1>1, <2>1, <2>2
<1>8. /\ op # Idle => op.root = None \/ (op.root \in KnownNodes' /\ IsGroup(op.root))
      /\ op.kind = "path" => \A i \in DOMAIN op.seen : op.seen[i] \in KnownNodes'
      /\ \A i \in DOMAIN pending : IsContents(file', length, pending[i].start, pending[i].end)
      /\ IsContents(file', length, scan.start, scan.end)
      /\ answer.kind \in {"find", "path"} => \A i \in DOMAIN answer.result : answer.result[i] \in KnownNodes'
  BY <1>2, <1>3, <1>4, <1>5 DEF TraceInv
<1>9. QED
  BY <1>1, <1>2, <1>3, <1>6, <1>7, <1>8 DEF TraceInv

\* A parsed node is behind those of its run.
LEMMA ParsedOrder ==
  ASSUME IInv, WalkInv, NEW header \in Headers, ParseHeader(header),
         NEW n, n = Node(scan.at, scan.depth, header), NodeFits(n), scan' # NoScan
  PROVE  OrderInv'
<1> DEFINE e == EndOffset(n)
           k == Len(scan.nodes)
<1>1. /\ n.offset = scan.at /\ n.depth = scan.depth /\ scan.at < DataIn(scan.at) /\ DataIn(scan.at) <= e
      /\ DataIn(scan.at) \in Nat /\ e \in Nat /\ e <= scan.end
      /\ scan'.start = scan.start /\ scan'.end = scan.end /\ scan'.at = e /\ scan'.depth = scan.depth
      /\ k \in Nat /\ DOMAIN scan'.nodes = 1..(k + 1) /\ DOMAIN scan.nodes = 1..k
      /\ \A i \in 1..k : scan'.nodes[i] = scan.nodes[i]
      /\ scan'.nodes[k + 1] = n
      /\ op' = op /\ pending' = pending
  BY ParsedNode
<1>2. scan # NoScan /\ scan.at \in Nat /\ OrderInv /\ TreeInv
  BY LookedAt, Scanned, Walking
<1>3. \A i \in DOMAIN pending : pending[i].end \in Int
  BY <1>2 DEF TreeInv, Containers
<1>4. \A i \in 1..k : EndOffset(scan.nodes[i]) <= scan.at /\ EndOffset(scan.nodes[i]) \in Int
  <2>1. \A m \in ToSet(scan.nodes) : EndOffset(m) <= scan.at /\ EndOffset(m) \in Int
    BY <1>2, Scanned, KnownNodeFacts
  <2>2. QED
    BY <1>1, <2>1 DEF ToSet
<1> HIDE DEF e, k
<1>5. \A i \in 1..(k + 1) : i \in 1..k \/ i = k + 1
  BY <1>1
<1>6. \A i \in DOMAIN pending :
        /\ pending[i].end <= scan.at /\ pending[i].end <= e
        /\ \A j \in 1..(k + 1) : pending[i].end <= scan'.nodes[j].offset
  <2>1. \A i \in DOMAIN pending :
          /\ pending[i].end <= scan.at
          /\ \A j \in 1..k : pending[i].end <= scan.nodes[j].offset
    BY <1>1, <1>2 DEF OrderInv
  <2>2. \A i \in DOMAIN pending : pending[i].end <= e
    BY <1>1, <1>2, <1>3, <2>1
  <2>3. QED
    BY <1>1, <1>5, <2>1, <2>2
<1>7. \A i, j \in 1..(k + 1) : i < j => EndOffset(scan'.nodes[i]) <= scan'.nodes[j].offset
  <2>1. \A i, j \in 1..k : i < j => EndOffset(scan.nodes[i]) <= scan.nodes[j].offset
    BY <1>1, <1>2 DEF OrderInv
  <2>2. \A i, j \in 1..(k + 1) : i < j => i \in 1..k
    BY <1>1
  <2>3. QED
    BY <1>1, <1>4, <1>5, <2>1, <2>2
<1>8. \A i \in 1..(k + 1) : EndOffset(scan'.nodes[i]) <= e /\ scan'.nodes[i].depth = scan.depth
  <2>1. \A i \in 1..k : EndOffset(scan.nodes[i]) <= e /\ scan.nodes[i].depth = scan.depth
    <3>1. \A i \in 1..k : scan.nodes[i].depth = scan.depth
      BY <1>1, <1>2 DEF OrderInv
    <3>2. \A i \in 1..k : EndOffset(scan.nodes[i]) <= e
      BY <1>1, <1>2, <1>4
    <3>3. QED
      BY <3>1, <3>2
  <2>2. EndOffset(n) <= e
    BY <1>1 DEF e
  <2>3. QED
    BY <1>1, <1>5, <2>1, <2>2
<1>9. /\ \A i, j \in DOMAIN pending : i < j => pending[i].end <= pending[j].start
      /\ \A i \in DOMAIN pending : pending[i].start <= pending[i].end
      /\ op # Idle /\ op.root # None =>
           /\ \A i \in DOMAIN pending :
                DataOffset(op.root) <= pending[i].start /\ pending[i].end <= EndOffset(op.root)
           /\ DataOffset(op.root) <= scan.start /\ scan.end <= EndOffset(op.root)
  BY <1>2 DEF OrderInv
<1>10. QED
  BY <1>1, <1>6, <1>7, <1>8, <1>9 DEF OrderInv

\* The siblings of a run are at one depth.
LEMMA ParsedDepth ==
  ASSUME IInv, WalkInv, NEW header \in Headers, ParseHeader(header),
         NEW n, n = Node(scan.at, scan.depth, header), NodeFits(n), scan' # NoScan
  PROVE  DepthInv'
<1> DEFINE a == scan.at
           e == EndOffset(n)
           k == Len(scan.nodes)
<1>1. /\ n.offset = a /\ a < DataIn(a) /\ DataIn(a) <= e /\ EndIn(file', a) = e
      /\ DataIn(a) \in Nat /\ e \in Nat /\ e <= scan.end
      /\ scan'.start = scan.start /\ scan'.end = scan.end /\ scan'.at = e /\ scan'.depth = scan.depth
      /\ k \in Nat /\ DOMAIN scan'.nodes = 1..(k + 1) /\ DOMAIN scan.nodes = 1..k
      /\ \A i \in 1..k : scan'.nodes[i] = scan.nodes[i]
      /\ scan'.nodes[k + 1] = n
      /\ op' = op /\ pending' = pending /\ answer' = answer /\ index' = index
  BY ParsedNode
<1>2. SUFFICES ASSUME index # None PROVE DepthInv'
  BY <1>1 DEF DepthInv
<1>3. /\ scan # NoScan /\ a \in Nat /\ file' = file /\ FileOK(file, length) /\ a \in Known(file)
      /\ IsContents(file, length, scan.start, scan.end) /\ scan.start <= a
  BY <1>2, LookedAt, Scanned, Walking
<1>4. Closed(file, length) /\ DepthInv
  BY <1>2 DEF WalkInv, IndexInv
<1>5. \A o \in Known(file) : scan.start <= o /\ o < a => EndIn(file, o) <= a
  BY <1>2, <1>3, <1>4 DEF DepthInv
<1>6. \A o \in Known(file) : /\ o \in Nat /\ EndIn(file, o) \in Int
                             /\ o < EndIn(file, o)
  BY <1>3, <1>4, OffsetFacts DEF Known, Closed, Walked
<1>7. \A o \in Known(file) : a < o /\ o < e => EndIn(file, o) <= e
  <2>1. \A o \in Known(file) : a < o => Nests(file, a, o)
    BY <1>3, <1>4 DEF Closed, Walked
  <2>2. QED
    BY <1>1, <1>3, <1>6, <2>1 DEF Nests
<1> HIDE DEF e, k
<1>8. \A o \in Known(file) : scan.start <= o /\ o < e => EndIn(file, o) <= e
  <2>1. ASSUME NEW o \in Known(file), scan.start <= o, o < e
        PROVE  EndIn(file, o) <= e
    <3>1. CASE o < a
      BY <1>1, <1>3, <1>5, <1>6, <2>1, <3>1
    <3>2. CASE o = a
      BY <1>1, <1>3, <1>6, <3>2
    <3>3. CASE a < o
      BY <1>7, <2>1, <3>3
    <3>4. QED
      BY <1>3, <1>6, <3>1, <3>2, <3>3
  <2>2. QED
    BY <2>1
<1>9. scan.depth = DepthOf(file, n)
  <2>1. Around(file, a, EndIn(file, a)) = Around(file, scan.start, scan.end)
    BY <1>1, <1>3, <1>4, <1>5, AroundSibling
  <2>2. scan.depth = Cardinality(Around(file, scan.start, scan.end))
    BY <1>2, <1>3, <1>4 DEF DepthInv
  <2>3. QED
    BY <1>1, <1>3, <2>1, <2>2 DEF DepthOf, e
<1>10. \A i \in 1..(k + 1) : scan.depth = DepthOf(file, scan'.nodes[i])
  <2>1. \A i \in 1..k : scan.depth = DepthOf(file, scan.nodes[i])
    BY <1>1, <1>2, <1>3, <1>4 DEF DepthInv
  <2>2. \A i \in 1..(k + 1) : i \in 1..k \/ i = k + 1
    BY <1>1
  <2>3. QED
    BY <1>1, <1>9, <2>1, <2>2
<1>11. /\ op # Idle /\ op.root # None => op.root.depth = DepthOf(file, op.root)
       /\ \A i \in DOMAIN pending :
            pending[i].depth = Cardinality(Around(file, pending[i].start, pending[i].end))
       /\ scan.depth = Cardinality(Around(file, scan.start, scan.end))
       /\ answer.kind \in {"find", "path"} /\ answer.result # <<>> =>
            LET m == Last(answer.result) IN IsGroup(m) => m.depth = DepthOf(file, m)
  BY <1>2, <1>3, <1>4 DEF DepthInv
<1>12. QED
  BY <1>1, <1>3, <1>8, <1>10, <1>11 DEF DepthInv

\* An offset the scan has passed is held by a node of the run.
LEMMA ParsedDescent ==
  ASSUME IInv, WalkInv, NEW header \in Headers, ParseHeader(header),
         NEW n, n = Node(scan.at, scan.depth, header), NodeFits(n), scan' # NoScan
  PROVE  DescentInv'
<1> DEFINE e == EndOffset(n)
<1>1. /\ n.offset = scan.at /\ e \in Nat
      /\ scan'.start = scan.start /\ scan'.end = scan.end /\ scan'.at = e /\ scan'.depth = scan.depth
      /\ ToSet(scan'.nodes) = ToSet(scan.nodes) \cup {n}
      /\ op' = op /\ pending' = pending
  BY ParsedNode
<1>2. SUFFICES ASSUME op.kind = "path" PROVE DescentInv'
  BY <1>1 DEF DescentInv
<1>3. scan # NoScan /\ scan.at \in Nat
  BY LookedAt, Scanned
<1>4. /\ op.target \in Nat /\ Chain(op.seen)
      /\ \A i \in DOMAIN pending : LeadsOn(op.target, op.seen, pending[i])
      /\ LeadsOn(op.target, op.seen, scan)
      /\ op.target < scan.at => \E m \in ToSet(scan.nodes) : m.offset <= op.target /\ op.target < EndOffset(m)
  BY <1>2, <1>3 DEF WalkInv, DescentInv
<1>5. LeadsOn(op.target, op.seen, scan')
  BY <1>1, <1>4 DEF LeadsOn
<1>6. op.target < e => \E m \in ToSet(scan'.nodes) : m.offset <= op.target /\ op.target < EndOffset(m)
  BY <1>1, <1>3, <1>4
<1>7. QED
  BY <1>1, <1>4, <1>5, <1>6 DEF DescentInv

\* A header is parsed, or refused.
LEMMA ParseWalk ==
  ASSUME IInv, WalkInv, NEW header \in Headers, ParseHeader(header), phase' = phase
  PROVE  WalkInv'
<1> DEFINE n == Node(scan.at, scan.depth, header)
<1>1. /\ scan # NoScan /\ scan.at < scan.end /\ length' = length
      /\ \A o \in Known(file') : First(file') <= o /\ Reached(file', o)
      /\ index # None => file' = file /\ header = file[scan.at]
  BY LookedAt
<1>2. phase = "open"
  BY <1>1, Scanned, Walking
<1>3. CASE ~ NodeFits(n)
  <2>1. index = None
    BY <1>1, <1>3, NextFits
  <2>2. Refuse
    BY <1>3 DEF ParseHeader
  <2>3. IndexInv'
    BY <2>1, <2>2 DEF Refuse, IndexInv
  <2>4. QED
    BY <1>1, <1>2, <2>1, <2>2, <2>3, RefuseWalk
<1>4. CASE NodeFits(n)
  <2>1. op' = op /\ answer' = answer /\ index' = index
    BY <1>4 DEF ParseHeader
  <2>2. scan' # NoScan
    <3>1. scan' = [scan EXCEPT !.at = EndOffset(n), !.nodes = Append(@, n)]
      BY <1>4 DEF ParseHeader
    <3>2. DOMAIN scan = {"start", "end", "depth", "at", "from", "to", "nodes"}
      <4>1. TreeInv /\ length \in Nat
        BY <1>1, Scanned, Walking
      <4>2. QED
        BY <1>1, <4>1, ScanFacts
    <3>3. DOMAIN NoScan = {"end"}
      BY DEF NoScan
    <3>4. QED
      BY <3>1, <3>2, <3>3
  <2> HIDE DEF n
  <2>3. TraceInv' /\ OrderInv' /\ IndexWalkInv' /\ DescentInv' /\ DepthInv'
    BY <1>2, <1>4, <2>2, ParsedTrace, ParsedOrder, ParsedIndex, ParsedDescent, ParsedDepth DEF n
  <2>4. CountInv'
    <3>1. index # None => Ahead' = Ahead
      BY <1>4, <2>2, ParsedAhead DEF n
    <3>2. index # None => Done' = Done
      BY <1>1, <2>1, <3>1 DEF Done
    <3>3. QED
      BY <1>1, <2>1, <3>2 DEF WalkInv, CountInv
  <2>5. IndexInv' /\ PathIsRight' /\ FindIsRight' /\ StatisticsAreRight'
    <3>1. CASE index # None
      BY <1>1, <2>1, <3>1, SameAnswer DEF WalkInv
    <3>2. CASE index = None
      BY <2>1, <3>2 DEF WalkInv, IndexInv, PathIsRight, FindIsRight, StatisticsAreRight
    <3>3. QED
      BY <3>1, <3>2
  <2>6. QED
    BY <2>3, <2>4, <2>5 DEF WalkInv
<1>5. QED
  BY <1>3, <1>4

-----------------------------------------------------------------------------
(* Steps that end a run of siblings                                        *)

\* The children of a group are listed.
LEMMA ListedWalk ==
  ASSUME IInv, WalkInv, Listed, phase' = phase
  PROVE  WalkInv'
<1>1. /\ scan # NoScan /\ op.kind = "children" /\ End(TRUE, scan.nodes) /\ index' = index
      /\ length' = length /\ file' = file
  BY DEF Listed, Parsed, bytes
<1>2. phase = "open" /\ \A o \in Known(file) : First(file) <= o /\ Reached(file, o)
  BY <1>1, Scanned, Walking
<1>3. answer'.kind = "children"
  BY <1>1 DEF End
<1>4. IndexInv'
  BY <1>1 DEF WalkInv, IndexInv
<1>5. PathIsRight' /\ FindIsRight' /\ StatisticsAreRight'
  BY <1>3 DEF PathIsRight, FindIsRight, StatisticsAreRight
<1>6. QED
  BY <1>1, <1>2, <1>4, <1>5, EndWalk

\* Nodes of a run are inside the root, and so is what they contain.
LEMMA RunInside ==
  ASSUME IInv, WalkInv, scan # NoScan, NEW n \in ToSet(scan.nodes)
  PROVE  op.root # None =>
           /\ DataOffset(op.root) \in Nat /\ EndOffset(op.root) \in Int
           /\ op.root.offset < DataOffset(op.root)
           /\ DataOffset(op.root) <= n.offset /\ EndOffset(n) <= EndOffset(op.root)
<1>1. SUFFICES ASSUME op.root # None
               PROVE  /\ DataOffset(op.root) \in Nat /\ EndOffset(op.root) \in Int
                      /\ op.root.offset < DataOffset(op.root)
                      /\ DataOffset(op.root) <= n.offset /\ EndOffset(n) <= EndOffset(op.root)
  OBVIOUS
<1>2. op # Idle /\ TraceInv /\ OrderInv
  BY Scanned, Walking
<1>3. /\ scan.start <= n.offset /\ EndOffset(n) <= scan.at /\ scan.at <= scan.end
      /\ scan.start \in Nat /\ scan.at \in Nat /\ scan.end \in Nat /\ n \in KnownNodes
  BY Scanned
<1>4. n.offset \in Nat /\ EndOffset(n) \in Int
  BY <1>3, KnownNodeFacts
<1>5. op.root \in KnownNodes
  BY <1>1, <1>2 DEF TraceInv
<1>6. /\ DataOffset(op.root) \in Nat /\ EndOffset(op.root) \in Int
      /\ op.root.offset < DataOffset(op.root)
  BY <1>5, KnownNodeFacts
<1>7. DataOffset(op.root) <= scan.start /\ scan.end <= EndOffset(op.root)
  BY <1>1, <1>2 DEF OrderInv
<1>8. DataOffset(op.root) <= n.offset /\ EndOffset(n) <= EndOffset(op.root)
  BY <1>3, <1>4, <1>6, <1>7
<1>9. QED
  BY <1>6, <1>8

\* The path goes on with a node of the run.
LEMMA ChainGrows ==
  ASSUME IInv, WalkInv, scan # NoScan, op.kind = "path", NEW n \in ToSet(scan.nodes)
  PROVE  /\ Chain(Append(op.seen, n)) /\ Append(op.seen, n) \in Seq(FileNodes)
         /\ Len(Append(op.seen, n)) = Len(op.seen) + 1 /\ Len(op.seen) \in Nat
         /\ Last(Append(op.seen, n)) = n /\ n.depth = Len(op.seen)
         /\ \A i \in DOMAIN Append(op.seen, n) : Append(op.seen, n)[i] \in KnownNodes
<1> DEFINE s == op.seen
           t == Append(s, n)
           k == Len(s)
<1>1. /\ n \in KnownNodes /\ scan.start <= n.offset /\ EndOffset(n) <= scan.at /\ scan.at <= scan.end
      /\ n.depth = scan.depth /\ scan.start \in Nat /\ scan.at \in Nat /\ scan.end \in Nat
  BY Scanned
<1>2. n \in FileNodes /\ n.offset \in Nat /\ EndOffset(n) \in Int
  BY <1>1, KnownNodeFacts
<1>3. s \in Seq(FileNodes) /\ \A i \in DOMAIN s : s[i] \in KnownNodes
  BY DEF IInv, TreeInv, WalkInv, TraceInv
<1>4. /\ t \in Seq(FileNodes) /\ Len(t) = k + 1 /\ k \in Nat /\ DOMAIN t = 1..(k + 1) /\ DOMAIN s = 1..k
      /\ \A i \in 1..k : t[i] = s[i]
      /\ t[k + 1] = n
  BY <1>2, <1>3, AppendFacts
<1>5. LeadsOn(op.target, s, scan) /\ Chain(s)
  BY DEF WalkInv, DescentInv
<1> HIDE DEF s, t, k
<1>6. n.depth = k
  BY <1>1, <1>5 DEF LeadsOn, k
<1>7. ASSUME k # 0
      PROVE  IsGroup(s[k]) /\ Inside(n, s[k])
  <2>1. s # <<>> /\ Last(s) = s[k]
    BY <1>3, <1>4, <1>7 DEF Last, k
  <2>2. IsGroup(s[k]) /\ DataOffset(s[k]) <= scan.start /\ scan.end <= EndOffset(s[k])
    BY <1>5, <2>1 DEF LeadsOn
  <2>3. DataOffset(s[k]) \in Nat /\ EndOffset(s[k]) \in Int
    BY <1>3, <1>4, <1>7, KnownNodeFacts
  <2>4. QED
    BY <1>1, <1>2, <2>2, <2>3 DEF Inside
<1>8. \A i \in 2..Len(t) : IsGroup(t[i - 1]) /\ Inside(t[i], t[i - 1])
  <2>1. \A i \in 2..k : IsGroup(s[i - 1]) /\ Inside(s[i], s[i - 1])
    BY <1>5 DEF Chain, k
  <2>2. ASSUME NEW i \in 2..(k + 1)
        PROVE  IsGroup(t[i - 1]) /\ Inside(t[i], t[i - 1])
    <3>1. CASE i = k + 1
      BY <1>4, <1>7, <3>1
    <3>2. CASE i # k + 1
      BY <1>4, <2>1, <3>2
    <3>3. QED
      BY <3>1, <3>2
  <2>3. QED
    BY <1>4, <2>2
<1>9. \A i \in DOMAIN t : t[i].depth = i - 1 /\ t[i] \in KnownNodes
  <2>1. \A i \in 1..k : t[i].depth = i - 1 /\ t[i] \in KnownNodes
    BY <1>3, <1>4, <1>5 DEF Chain
  <2>2. t[k + 1].depth = (k + 1) - 1 /\ t[k + 1] \in KnownNodes
    BY <1>1, <1>4, <1>6
  <2>3. QED
    BY <1>4, <2>1, <2>2
<1>10. Last(t) = n
  BY <1>4 DEF Last
<1>11. Chain(t)
  BY <1>8, <1>9 DEF Chain
<1>12. QED
  BY <1>4, <1>6, <1>9, <1>10, <1>11 DEF s, t, k

\* The node is the one that was asked for.
LEMMA FoundWalk ==
  ASSUME IInv, WalkInv, scan # NoScan, op.kind = "path", phase' = phase, UNCHANGED <<bytes, index>>,
         NEW n \in ToSet(scan.nodes), n.offset = op.target, End(TRUE, Append(op.seen, n))
  PROVE  WalkInv'
<1> DEFINE t == Append(op.seen, n)
<1>1. /\ phase = "open" /\ length' = length /\ file' = file /\ index' = index
      /\ \A o \in Known(file) : First(file) <= o /\ Reached(file, o)
  BY Scanned, Walking DEF bytes
<1>2. /\ answer'.kind = "path" /\ answer'.ok = TRUE /\ answer'.result = t /\ answer'.target = op.target
  BY DEF End
<1>3. /\ Chain(t) /\ Last(t) = n /\ \A i \in DOMAIN t : t[i] \in KnownNodes
  BY ChainGrows
<1>4. n \in KnownNodes /\ n.depth = scan.depth /\ n.offset \in DOMAIN file
  BY Scanned, KnownNodeFacts
<1>5. KnownNodes' = KnownNodes
  BY <1>1, SameFile DEF KnownNodes
<1> HIDE DEF t
<1>6. index # None => n.depth = DepthOf(file, n)
  <2>1. SUFFICES ASSUME index # None PROVE n.depth = DepthOf(file, n)
    OBVIOUS
  <2>2. PICK k \in DOMAIN scan.nodes : scan.nodes[k] = n
    BY DEF ToSet
  <2>3. scan.depth = DepthOf(file, n)
    BY <2>1, <2>2 DEF WalkInv, DepthInv
  <2>4. QED
    BY <1>4, <2>3
<1>7. PathIsRight'
  BY <1>1, <1>2, <1>3, <1>4 DEF PathIsRight, Chain
<1>8. IndexInv' /\ FindIsRight' /\ StatisticsAreRight'
  BY <1>1, <1>2 DEF WalkInv, IndexInv, FindIsRight, StatisticsAreRight
<1>9. End(TRUE, t)
  BY DEF t
<1>10. QED
  BY <1>1, <1>3, <1>5, <1>6, <1>7, <1>8, <1>9, EndWalk

\* Nothing can be there: where a node of the file begins, inside another one, a group is.
LEMMA NothingThere ==
  ASSUME IInv, WalkInv, scan # NoScan, op.kind = "path", NEW n \in ToSet(scan.nodes), index # None,
         n.offset <= op.target, op.target < EndOffset(n), n.offset # op.target,
         ~ IsGroup(n) \/ op.target < DataOffset(n) \/ op.target >= EndOffset(n)
  PROVE  op.target \notin DOMAIN file
<1>1. FileOK(file, length) /\ Closed(file, length) /\ n \in KnownNodes /\ First(file) \in Nat
      /\ First(file) <= scan.start /\ scan.start <= n.offset /\ scan.start \in Nat
  BY Scanned, Walking DEF WalkInv, IndexInv
<1>2. /\ n.offset \in DOMAIN file /\ n.offset \in Nat /\ IsGroup(n) = GroupIn(file, n.offset)
      /\ DataOffset(n) = DataIn(n.offset) /\ EndOffset(n) = EndIn(file, n.offset)
      /\ DataOffset(n) \in Nat /\ EndOffset(n) \in Int
  BY <1>1, KnownNodeFacts
<1>3. op.target \in Nat
  BY DEF WalkInv, DescentInv
<1>4. 0 < First(file)
  <2>1. 0 \in DOMAIN file /\ ~ GroupIn(file, 0)
    BY <1>1 DEF FileOK, GroupIn
  <2>2. QED
    BY <1>1, <2>1, OffsetFacts DEF First
<1>5. n.offset \in Known(file) /\ op.target # 0
  BY <1>1, <1>2, <1>3, <1>4 DEF Known
<1>6. SUFFICES ASSUME op.target \in DOMAIN file PROVE FALSE
  OBVIOUS
<1>7. op.target \in Known(file) /\ n.offset < op.target
  BY <1>2, <1>3, <1>5, <1>6 DEF Known
<1>8. Nests(file, n.offset, op.target)
  BY <1>1, <1>5, <1>7 DEF Closed, Walked
<1>9. QED
  BY <1>2, <1>3, <1>8 DEF Nests

\* What a group of the run contains.
LEMMA GroupEntered ==
  ASSUME IInv, WalkInv, scan # NoScan, NEW n \in ToSet(scan.nodes), IsGroup(n)
  PROVE  /\ Contents(n) = [start |-> DataOffset(n), end |-> EndOffset(n), depth |-> n.depth + 1]
         /\ IsContents(file, length, DataOffset(n), EndOffset(n))
         /\ index # None => n.depth + 1 = Cardinality(Around(file, DataOffset(n), EndOffset(n)))
<1>1. n \in KnownNodes /\ First(file) \in Nat /\ FileOK(file, length) /\ First(file) <= n.offset
  <2>1. n \in KnownNodes /\ First(file) \in Nat /\ FileOK(file, length)
        /\ First(file) <= scan.start /\ scan.start <= n.offset /\ scan.start \in Nat
    BY Scanned, Walking
  <2>2. n.offset \in Nat
    BY <2>1, KnownNodeFacts
  <2>3. QED
    BY <2>1, <2>2
<1>2. /\ n.offset \in DOMAIN file /\ n.offset \in Nat /\ IsGroup(n) = GroupIn(file, n.offset)
      /\ DataOffset(n) = DataIn(n.offset) /\ EndOffset(n) = EndIn(file, n.offset)
      /\ DataOffset(n) <= EndOffset(n) /\ n # None
  BY <1>1, KnownNodeFacts
<1>3. n.offset \in Known(file)
  <2>1. 0 \in DOMAIN file /\ ~ GroupIn(file, 0)
    BY <1>1 DEF FileOK, GroupIn
  <2>2. QED
    BY <1>2, <2>1 DEF Known
<1>4. IsContents(file, length, DataOffset(n), EndOffset(n))
  BY <1>2, <1>3 DEF IsContents
<1>5. Contents(n) = [start |-> DataOffset(n), end |-> EndOffset(n), depth |-> n.depth + 1]
  BY <1>2 DEF Contents
<1>6. index # None => n.depth + 1 = Cardinality(Around(file, DataOffset(n), EndOffset(n)))
  <2>1. SUFFICES ASSUME index # None
                 PROVE  n.depth + 1 = Cardinality(Around(file, DataOffset(n), EndOffset(n)))
    OBVIOUS
  <2>2. Closed(file, length)
    BY <2>1 DEF WalkInv, IndexInv
  <2>3. PICK k \in DOMAIN scan.nodes : scan.nodes[k] = n
    BY DEF ToSet
  <2>4. scan.depth = DepthOf(file, n) /\ n.depth = scan.depth
    BY <2>1, <2>3, Scanned DEF WalkInv, DepthInv
  <2>5. Cardinality(Around(file, DataIn(n.offset), EndIn(file, n.offset)))
          = Cardinality(Around(file, n.offset, EndIn(file, n.offset))) + 1
    BY <1>1, <1>2, <1>3, <2>2, AroundContents
  <2>6. QED
    BY <1>2, <2>4, <2>5 DEF DepthOf
<1>7. QED
  BY <1>4, <1>5, <1>6

\* The descent goes on with the children of the node.
LEMMA EnteredWalk ==
  ASSUME IInv, WalkInv, scan # NoScan, op.kind = "path", phase' = phase,
         UNCHANGED <<bytes, answer, index>>,
         NEW n \in ToSet(scan.nodes), IsGroup(n), op.target >= DataOffset(n), op.target < EndOffset(n),
         op' = [op EXCEPT !.seen = Append(@, n)], pending' = <<Contents(n)>>, scan' = NoScan
  PROVE  WalkInv'
<1> DEFINE t == Append(op.seen, n)
           c == Contents(n)
<1>1. /\ phase = "open" /\ length' = length /\ file' = file /\ index' = index /\ answer' = answer
      /\ TraceInv /\ OrderInv /\ TreeInv /\ op # Idle
      /\ \A o \in Known(file) : First(file) <= o /\ Reached(file, o)
  BY Scanned, Walking DEF bytes
<1>2. /\ op'.kind = "path" /\ op'.root = op.root /\ op'.target = op.target /\ op'.seen = t
  <2>1. DOMAIN op = {"kind", "root", "target", "seen"}
    BY <1>1 DEF TreeInv
  <2>2. QED
    BY <2>1
<1>3. /\ Chain(t) /\ Last(t) = n /\ Len(t) = Len(op.seen) + 1 /\ Len(op.seen) \in Nat /\ n.depth = Len(op.seen)
      /\ t # <<>> /\ \A i \in DOMAIN t : t[i] \in KnownNodes
  BY ChainGrows
<1>4. /\ c.start = DataOffset(n) /\ c.end = EndOffset(n) /\ c.depth = n.depth + 1
      /\ IsContents(file, length, DataOffset(n), EndOffset(n))
      /\ index # None => n.depth + 1 = Cardinality(Around(file, DataOffset(n), EndOffset(n)))
  BY GroupEntered
<1>5. DOMAIN pending' = {1} /\ pending'[1] = c
  OBVIOUS
<1>6. n \in KnownNodes /\ DataOffset(n) <= EndOffset(n) /\ DataOffset(n) \in Nat /\ n.offset \in Nat
      /\ n.offset < DataOffset(n) /\ EndOffset(n) \in Int
  BY Scanned, KnownNodeFacts
<1>7. KnownNodes' = KnownNodes
  BY <1>1, SameFile DEF KnownNodes
<1> HIDE DEF t, c
<1>8. TraceInv'
  <2>1. op.root = None \/ (op.root \in KnownNodes /\ IsGroup(op.root))
    BY <1>1 DEF TraceInv
  <2>2. answer.kind \in {"find", "path"} => \A i \in DOMAIN answer.result : answer.result[i] \in KnownNodes
    BY <1>1 DEF TraceInv
  <2>3. \A i \in DOMAIN pending' : IsContents(file, length, pending'[i].start, pending'[i].end)
    BY <1>4, <1>5
  <2>4. QED
    BY <1>1, <1>2, <1>3, <1>7, <2>1, <2>2, <2>3 DEF TraceInv
<1>9. OrderInv'
  <2>1. op.root # None => DataOffset(op.root) <= c.start /\ c.end <= EndOffset(op.root)
    <3>1. SUFFICES ASSUME op.root # None
                   PROVE  DataOffset(op.root) <= c.start /\ c.end <= EndOffset(op.root)
      OBVIOUS
    <3>2. DataOffset(op.root) \in Nat /\ DataOffset(op.root) <= n.offset /\ EndOffset(n) <= EndOffset(op.root)
      BY <3>1, RunInside
    <3>3. QED
      BY <1>4, <1>6, <3>2
  <2>2. QED
    BY <1>2, <1>4, <1>5, <1>6, <2>1 DEF OrderInv
<1>10. DescentInv'
  <2>1. LeadsOn(op.target, t, c)
    BY <1>3, <1>4, <1>6 DEF LeadsOn
  <2>2. op.target \in Nat
    BY DEF WalkInv, DescentInv
  <2>3. QED
    BY <1>2, <1>3, <1>5, <2>1, <2>2 DEF DescentInv
<1>11. IndexWalkInv' /\ CountInv'
  BY <1>2 DEF IndexWalkInv, CountInv
<1>12. DepthInv'
  <2>1. SUFFICES ASSUME index # None PROVE DepthInv'
    BY <1>1 DEF DepthInv
  <2>2. /\ op.root # None => op.root.depth = DepthOf(file, op.root)
        /\ answer.kind \in {"find", "path"} /\ answer.result # <<>> =>
             LET m == Last(answer.result) IN IsGroup(m) => m.depth = DepthOf(file, m)
    BY <1>1, <2>1 DEF WalkInv, DepthInv
  <2>3. c.depth = Cardinality(Around(file, c.start, c.end))
    BY <1>4, <2>1
  <2>4. QED
    BY <1>1, <1>2, <1>5, <2>2, <2>3 DEF DepthInv
<1>13. IndexInv' /\ PathIsRight' /\ FindIsRight' /\ StatisticsAreRight'
  BY <1>1, SameAnswer DEF WalkInv
<1>14. QED
  BY <1>8, <1>9, <1>10, <1>11, <1>12, <1>13 DEF WalkInv

\* GetPathToOffsetAsync: found, refused, or one level down.
LEMMA DescendWalk ==
  ASSUME IInv, WalkInv, Descend, phase' = phase
  PROVE  WalkInv'
<1>1. /\ scan # NoScan /\ scan.at >= scan.end /\ op.kind = "path"
      /\ UNCHANGED bytes /\ length' = length /\ file' = file
  BY DEF Descend, Parsed, bytes
<1>2. phase = "open" /\ \A o \in Known(file) : First(file) <= o /\ Reached(file, o)
  BY <1>1, Scanned, Walking
<1>3. Containing(op.target) # {}
  <2>1. op.target \in Nat /\ op.target < scan.end
        /\ (op.target < scan.at => \E m \in ToSet(scan.nodes) : m.offset <= op.target /\ op.target < EndOffset(m))
    BY <1>1 DEF WalkInv, DescentInv, LeadsOn
  <2>2. scan.at \in Nat /\ scan.end \in Nat
    BY <1>1, Scanned
  <2>3. \E m \in ToSet(scan.nodes) : m.offset <= op.target /\ op.target < EndOffset(m)
    BY <1>1, <2>1, <2>2
  <2>4. QED
    BY <2>3 DEF Containing, ToSet
<1>4. PICK i \in Containing(op.target) : Enter(scan.nodes[i], op.target)
  BY <1>1, <1>3 DEF Descend
<1> DEFINE n == scan.nodes[i]
<1>5. n \in ToSet(scan.nodes) /\ n.offset <= op.target /\ op.target < EndOffset(n) /\ Enter(n, op.target)
  BY <1>4 DEF Containing, ToSet
<1> HIDE DEF n
<1>6. CASE n.offset = op.target
  <2>1. End(TRUE, Append(op.seen, n)) /\ index' = index
    BY <1>5, <1>6 DEF Enter
  <2>2. QED
    BY <1>1, <1>5, <1>6, <2>1, FoundWalk
<1>7. CASE n.offset # op.target /\ (~ IsGroup(n) \/ op.target < DataOffset(n) \/ op.target >= EndOffset(n))
  <2>1. Refuse
    <3>1. EndOffset(n) \in Int /\ DataOffset(n) \in Nat /\ op.target \in Nat
      BY <1>1, <1>5, Scanned, KnownNodeFacts DEF WalkInv, DescentInv
    <3>2. ~ (IsGroup(n) /\ op.target >= DataOffset(n) /\ op.target < EndOffset(n)) /\ n.offset # op.target
      BY <1>7, <3>1
    <3>3. QED
      BY <1>5, <3>2, Zenon DEF Enter
  <2>2. index # None => op.target \notin DOMAIN file
    BY <1>1, <1>5, <1>7, NothingThere
  <2>3. IndexInv'
    BY <1>1, <2>1 DEF WalkInv, IndexInv, Refuse
  <2>4. QED
    BY <1>1, <1>2, <2>1, <2>2, <2>3, RefuseWalk
<1>8. CASE n.offset # op.target /\ IsGroup(n) /\ op.target >= DataOffset(n) /\ op.target < EndOffset(n)
  <2>1. /\ op' = [op EXCEPT !.seen = Append(@, n)] /\ pending' = <<Contents(n)>> /\ scan' = NoScan
        /\ UNCHANGED <<answer, index>>
    <3>1. EndOffset(n) \in Int /\ DataOffset(n) \in Nat /\ op.target \in Nat
      BY <1>1, <1>5, Scanned, KnownNodeFacts DEF WalkInv, DescentInv
    <3>2. /\ ~ (~ IsGroup(n) \/ op.target < DataOffset(n) \/ op.target >= EndOffset(n))
          /\ n.offset # op.target
      BY <1>8, <3>1
    <3>3. QED
      BY <1>5, <3>2, Zenon DEF Enter
  <2>2. QED
    BY <1>1, <1>5, <1>8, <2>1, EnteredWalk
<1>9. QED
  <2>1. EndOffset(n) \in Int /\ DataOffset(n) \in Nat /\ op.target \in Nat
    BY <1>1, <1>5, Scanned, KnownNodeFacts DEF WalkInv, DescentInv
  <2>2. QED
    BY <1>5, <1>6, <1>7, <1>8, <2>1

-----------------------------------------------------------------------------
(* Visiting the nodes of a run                                             *)

\* A node has finitely many groups around it.
LEMMA DepthOfNat ==
  ASSUME NEW f, NEW L, FileOK(f, L), NEW n
  PROVE  DepthOf(f, n) \in Nat
<1>1. IsFiniteSet(Around(f, n.offset, EndOffset(n)))
  BY NodesOfFinite, FS_Subset DEF Around
<1>2. QED
  BY <1>1, FS_CardinalityType DEF DepthOf

\* A node is counted.
LEMMA CountsGrow ==
  ASSUME NEW f, NEW L, FileOK(f, L), NEW s, NEW D \in SUBSET NodesOf(f), Counts(f, s, D),
         NEW m \in NodesOf(f), m \notin D,
         NEW n, n.header = m.header, n.depth = DepthOf(f, m)
  PROVE  Counts(f, Counted(s, n), D \cup {m})
<1> DEFINE E == D \cup {m}
           c == Counted(s, n)
<1>1. IsFiniteSet(D)
  BY NodesOfFinite, FS_Subset
<1>2. /\ IsGroup(n) = IsGroup(m)
      /\ c.groups = IF IsGroup(m) THEN s.groups + 1 ELSE s.groups + 0
      /\ c.records = IF ~ IsGroup(m) THEN s.records + 1 ELSE s.records + 0
      /\ c.compressed = IF m.header.kind = "compressed" THEN s.compressed + 1 ELSE s.compressed + 0
      /\ c.maxDepth = IF n.depth > s.maxDepth THEN n.depth ELSE s.maxDepth
  BY DEF Counted, IsGroup
<1>3. \A T \in SUBSET D : IsFiniteSet(T) /\ Cardinality(T) \in Nat /\ m \notin T
                          /\ Cardinality(T \cup {m}) = Cardinality(T) + 1
  BY <1>1, FS_Subset, FS_CardinalityType, FS_AddElement
<1>4. c.groups = Cardinality({x \in E : IsGroup(x)})
  <2> DEFINE T == {x \in D : IsGroup(x)}
  <2>1. s.groups = Cardinality(T)
    BY DEF Counts
  <2>2. {x \in E : IsGroup(x)} = T \cup (IF IsGroup(m) THEN {m} ELSE {})
    OBVIOUS
  <2>3. T \in SUBSET D
    OBVIOUS
  <2> HIDE DEF T
  <2>4. Cardinality(T) \in Nat /\ Cardinality(T \cup {m}) = Cardinality(T) + 1 /\ T \cup {} = T
    BY <1>3, <2>3
  <2>5. CASE IsGroup(m)
    BY <1>2, <2>1, <2>2, <2>4, <2>5
  <2>6. CASE ~ (IsGroup(m))
    <3>1. {x \in E : IsGroup(x)} = T
      BY <2>2, <2>4, <2>6
    <3>2. c.groups = s.groups + 0
      BY <1>2, <2>6
    <3>3. s.groups \in Nat
      BY <2>1, <2>4
    <3>4. c.groups = s.groups
      BY <3>2, <3>3
    <3>5. QED
      BY <2>1, <3>1, <3>4, Zenon
  <2>7. QED
    BY <2>5, <2>6
<1>5. c.records = Cardinality({x \in E : ~ IsGroup(x)})
  <2> DEFINE T == {x \in D : ~ IsGroup(x)}
  <2>1. s.records = Cardinality(T)
    BY DEF Counts
  <2>2. {x \in E : ~ IsGroup(x)} = T \cup (IF ~ IsGroup(m) THEN {m} ELSE {})
    OBVIOUS
  <2>3. T \in SUBSET D
    OBVIOUS
  <2> HIDE DEF T
  <2>4. Cardinality(T) \in Nat /\ Cardinality(T \cup {m}) = Cardinality(T) + 1 /\ T \cup {} = T
    BY <1>3, <2>3
  <2>5. CASE ~ IsGroup(m)
    BY <1>2, <2>1, <2>2, <2>4, <2>5
  <2>6. CASE ~ (~ IsGroup(m))
    BY <1>2, <2>1, <2>2, <2>4, <2>6
  <2>7. QED
    BY <2>5, <2>6
<1>6. c.compressed = Cardinality({x \in E : x.header.kind = "compressed"})
  <2> DEFINE T == {x \in D : x.header.kind = "compressed"}
  <2>1. s.compressed = Cardinality(T)
    BY DEF Counts
  <2>2. {x \in E : x.header.kind = "compressed"} = T \cup (IF m.header.kind = "compressed" THEN {m} ELSE {})
    OBVIOUS
  <2>3. T \in SUBSET D
    OBVIOUS
  <2> HIDE DEF T
  <2>4. Cardinality(T) \in Nat /\ Cardinality(T \cup {m}) = Cardinality(T) + 1 /\ T \cup {} = T
    BY <1>3, <2>3
  <2>5. CASE m.header.kind = "compressed"
    BY <1>2, <2>1, <2>2, <2>4, <2>5
  <2>6. CASE ~ (m.header.kind = "compressed")
    <3>1. {x \in E : x.header.kind = "compressed"} = T
      BY <2>2, <2>4, <2>6
    <3>2. c.compressed = s.compressed + 0
      BY <1>2, <2>6
    <3>3. s.compressed \in Nat
      BY <2>1, <2>4
    <3>4. c.compressed = s.compressed
      BY <3>2, <3>3
    <3>5. QED
      BY <2>1, <3>1, <3>4, Zenon
  <2>7. QED
    BY <2>5, <2>6
<1>7. /\ s.maxDepth \in Nat /\ \A x \in D : DepthOf(f, x) <= s.maxDepth
      /\ IF D = {} THEN s.maxDepth = 0 ELSE \E x \in D : DepthOf(f, x) = s.maxDepth
  BY DEF Counts
<1>8. \A x \in E : DepthOf(f, x) \in Nat
  BY DepthOfNat
<1>9. c.maxDepth \in Nat /\ \A x \in E : DepthOf(f, x) <= c.maxDepth
  BY <1>2, <1>7, <1>8
<1>10. \E x \in E : DepthOf(f, x) = c.maxDepth
  BY <1>2, <1>7, <1>8
<1> HIDE DEF c
<1>11. QED
  BY <1>4, <1>5, <1>6, <1>9, <1>10 DEF Counts, c

\* What a visit moves.
LEMMA VisitedRun ==
  ASSUME IInv, WalkInv, Visit, NEW n, n = Head(scan.nodes), ~ Matches(n)
  PROVE  /\ scan # NoScan /\ scan' # NoScan /\ op.kind \in Walks
         /\ length' = length /\ file' = file /\ answer' = answer /\ index' = index
         /\ op'.kind = op.kind /\ op'.root = op.root /\ op'.target = op.target
         /\ op'.seen = Visited(op.seen, n)
         /\ scan'.start = scan.start /\ scan'.end = scan.end /\ scan'.depth = scan.depth
         /\ scan'.at = scan.at
         /\ Len(scan.nodes) \in Nat \ {0} /\ DOMAIN scan.nodes = 1..Len(scan.nodes)
         /\ DOMAIN scan'.nodes = 1..(Len(scan.nodes) - 1)
         /\ \A k \in DOMAIN scan'.nodes : k + 1 \in DOMAIN scan.nodes /\ scan'.nodes[k] = scan.nodes[k + 1]
         /\ scan.nodes[1] = n /\ n \in ToSet(scan.nodes) /\ n \in KnownNodes
         /\ ToSet(scan.nodes) = ToSet(scan'.nodes) \cup {n}
         /\ \A m \in ToSet(scan'.nodes) : EndOffset(n) <= m.offset
         /\ Len(pending) \in Nat /\ DOMAIN pending = 1..Len(pending)
         /\ \A i \in DOMAIN pending : i \in DOMAIN pending' /\ pending'[i] = pending[i]
         /\ IF IsGroup(n) /\ DataSize(n) > 0
            THEN /\ DOMAIN pending' = 1..(Len(pending) + 1)
                 /\ pending'[Len(pending) + 1] = Contents(n)
            ELSE pending' = pending
<1>1. /\ scan # NoScan /\ op.kind \in Walks /\ scan.nodes # <<>>
      /\ length' = length /\ file' = file /\ answer' = answer /\ index' = index
      /\ op' = [op EXCEPT !.seen = Visited(@, n)]
      /\ pending' = pending \o Pushed(n)
      /\ scan' = [scan EXCEPT !.nodes = Tail(@)]
  BY DEF Visit, Parsed, bytes
<1>2. /\ TreeInv /\ OrderInv /\ length \in Nat /\ scan.nodes \in Seq(KnownNodes)
  BY <1>1, Scanned, Walking
<1>3. DOMAIN op = {"kind", "root", "target", "seen"}
  BY <1>1, Scanned DEF TreeInv, IInv
<1>4. /\ op'.kind = op.kind /\ op'.root = op.root /\ op'.target = op.target
      /\ op'.seen = Visited(op.seen, n)
  BY <1>1, <1>3
<1>5. DOMAIN scan = {"start", "end", "depth", "at", "from", "to", "nodes"}
  BY <1>1, <1>2, ScanFacts
<1>6. /\ scan'.start = scan.start /\ scan'.end = scan.end /\ scan'.depth = scan.depth
      /\ scan'.at = scan.at /\ scan'.nodes = Tail(scan.nodes)
      /\ DOMAIN scan' = DOMAIN scan
  BY <1>1, <1>5
<1>7. scan' # NoScan
  <2>1. DOMAIN NoScan = {"end"}
    BY DEF NoScan
  <2>2. QED
    BY <1>5, <1>6, <2>1
<1>8. /\ Len(scan.nodes) \in Nat \ {0} /\ DOMAIN scan.nodes = 1..Len(scan.nodes)
      /\ DOMAIN scan'.nodes = 1..(Len(scan.nodes) - 1)
      /\ \A k \in 1..(Len(scan.nodes) - 1) : scan'.nodes[k] = scan.nodes[k + 1]
      /\ scan.nodes[1] = n /\ n \in KnownNodes
  BY <1>1, <1>2, <1>6, TailFacts
<1>9. \A k \in DOMAIN scan'.nodes : k + 1 \in DOMAIN scan.nodes /\ scan'.nodes[k] = scan.nodes[k + 1]
  BY <1>8
<1>10. ToSet(scan.nodes) = ToSet(scan'.nodes) \cup {n}
  <2>1. \A k \in DOMAIN scan.nodes : k = 1 \/ (k - 1 \in DOMAIN scan'.nodes /\ scan'.nodes[k - 1] = scan.nodes[k])
    BY <1>8
  <2>2. 1 \in DOMAIN scan.nodes
    BY <1>8
  <2>3. ToSet(scan.nodes) \subseteq ToSet(scan'.nodes) \cup {n}
    BY <1>8, <2>1 DEF ToSet
  <2>4. ToSet(scan'.nodes) \cup {n} \subseteq ToSet(scan.nodes)
    BY <1>8, <1>9, <2>2 DEF ToSet
  <2>5. QED
    BY <2>3, <2>4
<1>11. \A m \in ToSet(scan'.nodes) : EndOffset(n) <= m.offset
  <2>1. \A k \in DOMAIN scan'.nodes : EndOffset(scan.nodes[1]) <= scan.nodes[k + 1].offset
    <3>1. \A i, k \in DOMAIN scan.nodes :
            i < k => EndOffset(scan.nodes[i]) <= scan.nodes[k].offset
      BY <1>1, <1>2 DEF OrderInv
    <3>2. \A k \in DOMAIN scan'.nodes : 1 \in DOMAIN scan.nodes /\ 1 < k + 1
      BY <1>8
    <3>3. QED
      BY <1>9, <3>1, <3>2
  <2>2. QED
    BY <1>8, <1>9, <2>1 DEF ToSet
<1>12. pending \in Seq(Containers) /\ Len(pending) \in Nat /\ DOMAIN pending = 1..Len(pending)
  BY <1>2 DEF TreeInv
<1>13. CASE IsGroup(n) /\ DataSize(n) > 0
  <2>1. pending' = Append(pending, Contents(n))
    <3>1. Pushed(n) = <<Contents(n)>>
      BY <1>13 DEF Pushed
    <3>2. Contents(n) \in Containers
      BY <1>2, <1>8, KnownNodeFacts, ContentsFacts
    <3>3. QED
      BY <1>1, <1>12, <3>1, <3>2
  <2>2. Contents(n) \in Containers
    BY <1>2, <1>8, KnownNodeFacts, ContentsFacts
  <2>3. /\ DOMAIN pending' = 1..(Len(pending) + 1)
        /\ pending'[Len(pending) + 1] = Contents(n)
        /\ \A i \in 1..Len(pending) : pending'[i] = pending[i]
    BY <1>12, <2>1, <2>2, AppendFacts
  <2>4. \A i \in DOMAIN pending : i \in DOMAIN pending' /\ pending'[i] = pending[i]
    BY <1>12, <2>3
  <2>5. QED
    BY <1>1, <1>4, <1>6, <1>7, <1>8, <1>9, <1>10, <1>11, <1>12, <1>13, <2>3, <2>4
<1>14. CASE ~ (IsGroup(n) /\ DataSize(n) > 0)
  <2>1. pending' = pending
    <3>1. Pushed(n) = <<>>
      BY <1>14 DEF Pushed
    <3>2. QED
      BY <1>1, <1>12, <3>1, ConcatEmptySeq
  <2>2. QED
    BY <1>1, <1>4, <1>6, <1>7, <1>8, <1>9, <1>10, <1>11, <1>12, <1>14, <2>1
<1>15. QED
  BY <1>13, <1>14

\* What is left to be scanned stays the same, and the node is not ahead any more.
LEMMA VisitedRegions ==
  ASSUME IInv, WalkInv, Visit, NEW n, n = Head(scan.nodes), ~ Matches(n)
  PROVE  /\ Regions' = Regions
         /\ n.offset \in Unvisited /\ Unvisited' = Unvisited \ {n.offset}
         /\ \A r \in Regions : ~ (r.start <= n.offset /\ n.offset < r.end)
         /\ Ahead' = Ahead \ {n.offset} /\ n.offset \in Ahead
<1> DEFINE inner(s) == {Region(DataOffset(m), EndOffset(m)) : m \in {m \in s : IsGroup(m) /\ DataSize(m) > 0}}
           waits == {Region(pending[i].start, pending[i].end) : i \in DOMAIN pending}
           current == Region(scan.at, scan.end)
<1>1. /\ scan # NoScan /\ scan' # NoScan /\ file' = file /\ scan'.end = scan.end /\ scan'.at = scan.at
      /\ n \in ToSet(scan.nodes) /\ n \in KnownNodes
      /\ ToSet(scan.nodes) = ToSet(scan'.nodes) \cup {n}
      /\ \A m \in ToSet(scan'.nodes) : EndOffset(n) <= m.offset
      /\ Len(pending) \in Nat /\ DOMAIN pending = 1..Len(pending)
      /\ \A i \in DOMAIN pending : i \in DOMAIN pending' /\ pending'[i] = pending[i]
      /\ IF IsGroup(n) /\ DataSize(n) > 0
         THEN /\ DOMAIN pending' = 1..(Len(pending) + 1)
              /\ pending'[Len(pending) + 1] = Contents(n)
         ELSE pending' = pending
  BY VisitedRun
<1>2. \A m \in ToSet(scan.nodes) :
        /\ m.offset \in Nat /\ DataOffset(m) \in Nat /\ m.offset < DataOffset(m) /\ EndOffset(m) \in Int
        /\ DataOffset(m) <= EndOffset(m) /\ EndOffset(m) <= scan.at
  BY <1>1, Scanned, KnownNodeFacts
<1>3. scan.at \in Nat /\ scan.end \in Nat /\ OrderInv /\ TreeInv
  BY <1>1, Scanned, Walking
<1>4. \A i \in DOMAIN pending : pending[i].end <= n.offset /\ pending[i].end \in Int
  <2>1. n \in {scan.nodes[k] : k \in DOMAIN scan.nodes}
    BY <1>1 DEF ToSet
  <2>2. QED
    BY <1>1, <1>3, <2>1 DEF OrderInv, TreeInv, Containers
<1>5. Later = waits \cup inner(ToSet(scan.nodes))
  BY <1>1 DEF Later
<1>6. Later' = {Region(pending'[i].start, pending'[i].end) : i \in DOMAIN pending'} \cup inner(ToSet(scan'.nodes))
  BY <1>1 DEF Later
<1>7. {Region(pending'[i].start, pending'[i].end) : i \in DOMAIN pending'} = waits \cup inner({n})
  <2>1. CASE IsGroup(n) /\ DataSize(n) > 0
    <3>1. Contents(n).start = DataOffset(n) /\ Contents(n).end = EndOffset(n)
      BY <1>1, <2>1, GroupEntered
    <3>2. inner({n}) = {Region(DataOffset(n), EndOffset(n))}
      BY <2>1
    <3>3. DOMAIN pending' = DOMAIN pending \cup {Len(pending) + 1}
      BY <1>1, <2>1
    <3>4. pending'[Len(pending) + 1] = Contents(n)
      BY <1>1, <2>1
    <3>5. QED
      BY <1>1, <3>1, <3>2, <3>3, <3>4
  <2>2. CASE ~ (IsGroup(n) /\ DataSize(n) > 0)
    BY <1>1, <2>2
  <2>3. QED
    BY <2>1, <2>2
<1>8. inner(ToSet(scan.nodes)) = inner(ToSet(scan'.nodes)) \cup inner({n})
  BY <1>1
<1>9. \A r \in waits \cup inner(ToSet(scan.nodes)) \cup {current} : ~ (r.start <= n.offset /\ n.offset < r.end)
  <2>1. \A r \in waits : ~ (n.offset < r.end)
    BY <1>1, <1>2, <1>4 DEF Region
  <2>2. \A r \in inner(ToSet(scan.nodes)) : ~ (r.start <= n.offset)
    <3>1. ASSUME NEW m \in ToSet(scan.nodes)
          PROVE  ~ (DataOffset(m) <= n.offset)
      <4>1. CASE m = n
        BY <1>1, <1>2, <4>1
      <4>2. CASE m \in ToSet(scan'.nodes)
        BY <1>1, <1>2, <3>1, <4>2
      <4>3. QED
        BY <1>1, <3>1, <4>1, <4>2
    <3>2. QED
      BY <3>1 DEF Region
  <2>3. ~ (current.start <= n.offset)
    BY <1>1, <1>2, <1>3 DEF Region
  <2>4. QED
    BY <2>1, <2>2, <2>3
<1>10. n.offset \notin {m.offset : m \in ToSet(scan'.nodes)}
  BY <1>1, <1>2
<1> HIDE DEF inner, waits, current
<1>11. Regions = waits \cup inner(ToSet(scan.nodes)) \cup {current}
  BY <1>1, <1>5 DEF Regions, current
<1>12. Regions' = Regions
  <2>1. Regions' = Later' \cup {current}
    BY <1>1 DEF Regions, current
  <2>2. QED
    BY <1>6, <1>7, <1>8, <1>11, <2>1
<1>13. /\ Unvisited = {m.offset : m \in ToSet(scan.nodes)}
       /\ Unvisited' = {m.offset : m \in ToSet(scan'.nodes)}
  BY <1>1 DEF Unvisited
<1>14. n.offset \in Unvisited /\ Unvisited' = Unvisited \ {n.offset}
  BY <1>1, <1>10, <1>13
<1>15. Ahead' = Ahead \ {n.offset} /\ n.offset \in Ahead
  <2> DEFINE Rest == {o \in Known(file) : \E r \in Regions : r.start <= o /\ o < r.end}
  <2>1. Ahead = Unvisited \cup Rest /\ Ahead' = Unvisited' \cup Rest
    BY <1>1, <1>12 DEF Ahead
  <2>2. n.offset \notin Rest
    BY <1>9, <1>11
  <2> HIDE DEF Rest
  <2>3. QED
    BY <1>14, <2>1, <2>2
<1>16. QED
  BY <1>9, <1>11, <1>12, <1>14, <1>15

\* A pushed container is the contents of a known group.
LEMMA VisitedTrace ==
  ASSUME IInv, WalkInv, Visit, NEW n, n = Head(scan.nodes), ~ Matches(n), phase' = phase
  PROVE  TraceInv'
<1>1. /\ scan # NoScan /\ scan' # NoScan /\ op.kind \in Walks
      /\ length' = length /\ file' = file /\ answer' = answer /\ index' = index
      /\ op'.kind = op.kind /\ op'.root = op.root
      /\ scan'.start = scan.start /\ scan'.end = scan.end /\ scan'.at = scan.at
      /\ \A k \in DOMAIN scan'.nodes : k + 1 \in DOMAIN scan.nodes /\ scan'.nodes[k] = scan.nodes[k + 1]
      /\ n \in ToSet(scan.nodes)
      /\ Len(pending) \in Nat /\ DOMAIN pending = 1..Len(pending)
      /\ \A i \in DOMAIN pending : i \in DOMAIN pending' /\ pending'[i] = pending[i]
      /\ IF IsGroup(n) /\ DataSize(n) > 0
         THEN /\ DOMAIN pending' = 1..(Len(pending) + 1)
              /\ pending'[Len(pending) + 1] = Contents(n)
         ELSE pending' = pending
  BY VisitedRun
<1>2. phase = "open" /\ TraceInv /\ op # Idle
  BY <1>1, Scanned, Walking
<1>3. KnownNodes' = KnownNodes
  BY <1>1, SameFile DEF KnownNodes
<1>4. \A i \in DOMAIN pending' : IsContents(file, length, pending'[i].start, pending'[i].end)
  <2>1. \A i \in DOMAIN pending : IsContents(file, length, pending[i].start, pending[i].end)
    BY <1>2 DEF TraceInv
  <2>2. CASE IsGroup(n) /\ DataSize(n) > 0
    <3>1. IsContents(file, length, Contents(n).start, Contents(n).end)
      BY <1>1, <2>2, GroupEntered
    <3>2. \A i \in DOMAIN pending' : i \in DOMAIN pending \/ i = Len(pending) + 1
      BY <1>1, <2>2
    <3>3. QED
      BY <1>1, <2>1, <2>2, <3>1, <3>2
  <2>3. CASE ~ (IsGroup(n) /\ DataSize(n) > 0)
    BY <1>1, <2>1, <2>3
  <2>4. QED
    BY <2>2, <2>3
<1>5. \A k \in DOMAIN scan'.nodes : scan'.nodes[k] \in KnownNodes
  BY <1>1, <1>2 DEF TraceInv
<1>6. /\ op.root = None \/ (op.root \in KnownNodes /\ IsGroup(op.root))
      /\ IsContents(file, length, scan.start, scan.end) /\ Reached(file, scan.at)
      /\ \A o \in Known(file) : First(file) <= o /\ Reached(file, o)
      /\ answer.kind \in {"find", "path"} => \A i \in DOMAIN answer.result : answer.result[i] \in KnownNodes
  BY <1>1, <1>2 DEF TraceInv
<1>7. op'.kind # "path"
  BY <1>1 DEF Walks
<1>8. QED
  BY <1>1, <1>2, <1>3, <1>4, <1>5, <1>6, <1>7 DEF TraceInv

\* A pushed container is behind those on the stack and before what is left of the run.
LEMMA VisitedOrder ==
  ASSUME IInv, WalkInv, Visit, NEW n, n = Head(scan.nodes), ~ Matches(n)
  PROVE  OrderInv'
<1> DEFINE p == Len(pending)
           c == Contents(n)
<1>1. /\ scan # NoScan /\ scan' # NoScan
      /\ op'.root = op.root
      /\ scan'.start = scan.start /\ scan'.end = scan.end /\ scan'.at = scan.at /\ scan'.depth = scan.depth
      /\ Len(scan.nodes) \in Nat \ {0} /\ DOMAIN scan.nodes = 1..Len(scan.nodes)
      /\ DOMAIN scan'.nodes = 1..(Len(scan.nodes) - 1)
      /\ \A k \in DOMAIN scan'.nodes : k + 1 \in DOMAIN scan.nodes /\ scan'.nodes[k] = scan.nodes[k + 1]
      /\ n \in ToSet(scan.nodes) /\ n \in KnownNodes
      /\ \A m \in ToSet(scan'.nodes) : EndOffset(n) <= m.offset
      /\ p \in Nat /\ DOMAIN pending = 1..p
      /\ \A i \in DOMAIN pending : i \in DOMAIN pending' /\ pending'[i] = pending[i]
      /\ IF IsGroup(n) /\ DataSize(n) > 0
         THEN /\ DOMAIN pending' = 1..(p + 1)
              /\ pending'[p + 1] = c
         ELSE pending' = pending
  BY VisitedRun
<1>2. OrderInv /\ TreeInv /\ scan.at \in Nat /\ EndOffset(n) <= scan.at /\ op # Idle
  BY <1>1, Scanned, Walking
<1>3. /\ n.offset \in Nat /\ DataOffset(n) \in Nat /\ n.offset < DataOffset(n) /\ EndOffset(n) \in Int
      /\ DataOffset(n) <= EndOffset(n)
  BY <1>1, KnownNodeFacts
<1>4. \A i \in DOMAIN pending : pending[i].end <= n.offset /\ pending[i].end \in Int
  <2>1. PICK k \in DOMAIN scan.nodes : n = scan.nodes[k]
    BY <1>1 DEF ToSet
  <2>2. \A i \in DOMAIN pending : pending[i].end <= scan.nodes[k].offset
    BY <1>1, <1>2 DEF OrderInv
  <2>3. \A i \in DOMAIN pending : pending[i].end \in Int
    BY <1>2 DEF TreeInv, Containers
  <2>4. QED
    BY <2>1, <2>2, <2>3
<1>5. \A i \in DOMAIN pending :
        /\ pending[i].end <= scan.at
        /\ \A k \in DOMAIN scan'.nodes : pending[i].end <= scan'.nodes[k].offset
  BY <1>1, <1>2 DEF OrderInv
<1>6. \A i, k \in DOMAIN scan'.nodes : i < k => EndOffset(scan'.nodes[i]) <= scan'.nodes[k].offset
  <2>1. \A i, k \in DOMAIN scan.nodes : i < k => EndOffset(scan.nodes[i]) <= scan.nodes[k].offset
    BY <1>1, <1>2 DEF OrderInv
  <2>2. \A i, k \in DOMAIN scan'.nodes : i < k => i + 1 < k + 1
    BY <1>1
  <2>3. QED
    BY <1>1, <2>1, <2>2
<1>7. \A k \in DOMAIN scan'.nodes : EndOffset(scan'.nodes[k]) <= scan.at /\ scan'.nodes[k].depth = scan.depth
  BY <1>1, <1>2 DEF OrderInv
<1>8. op.root # None =>
        /\ \A i \in DOMAIN pending :
             DataOffset(op.root) <= pending[i].start /\ pending[i].end <= EndOffset(op.root)
        /\ DataOffset(op.root) <= scan.start /\ scan.end <= EndOffset(op.root)
  BY <1>1, <1>2 DEF OrderInv
<1>9. /\ \A i, j \in DOMAIN pending : i < j => pending[i].end <= pending[j].start
      /\ \A i \in DOMAIN pending : pending[i].start <= pending[i].end
      /\ scan.at <= scan.end
  BY <1>1, <1>2 DEF OrderInv
<1>10. CASE ~ (IsGroup(n) /\ DataSize(n) > 0)
  <2>1. pending' = pending
    BY <1>1, <1>10
  <2>2. QED
    BY <1>1, <1>5, <1>6, <1>7, <1>8, <1>9, <2>1 DEF OrderInv
<1>11. CASE IsGroup(n) /\ DataSize(n) > 0
  <2>1. c.start = DataOffset(n) /\ c.end = EndOffset(n)
    BY <1>1, <1>11, GroupEntered
  <2>2. DOMAIN pending' = 1..(p + 1) /\ pending'[p + 1] = c
        /\ \A i \in 1..p : pending'[i] = pending[i]
    BY <1>1, <1>11
  <2> HIDE DEF c, p
  <2>3. \A i \in 1..(p + 1) : i \in 1..p \/ i = p + 1
    BY <1>1
  <2>4. \A i, j \in 1..(p + 1) : i < j => i \in 1..p
    BY <1>1
  <2>5. \A i \in 1..p : pending[i].end <= DataOffset(n)
    BY <1>1, <1>3, <1>4
  <2>6. \A i, j \in DOMAIN pending' : i < j => pending'[i].end <= pending'[j].start
    BY <1>1, <1>9, <2>1, <2>2, <2>3, <2>4, <2>5
  <2>7. \A i \in DOMAIN pending' : pending'[i].start <= pending'[i].end
    BY <1>1, <1>3, <1>9, <2>1, <2>2, <2>3
  <2>8. \A k \in DOMAIN scan'.nodes : EndOffset(n) <= scan'.nodes[k].offset
    BY <1>1 DEF ToSet
  <2>9. \A i \in DOMAIN pending' :
          /\ pending'[i].end <= scan.at
          /\ \A k \in DOMAIN scan'.nodes : pending'[i].end <= scan'.nodes[k].offset
    BY <1>1, <1>2, <1>5, <2>1, <2>2, <2>3, <2>8
  <2>10. op.root # None =>
           \A i \in DOMAIN pending' :
             DataOffset(op.root) <= pending'[i].start /\ pending'[i].end <= EndOffset(op.root)
    <3>1. op.root # None => DataOffset(op.root) <= DataOffset(n) /\ EndOffset(n) <= EndOffset(op.root)
      BY <1>1, <1>3, RunInside
    <3>2. QED
      BY <1>1, <1>8, <2>1, <2>2, <2>3, <3>1
  <2>11. QED
    BY <1>1, <1>6, <1>7, <1>8, <1>9, <2>6, <2>7, <2>9, <2>10 DEF OrderInv
<1>12. QED
  BY <1>10, <1>11

\* Building an index: the record visited is the next entry.
LEMMA VisitedIndex ==
  ASSUME IInv, WalkInv, Visit, NEW n, n = Head(scan.nodes), ~ Matches(n)
  PROVE  IndexWalkInv'
<1>1. /\ scan # NoScan /\ length' = length /\ file' = file
      /\ op'.kind = op.kind /\ op'.seen = Visited(op.seen, n)
      /\ n \in KnownNodes
  BY VisitedRun
<1>2. SUFFICES ASSUME op.kind = "index" PROVE IndexWalkInv'
  BY <1>1 DEF IndexWalkInv
<1>3. PICK V \in SUBSET Known(file) :
        /\ Walked(file, length, V, Regions)
        /\ Unvisited \subseteq V
        /\ ToSet(op.seen) = {Entry(file, o) : o \in Records(file, V \ Unvisited)}
  BY <1>2 DEF WalkInv, IndexWalkInv
<1>4. /\ Regions' = Regions /\ n.offset \in Unvisited /\ Unvisited' = Unvisited \ {n.offset}
  BY VisitedRegions
<1>5. /\ IsGroup(n) = GroupIn(file, n.offset) /\ n.header = file[n.offset] /\ n.offset \in Nat
  BY <1>1, KnownNodeFacts
<1>6. Records(file, V \ Unvisited') =
        Records(file, V \ Unvisited) \cup (IF IsGroup(n) THEN {} ELSE {n.offset})
  BY <1>3, <1>4, <1>5 DEF Records
<1>7. ToSet(op'.seen) = ToSet(op.seen) \cup (IF IsGroup(n) THEN {} ELSE {Entry(file, n.offset)})
  <2>1. CASE IsGroup(n)
    BY <1>1, <1>2, <2>1 DEF Visited
  <2>2. CASE ~ IsGroup(n)
    <3> DEFINE e == Entry(file, n.offset)
    <3>1. op'.seen = Append(op.seen, e)
      BY <1>1, <1>2, <1>5, <2>2 DEF Visited, Entry
    <3>2. op.seen \in Seq([id : Nat, offset : Nat])
      BY <1>2 DEF IInv, TreeInv
    <3>3. e \in [id : Nat, offset : Nat]
      <4>1. n \in NodeSet
        BY <1>1, KnownNodeFacts
      <4>2. n.header.id \in Nat
        BY <2>2, <4>1, NodeFacts, PluginNodesAssumption
      <4>3. QED
        BY <1>5, <4>2 DEF Entry
    <3> HIDE DEF e
    <3>4. /\ DOMAIN op'.seen = 1..(Len(op.seen) + 1) /\ DOMAIN op.seen = 1..Len(op.seen) /\ Len(op.seen) \in Nat
          /\ \A i \in 1..Len(op.seen) : op'.seen[i] = op.seen[i]
          /\ op'.seen[Len(op.seen) + 1] = e
      BY <3>1, <3>2, <3>3, AppendFacts
    <3>5. DOMAIN op'.seen = DOMAIN op.seen \cup {Len(op.seen) + 1}
      BY <3>4
    <3>6. ToSet(op'.seen) = ToSet(op.seen) \cup {e}
      BY <3>4, <3>5 DEF ToSet
    <3>7. QED
      BY <2>2, <3>6 DEF e
  <2>3. QED
    BY <2>1, <2>2
<1>8. ToSet(op'.seen) = {Entry(file, o) : o \in Records(file, V \ Unvisited')}
  <2>1. CASE IsGroup(n)
    BY <1>3, <1>6, <1>7, <2>1
  <2>2. CASE ~ IsGroup(n)
    BY <1>3, <1>6, <1>7, <2>2
  <2>3. QED
    BY <2>1, <2>2
<1>9. Unvisited' \subseteq V
  BY <1>3, <1>4
<1>10. /\ Walked(file', length', V, Regions')
       /\ ToSet(op'.seen) = {Entry(file', o) : o \in Records(file', V \ Unvisited')}
       /\ V \in SUBSET Known(file')
  BY <1>1, <1>3, <1>4, <1>8
<1>11. QED
  BY <1>9, <1>10 DEF IndexWalkInv

\* In an indexed file the node, which is under the root, goes to the nodes passed.
LEMMA VisitedCount ==
  ASSUME IInv, WalkInv, Visit, NEW n, n = Head(scan.nodes), ~ Matches(n)
  PROVE  CountInv'
<1>1. /\ scan # NoScan /\ length' = length /\ file' = file /\ index' = index
      /\ op'.kind = op.kind /\ op'.root = op.root /\ op'.target = op.target
      /\ op'.seen = Visited(op.seen, n)
      /\ n \in KnownNodes /\ n \in ToSet(scan.nodes)
  BY VisitedRun
<1>2. SUFFICES ASSUME index # None PROVE CountInv'
  BY <1>1 DEF CountInv
<1> DEFINE m == Node(n.offset, 0, file[n.offset])
<1>3. /\ n.offset \in DOMAIN file /\ n.header = file[n.offset] /\ n.offset \in Nat
      /\ EndOffset(n) = EndIn(file, n.offset) /\ DataOffset(n) = DataIn(n.offset)
  BY <1>1, KnownNodeFacts
<1>4. /\ m.offset = n.offset /\ m.header = n.header /\ EndOffset(m) = EndOffset(n)
      /\ DataOffset(m) = DataOffset(n) /\ IsGroup(m) = IsGroup(n)
  BY <1>3, NodeAtFacts DEF IsGroup
<1>5. FileOK(file, length)
  BY <1>1, Scanned, Walking
<1>6. n.offset # 0
  <2>1. /\ First(file) <= scan.start /\ scan.start <= n.offset /\ First(file) \in Nat /\ scan.start \in Nat
    BY <1>1, Scanned, Walking
  <2>2. 0 < First(file)
    <3>1. 0 \in DOMAIN file /\ ~ GroupIn(file, 0)
      BY <1>5 DEF FileOK, GroupIn
    <3>2. QED
      BY <1>5, <2>1, <3>1, OffsetFacts DEF First
  <2>3. QED
    BY <1>3, <2>1, <2>2
<1>7. m \in NodesOf(file)
  BY <1>3, <1>6 DEF NodesOf, Known
<1>8. m \in Under(file, op.root)
  <2>1. op.root # None =>
           /\ DataOffset(op.root) \in Nat /\ EndOffset(op.root) \in Int
           /\ op.root.offset < DataOffset(op.root)
           /\ DataOffset(op.root) <= n.offset /\ EndOffset(n) <= EndOffset(op.root)
    BY <1>1, RunInside
  <2>2. op.root # None => op.root.offset # n.offset
    <3>1. op.root # None => op.root \in KnownNodes
      BY <1>1, Scanned, Walking DEF TraceInv
    <3>2. op.root # None => op.root.offset \in Nat
      BY <3>1, KnownNodeFacts
    <3>3. QED
      BY <1>3, <2>1, <3>2
  <2> HIDE DEF m
  <2>3. Inside(m, op.root)
    BY <1>4, <2>1 DEF Inside
  <2>4. QED
    BY <1>4, <1>7, <2>2, <2>3 DEF Under
<1>9. /\ Ahead' = Ahead \ {n.offset} /\ n.offset \in Ahead
  BY VisitedRegions
<1>10. m \notin Done
  BY <1>4, <1>9 DEF Done
<1>11. Done' = Done \cup {m}
  <2>1. \A x \in NodesOf(file) : x.offset = n.offset => x = m
    BY NodesOfFacts
  <2>2. Done' = {x \in Under(file, op.root) : x.offset \notin Ahead'}
    BY <1>1 DEF Done
  <2>3. Under(file, op.root) \subseteq NodesOf(file)
    BY DEF Under
  <2> HIDE DEF m
  <2>4. QED
    BY <1>4, <1>8, <1>9, <2>1, <2>2, <2>3 DEF Done
<1>12. n.depth = DepthOf(file, m)
  <2>1. PICK k \in DOMAIN scan.nodes : scan.nodes[k] = n
    BY <1>1 DEF ToSet
  <2>2. scan.depth = DepthOf(file, n) /\ n.depth = scan.depth
    BY <1>1, <1>2, <2>1, Scanned DEF WalkInv, DepthInv
  <2>3. QED
    BY <1>4, <2>2 DEF DepthOf
<1>13. Done \in SUBSET NodesOf(file)
  BY DEF Done, Under
<1> HIDE DEF m
<1>14. op.kind = "find" => \A x \in Done' : ~ (~ IsGroup(x) /\ x.header.id = op.target)
  <2>1. SUFFICES ASSUME op.kind = "find"
                 PROVE  \A x \in Done' : ~ (~ IsGroup(x) /\ x.header.id = op.target)
    OBVIOUS
  <2>2. \A x \in Done : ~ (~ IsGroup(x) /\ x.header.id = op.target)
    BY <1>2, <2>1 DEF WalkInv, CountInv
  <2>3. ~ (~ IsGroup(m) /\ m.header.id = op.target)
    BY <1>4, <2>1 DEF Matches
  <2>4. QED
    BY <1>11, <2>2, <2>3
<1>15. op.kind = "statistics" => Counts(file, op'.seen, Done')
  <2>1. SUFFICES ASSUME op.kind = "statistics" PROVE Counts(file, op'.seen, Done')
    OBVIOUS
  <2>2. Counts(file, op.seen, Done)
    BY <1>2, <2>1 DEF WalkInv, CountInv
  <2>3. op'.seen = Counted(op.seen, n)
    BY <1>1, <2>1 DEF Visited
  <2>4. QED
    BY <1>4, <1>5, <1>7, <1>10, <1>11, <1>12, <1>13, <2>2, <2>3, CountsGrow
<1>16. QED
  BY <1>1, <1>14, <1>15 DEF CountInv

\* A pushed container is one level below its group.
LEMMA VisitedDepth ==
  ASSUME IInv, WalkInv, Visit, NEW n, n = Head(scan.nodes), ~ Matches(n)
  PROVE  DepthInv'
<1>1. /\ scan # NoScan /\ scan' # NoScan
      /\ length' = length /\ file' = file /\ answer' = answer /\ index' = index
      /\ op'.root = op.root
      /\ scan'.start = scan.start /\ scan'.end = scan.end /\ scan'.at = scan.at /\ scan'.depth = scan.depth
      /\ \A k \in DOMAIN scan'.nodes : k + 1 \in DOMAIN scan.nodes /\ scan'.nodes[k] = scan.nodes[k + 1]
      /\ n \in ToSet(scan.nodes)
      /\ Len(pending) \in Nat /\ DOMAIN pending = 1..Len(pending)
      /\ \A i \in DOMAIN pending : i \in DOMAIN pending' /\ pending'[i] = pending[i]
      /\ IF IsGroup(n) /\ DataSize(n) > 0
         THEN /\ DOMAIN pending' = 1..(Len(pending) + 1)
              /\ pending'[Len(pending) + 1] = Contents(n)
         ELSE pending' = pending
  BY VisitedRun
<1>2. SUFFICES ASSUME index # None PROVE DepthInv'
  BY <1>1 DEF DepthInv
<1>3. op # Idle
  BY <1>1, Scanned
<1>4. /\ op.root # None => op.root.depth = DepthOf(file, op.root)
      /\ \A i \in DOMAIN pending :
           pending[i].depth = Cardinality(Around(file, pending[i].start, pending[i].end))
      /\ scan.depth = Cardinality(Around(file, scan.start, scan.end))
      /\ \A o \in Known(file) : scan.start <= o /\ o < scan.at => EndIn(file, o) <= scan.at
      /\ \A k \in DOMAIN scan.nodes : scan.depth = DepthOf(file, scan.nodes[k])
      /\ answer.kind \in {"find", "path"} /\ answer.result # <<>> =>
           LET m == Last(answer.result) IN IsGroup(m) => m.depth = DepthOf(file, m)
  BY <1>1, <1>2, <1>3 DEF WalkInv, DepthInv
<1>5. \A i \in DOMAIN pending' :
        pending'[i].depth = Cardinality(Around(file, pending'[i].start, pending'[i].end))
  <2>1. CASE IsGroup(n) /\ DataSize(n) > 0
    <3> DEFINE c == Contents(n)
    <3>1. c.depth = Cardinality(Around(file, c.start, c.end))
      BY <1>1, <1>2, <2>1, GroupEntered
    <3>2. \A i \in DOMAIN pending' : i \in DOMAIN pending \/ i = Len(pending) + 1
      BY <1>1, <2>1
    <3>3. pending'[Len(pending) + 1] = c
      BY <1>1, <2>1
    <3> HIDE DEF c
    <3>4. QED
      BY <1>1, <1>4, <3>1, <3>2, <3>3
  <2>2. CASE ~ (IsGroup(n) /\ DataSize(n) > 0)
    BY <1>1, <1>4, <2>2
  <2>3. QED
    BY <2>1, <2>2
<1>6. \A k \in DOMAIN scan'.nodes : scan.depth = DepthOf(file, scan'.nodes[k])
  BY <1>1, <1>4
<1>7. QED
  BY <1>1, <1>4, <1>5, <1>6 DEF DepthInv

\* The search stops at a record with the id, inside its root.
LEMMA MatchWalk ==
  ASSUME IInv, WalkInv, scan # NoScan, phase' = phase, UNCHANGED <<bytes, index>>,
         NEW n \in ToSet(scan.nodes), Matches(n), End(TRUE, <<n>>)
  PROVE  WalkInv'
<1>1. /\ phase = "open" /\ length' = length /\ file' = file /\ index' = index
      /\ \A o \in Known(file) : First(file) <= o /\ Reached(file, o)
  BY Scanned, Walking DEF bytes
<1>2. op.kind = "find" /\ ~ IsGroup(n) /\ n.header.id = op.target
  BY DEF Matches
<1>3. /\ answer'.kind = "find" /\ answer'.ok = TRUE /\ answer'.result = <<n>>
      /\ answer'.target = op.target /\ answer'.root = op.root
  BY <1>2 DEF End
<1>4. n \in KnownNodes /\ KnownNodes' = KnownNodes
  BY <1>1, Scanned, SameFile DEF KnownNodes
<1>5. Inside(n, op.root)
  BY RunInside DEF Inside
<1>6. \E m \in Nodes : ~ IsGroup(m) /\ m.header.id = op.target /\ Inside(m, op.root)
  <2> DEFINE m == Node(n.offset, 0, file[n.offset])
  <2>1. n.offset \in DOMAIN file /\ n.header = file[n.offset] /\ n.offset \in Nat
    BY <1>4, KnownNodeFacts
  <2>2. /\ m.offset = n.offset /\ m.header = n.header
    BY <2>1, NodeAtFacts
  <2>3. ~ IsGroup(m) /\ m.header.id = op.target /\ Inside(m, op.root)
    BY <1>2, <1>5, <2>2 DEF Inside, IsGroup, DataOffset, EndOffset, DataSize
  <2>4. n.offset # 0
    <3>1. /\ First(file) <= scan.start /\ scan.start <= n.offset /\ First(file) \in Nat /\ scan.start \in Nat
          /\ FileOK(file, length)
      BY Scanned, Walking
    <3>2. 0 < First(file)
      <4>1. 0 \in DOMAIN file /\ ~ GroupIn(file, 0)
        BY <3>1 DEF FileOK, GroupIn
      <4>2. QED
        BY <3>1, <4>1, OffsetFacts DEF First
    <3>3. QED
      BY <2>1, <3>1, <3>2
  <2>5. m \in Nodes
    BY <2>1, <2>4 DEF Nodes, NodeAt
  <2>6. QED
    BY <2>3, <2>5
<1>7. Nodes' = Nodes
  BY <1>1 DEF Nodes, NodeAt
<1>8. FindIsRight'
  <2>1. Head(<<n>>) = n /\ <<n>> # <<>>
    OBVIOUS
  <2>2. QED
    BY <1>1, <1>2, <1>3, <1>5, <1>6, <1>7, <2>1 DEF FindIsRight
<1>9. IndexInv' /\ PathIsRight' /\ StatisticsAreRight'
  BY <1>1, <1>3 DEF WalkInv, IndexInv, PathIsRight, StatisticsAreRight
<1>10. Last(<<n>>) = n /\ \A i \in DOMAIN <<n>> : <<n>>[i] \in KnownNodes'
  BY <1>4 DEF Last
<1>11. QED
  BY <1>1, <1>2, <1>8, <1>9, <1>10, EndWalk

\* The visitor is called with a node, and stops the walk or goes on.
LEMMA VisitWalk ==
  ASSUME IInv, WalkInv, Visit, phase' = phase
  PROVE  WalkInv'
<1> DEFINE n == Head(scan.nodes)
<1>1. scan # NoScan /\ scan.nodes # <<>> /\ UNCHANGED <<index, bytes>> /\ op.kind \in Walks
  BY DEF Visit, Parsed
<1>2. CASE Matches(n)
  <2>1. End(TRUE, <<n>>)
    BY <1>2 DEF Visit
  <2>2. n \in ToSet(scan.nodes)
    <3>1. n = scan.nodes[1] /\ 1 \in DOMAIN scan.nodes
      BY <1>1, Scanned, TailFacts
    <3>2. QED
      BY <3>1 DEF ToSet
  <2> HIDE DEF n
  <2>3. QED
    BY <1>1, <1>2, <2>1, <2>2, MatchWalk
<1>3. CASE ~ Matches(n)
  <2>1. /\ length' = length /\ file' = file /\ answer' = answer /\ index' = index
        /\ op'.kind = op.kind
    BY <1>3, VisitedRun
  <2>2. TraceInv' /\ OrderInv' /\ IndexWalkInv' /\ CountInv' /\ DepthInv'
    BY <1>3, VisitedTrace, VisitedOrder, VisitedIndex, VisitedCount, VisitedDepth
  <2>3. DescentInv'
    BY <1>1, <2>1 DEF DescentInv, Walks
  <2>4. IndexInv' /\ PathIsRight' /\ FindIsRight' /\ StatisticsAreRight'
    BY <2>1, SameAnswer DEF WalkInv
  <2>5. QED
    BY <2>2, <2>3, <2>4 DEF WalkInv
<1>4. QED
  BY <1>2, <1>3

-----------------------------------------------------------------------------
(* The end of a walk                                                       *)

\* The groups around a node are its ancestors.
LEMMA AncestorsAre ==
  ASSUME FileOK(file, length), NEW n \in Nodes
  PROVE  /\ Nodes = NodesOf(file)
         /\ Cardinality(Ancestors(n)) = DepthOf(file, n)
<1>1. Nodes = NodesOf(file)
  BY DEF Nodes, NodeAt, NodesOf, Known
<1>2. \A g \in Nodes : g # None /\ g.offset \in Nat /\ g.offset < DataOffset(g) /\ DataOffset(g) \in Nat
  <2>1. ASSUME NEW g \in NodesOf(file)
        PROVE  g \in NodeSet
    <3>1. g.offset \in Known(file) /\ g = Node(g.offset, 0, file[g.offset])
      BY NodesOfFacts
    <3>2. g.offset \in Nat /\ file[g.offset] \in Headers
      BY <3>1 DEF FileOK, Known
    <3>3. QED
      BY <3>1, <3>2, NewNode
  <2>2. QED
    BY <1>1, <2>1, NodeFacts
<1>3. Ancestors(n) = Around(file, n.offset, EndOffset(n))
  BY <1>1, <1>2 DEF Ancestors, Around, Inside
<1>4. QED
  BY <1>1, <1>3 DEF DepthOf

\* The entries of the records, one for each id and in order, are an index.
LEMMA IndexBuilt ==
  ASSUME NEW f, NEW L, FileOK(f, L), NEW seen,
         ToSet(seen) = {Entry(f, o) : o \in Records(f, Known(f))},
         NEW ix \in Sorted(Entries(seen))
  PROVE  IsIndex(f, ix)
<1> DEFINE R == Records(f, Known(f))
           S == ToSet(seen)
           E == Entries(seen)
<1>1. \A o \in R : /\ o \in Nat /\ o \in Known(f) /\ f[o].id \in Nat /\ o \in 0..L
                   /\ Entry(f, o).id = f[o].id /\ Entry(f, o).offset = o
  <2>1. ASSUME NEW o \in R
        PROVE  o \in Nat /\ o \in Known(f) /\ f[o].id \in Nat /\ o \in 0..L
    <3>1. o \in DOMAIN f /\ o \in Known(f) /\ ~ GroupIn(f, o)
      BY DEF Records, Known
    <3>2. o \in Nat /\ f[o] \in Headers /\ o <= L /\ L \in Nat
      <4>1. o \in Nat /\ o < DataIn(o) /\ DataIn(o) <= L /\ L \in Nat /\ DataIn(o) \in Nat
        BY <3>1, OffsetFacts
      <4>2. f[o] \in Headers
        BY <3>1 DEF FileOK
      <4>3. QED
        BY <4>1, <4>2
    <3>3. f[o] \in RecordHeaders
      BY <3>1, <3>2, HeaderFacts DEF GroupIn
    <3>4. QED
      BY <3>1, <3>2, <3>3, PluginNodesAssumption
  <2>2. QED
    BY <2>1 DEF Entry
<1>2. \A e \in S : e.offset \in R /\ e = Entry(f, e.offset) /\ e.id = f[e.offset].id
  BY <1>1
<1>3. \A o \in R : Entry(f, o) \in S
  OBVIOUS
<1>4. E = {e \in S : \A g \in S : g.id = e.id => g = e \/ Before(e, g)}
  BY DEF Entries
<1>5. IsFiniteSet(E)
  <2> DEFINE at == [e \in E |-> e.offset]
  <2>1. at \in [E -> 0..L]
    BY <1>1, <1>2, <1>4
  <2>2. \A d, e \in E : at[d] = at[e] => d = e
    <3>1. ASSUME NEW d \in E, NEW e \in E, at[d] = at[e]
          PROVE  d = e
      <4>1. d = Entry(f, d.offset) /\ e = Entry(f, e.offset)
        BY <1>2, <1>4
      <4>2. d.offset = e.offset
        BY <3>1
      <4>3. QED
        BY <4>1, <4>2
    <3>2. QED
      BY <3>1
  <2> HIDE DEF at
  <2>3. at \in Injection(E, 0..L)
    BY <2>1, <2>2 DEF Injection, IsInjective
  <2>4. L \in Nat
    BY DEF FileOK
  <2>5. IsFiniteSet(0..L)
    BY <2>4, FS_Interval
  <2>6. QED
    BY <2>3, <2>5, FS_Injection
<1>6. Cardinality(E) \in Nat
  BY <1>5, FS_CardinalityType
<1>7. /\ ix \in [1..Cardinality(E) -> E]
      /\ Range(ix) = E
      /\ \A i, j \in DOMAIN ix : i < j => Before(ix[i], ix[j])
  BY DEF Sorted
<1> HIDE DEF R, S, E
<1>8. DOMAIN ix = 1..Len(ix) /\ Len(ix) \in Nat
  BY <1>6, <1>7
<1>9. \A i \in DOMAIN ix : ix[i] \in S /\ \A g \in S : g.id = ix[i].id => g = ix[i] \/ Before(ix[i], g)
  BY <1>4, <1>7
<1>10. \A i \in DOMAIN ix :
         /\ ix[i].offset \in R /\ f[ix[i].offset].id = ix[i].id
         /\ \A o \in R : f[o].id = ix[i].id => ix[i].offset <= o
  <2>1. ASSUME NEW i \in DOMAIN ix
        PROVE  ix[i].offset \in R /\ f[ix[i].offset].id = ix[i].id
    BY <1>2, <1>9
  <2>2. ASSUME NEW i \in DOMAIN ix, NEW o \in R, f[o].id = ix[i].id
        PROVE  ix[i].offset <= o
    <3>1. Entry(f, o) = ix[i] \/ Before(ix[i], Entry(f, o))
      BY <1>1, <1>3, <1>9, <2>2
    <3>2. ix[i].offset \in Nat /\ o \in Nat /\ ix[i].id \in Nat /\ Entry(f, o).offset = o
          /\ Entry(f, o).id = ix[i].id
      BY <1>1, <2>1, <2>2
    <3>3. QED
      BY <3>1, <3>2 DEF Before
  <2>3. QED
    BY <2>1, <2>2
<1>11. ASSUME NEW o \in R
       PROVE  \E i \in DOMAIN ix : ix[i].id = f[o].id
  <2> DEFINE I == {p \in R : f[p].id = f[o].id}
  <2>1. I \in SUBSET Nat /\ I # {}
    BY <1>1
  <2>2. PICK m \in I : \A p \in I : m <= p
    BY <2>1, MinFacts
  <2>3. m \in R /\ f[m].id = f[o].id /\ \A p \in R : f[p].id = f[o].id => m <= p
    BY <2>2
  <2> DEFINE e == Entry(f, m)
  <2>4. e \in S /\ e.id = f[o].id /\ e.offset = m
    BY <1>1, <1>3, <2>3
  <2>5. ASSUME NEW g \in S, g.id = e.id
        PROVE  g = e \/ Before(e, g)
    <3>1. g.offset \in R /\ g = Entry(f, g.offset) /\ f[g.offset].id = f[o].id
      BY <1>2, <2>4, <2>5
    <3>2. m <= g.offset /\ m \in Nat /\ g.offset \in Nat
      BY <1>1, <2>3, <3>1
    <3>3. CASE m = g.offset
      BY <3>1, <3>3
    <3>4. CASE m < g.offset
      BY <2>4, <2>5, <3>4 DEF Before
    <3>5. QED
      BY <3>2, <3>3, <3>4
  <2> HIDE DEF e
  <2>6. e \in E
    BY <1>4, <2>4, <2>5
  <2>7. PICK i \in DOMAIN ix : ix[i] = e
    BY <1>7, <2>6 DEF Range
  <2>8. QED
    BY <2>4, <2>7
<1>12. ASSUME NEW i \in 2..Len(ix)
       PROVE  ix[i - 1].id < ix[i].id
  <2>1. i \in DOMAIN ix /\ i - 1 \in DOMAIN ix /\ i - 1 < i
    BY <1>8
  <2>2. Before(ix[i - 1], ix[i])
    BY <1>7, <2>1
  <2>3. ix[i - 1] = ix[i] \/ Before(ix[i], ix[i - 1]) \/ ix[i - 1].id # ix[i].id
    BY <1>9, <2>1
  <2>4. ix[i].id \in Nat /\ ix[i - 1].id \in Nat /\ ix[i].offset \in Nat /\ ix[i - 1].offset \in Nat
    BY <1>1, <1>10, <2>1
  <2>5. QED
    BY <2>2, <2>3, <2>4 DEF Before
<1>13. QED
  BY <1>10, <1>11, <1>12 DEF IsIndex, R

\* Nothing is left to be scanned: the index is built, or the answer is given.
LEMMA WalkDoneWalk ==
  ASSUME IInv, WalkInv, WalkDone, phase' = phase
  PROVE  WalkInv'
<1>1. /\ op.kind \in Walks /\ scan = NoScan /\ pending = <<>>
      /\ length' = length /\ file' = file
  BY DEF WalkDone, bytes
<1>2. /\ op # Idle /\ op.kind # "path"
  BY <1>1 DEF Walks, Idle
<1>3. /\ phase = "open" /\ FileOK(file, length) /\ length \in Nat /\ TraceInv
      /\ \A o \in Known(file) : First(file) <= o /\ Reached(file, o)
  BY <1>2, Walking
<1>4. Regions = {} /\ Unvisited = {} /\ Ahead = {}
  <2>1. DOMAIN pending = {}
    BY <1>1
  <2>2. Later = {}
    BY <1>1, <2>1 DEF Later
  <2>3. QED
    BY <1>1, <2>2 DEF Regions, Unvisited, Ahead
<1>5. Done = Under(file, op.root)
  BY <1>4 DEF Done
<1>6. Nodes' = Nodes /\ Nodes = NodesOf(file)
  BY <1>1 DEF Nodes, NodeAt, NodesOf, Known
<1>7. CASE op.kind = "index" /\ index' \in Sorted(Entries(op.seen)) /\ End(TRUE, <<>>)
  <2>1. PICK V \in SUBSET Known(file) :
          /\ Walked(file, length, V, {})
          /\ ToSet(op.seen) = {Entry(file, o) : o \in Records(file, V \ {})}
    BY <1>4, <1>7 DEF WalkInv, IndexWalkInv
  <2>2. V = Known(file)
    BY <1>3, <2>1, WalkedIsAll
  <2>3. Closed(file, length) /\ ToSet(op.seen) = {Entry(file, o) : o \in Records(file, Known(file))}
    BY <2>1, <2>2 DEF Closed
  <2>4. IsIndex(file, index')
    BY <1>3, <1>7, <2>3, IndexBuilt
  <2>5. IndexInv'
    BY <1>1, <2>3, <2>4 DEF IndexInv
  <2>6. answer'.kind = "index"
    BY <1>7 DEF End
  <2>7. PathIsRight' /\ FindIsRight' /\ StatisticsAreRight'
    BY <2>6 DEF PathIsRight, FindIsRight, StatisticsAreRight
  <2>8. QED
    BY <1>1, <1>3, <1>7, <2>5, <2>7, EndWalk
<1>8. CASE op.kind = "find" /\ End(TRUE, <<>>) /\ index' = index
  <2>1. /\ answer'.kind = "find" /\ answer'.ok = TRUE /\ answer'.result = <<>>
        /\ answer'.root = op.root /\ answer'.target = op.target
    BY <1>8 DEF End
  <2>2. ASSUME index # None, NEW n \in Nodes, ~ IsGroup(n), n.header.id = op.target, Inside(n, op.root)
        PROVE  FALSE
    <3>1. n \in NodesOf(file)
      BY <1>6
    <3>2. op.root # None => n.offset # op.root.offset
      <4>1. SUFFICES ASSUME op.root # None, n.offset = op.root.offset
                     PROVE  FALSE
        OBVIOUS
      <4>2. op.root \in KnownNodes /\ IsGroup(op.root)
        BY <1>2, <1>3, <4>1 DEF TraceInv
      <4>3. GroupIn(file, n.offset)
        BY <4>1, <4>2, KnownNodeFacts
      <4>4. QED
        BY <2>2, <3>1, <4>3, NodesOfFacts
    <3>3. n \in Done
      BY <1>5, <2>2, <3>1, <3>2 DEF Under
    <3>4. QED
      BY <1>8, <2>2, <3>3 DEF WalkInv, CountInv
  <2>3. FindIsRight'
    BY <1>6, <1>8, <2>1, <2>2 DEF FindIsRight
  <2>4. IndexInv' /\ PathIsRight' /\ StatisticsAreRight'
    BY <1>1, <1>8, <2>1 DEF WalkInv, IndexInv, PathIsRight, StatisticsAreRight
  <2>5. DOMAIN <<>> = {}
    OBVIOUS
  <2>6. QED
    BY <1>1, <1>3, <1>8, <2>3, <2>4, <2>5, EndWalk
<1>9. CASE op.kind = "statistics" /\ End(TRUE, op.seen) /\ index' = index
  <2>1. /\ answer'.kind = "statistics" /\ answer'.ok = TRUE /\ answer'.result = op.seen
        /\ answer'.root = op.root
    BY <1>9 DEF End
  <2>2. StatisticsAreRight'
    <3>1. SUFFICES ASSUME index # None PROVE StatisticsAreRight'
      BY <1>9 DEF StatisticsAreRight
    <3> DEFINE all == {n \in Nodes : Inside(n, op.root) /\ (op.root # None => n.offset # op.root.offset)}
               groups == {n \in all : IsGroup(n)}
               s == op.seen
    <3>2. all = Under(file, op.root) /\ all \subseteq Nodes
      BY <1>6 DEF Under
    <3>3. Counts(file, s, all)
      BY <1>5, <1>9, <3>1, <3>2 DEF WalkInv, CountInv
    <3>4. \A n \in all : Cardinality(Ancestors(n)) = DepthOf(file, n)
      BY <1>3, <3>2, AncestorsAre
    <3>5. all \ groups = {n \in all : ~ IsGroup(n)}
      OBVIOUS
    <3> HIDE DEF all
    <3>6. /\ s.groups = Cardinality(groups)
          /\ s.records = Cardinality(all \ groups)
          /\ s.compressed = Cardinality({n \in all : n.header.kind = "compressed"})
          /\ \A n \in all : Cardinality(Ancestors(n)) <= s.maxDepth
          /\ all # {} => \E n \in all : Cardinality(Ancestors(n)) = s.maxDepth
      BY <3>3, <3>4, <3>5 DEF Counts
    <3>7. \A n : Ancestors(n)' = Ancestors(n)
      BY <1>6 DEF Ancestors
    <3>8. QED
      BY <1>6, <2>1, <3>6, <3>7 DEF StatisticsAreRight, all
  <2>3. IndexInv' /\ PathIsRight' /\ FindIsRight'
    BY <1>1, <1>9, <2>1 DEF WalkInv, IndexInv, PathIsRight, FindIsRight
  <2>4. QED
    BY <1>1, <1>3, <1>9, <2>2, <2>3, EndWalk
<1>10. QED
  BY <1>7, <1>8, <1>9 DEF WalkDone

\* Every step of an operation.
LEMMA NavigateWalk ==
  ASSUME IInv, WalkInv, Navigate, phase' = phase
  PROVE  WalkInv'
BY BeginSiblingsWalk, ReadWindowWalk, HeaderCutOffWalk, ParseWalk, ListedWalk, DescendWalk,
   VisitWalk, RunVisitedWalk, WalkDoneWalk DEF Navigate

-----------------------------------------------------------------------------
(* Starting an operation                                                   *)

\* What a request may start from.
Roots == {None} \cup {n \in Given : IsGroup(n)}

\* What the root of an operation contains.
LEMMA RootContents ==
  ASSUME IInv, WalkInv, phase = "open", NEW root \in Roots
  PROVE  /\ FileOK(file, length) /\ length \in Nat /\ First(file) \in Nat
         /\ \A o \in Known(file) : First(file) <= o /\ Reached(file, o)
         /\ root = None \/ (root \in KnownNodes /\ IsGroup(root) /\ root.offset \in Known(file))
         /\ IsContents(file, length, Contents(root).start, Contents(root).end)
         /\ Contents(root).start \in Nat /\ Contents(root).end \in Int
         /\ Contents(root).start <= Contents(root).end
         /\ root # None => Contents(root).start = DataOffset(root) /\ Contents(root).end = EndOffset(root)
         /\ root = None => Contents(root) = [start |-> First(file), end |-> length, depth |-> 0]
         /\ index # None =>
              /\ root # None => root.depth = DepthOf(file, root)
              /\ Contents(root).depth = Cardinality(Around(file, Contents(root).start, Contents(root).end))
<1>1. /\ FileOK(file, length) /\ length \in Nat /\ First(file) \in Nat /\ First(file) <= length
      /\ Contents(None) = [start |-> First(file), end |-> length, depth |-> 0]
  BY OpenedFile DEF IInv
<1>2. \A o \in Known(file) : First(file) <= o /\ Reached(file, o)
  BY DEF WalkInv, TraceInv
<1>3. CASE root = None
  <2>1. IsContents(file, length, First(file), length)
    BY DEF IsContents
  <2>2. Cardinality(Around(file, First(file), length)) = 0
    BY <1>1, <1>2, AroundRoot
  <2>3. QED
    BY <1>1, <1>2, <1>3, <2>1, <2>2
<1>4. CASE root \in Given /\ IsGroup(root)
  <2>1. /\ answer.kind \in {"find", "path"} /\ answer.result # <<>> /\ root = Last(answer.result)
        /\ answer.result \in Seq(FileNodes)
    BY <1>4 DEF Given, IInv, TreeInv
  <2>2. root \in KnownNodes
    BY <2>1 DEF Last, WalkInv, TraceInv
  <2>3. /\ root # None /\ root.offset \in DOMAIN file /\ IsGroup(root) = GroupIn(file, root.offset)
        /\ DataOffset(root) = DataIn(root.offset) /\ EndOffset(root) = EndIn(file, root.offset)
        /\ DataOffset(root) \in Nat /\ EndOffset(root) \in Int /\ DataOffset(root) <= EndOffset(root)
    BY <2>2, KnownNodeFacts
  <2>4. root.offset \in Known(file)
    BY <1>1, <1>4, <2>3 DEF FileOK, GroupIn, Known
  <2>5. Contents(root) = [start |-> DataOffset(root), end |-> EndOffset(root), depth |-> root.depth + 1]
    BY <2>3 DEF Contents
  <2>6. IsContents(file, length, DataOffset(root), EndOffset(root))
    BY <1>4, <2>3, <2>4 DEF IsContents
  <2>7. ASSUME index # None
        PROVE  /\ root.depth = DepthOf(file, root)
               /\ root.depth + 1 = Cardinality(Around(file, DataOffset(root), EndOffset(root)))
    <3>1. root.depth = DepthOf(file, root)
      BY <1>4, <2>1, <2>7 DEF WalkInv, DepthInv
    <3>2. Closed(file, length)
      BY <2>7 DEF WalkInv, IndexInv
    <3>3. Cardinality(Around(file, DataIn(root.offset), EndIn(file, root.offset)))
            = Cardinality(Around(file, root.offset, EndIn(file, root.offset))) + 1
      BY <1>1, <1>4, <2>3, <2>4, <3>2, AroundContents
    <3>4. QED
      BY <2>3, <3>1, <3>3 DEF DepthOf
  <2>8. QED
    BY <1>1, <1>2, <1>4, <2>2, <2>3, <2>4, <2>5, <2>6, <2>7
<1>5. QED
  BY <1>3, <1>4 DEF Roots

\* The region of the root alone covers a file of which nothing was visited.
LEMMA NothingWalked ==
  ASSUME NEW f, NEW L \in Nat, First(f) \in Nat, First(f) <= L
  PROVE  Walked(f, L, {}, {Region(First(f), L)})
<1>1. Region(First(f), L).start = First(f) /\ Region(First(f), L).end = L
  BY DEF Region
<1>2. QED
  BY <1>1 DEF Walked, GoesOn

\* An operation begins with everything left to be scanned.
LEMMA BeginWalk ==
  ASSUME IInv, WalkInv, phase = "open", phase' = phase, NEW root \in Roots,
         NEW kind \in Walks \cup {"children", "path"}, NEW target, NEW seen, Begin(kind, root, target, seen),
         kind = "path" => root = None /\ seen = <<>> /\ target \in Nat /\ First(file) <= target /\ target < length,
         kind = "index" => root = None /\ seen = <<>>,
         kind = "statistics" => seen = Statistics
  PROVE  WalkInv'
<1> DEFINE c == Contents(root)
<1>1. /\ op = Idle /\ pending' = <<c>> /\ answer' = NoAnswer
      /\ op'.kind = kind /\ op'.root = root /\ op'.target = target /\ op'.seen = seen
      /\ scan' = scan /\ index' = index /\ length' = length /\ file' = file
  BY DEF Begin, bytes
<1>2. scan = NoScan
  BY <1>1 DEF IInv, TreeInv
<1>3. /\ FileOK(file, length) /\ length \in Nat /\ First(file) \in Nat
      /\ \A o \in Known(file) : First(file) <= o /\ Reached(file, o)
      /\ root = None \/ (root \in KnownNodes /\ IsGroup(root) /\ root.offset \in Known(file))
      /\ IsContents(file, length, c.start, c.end) /\ c.start \in Nat /\ c.end \in Int /\ c.start <= c.end
      /\ root # None => c.start = DataOffset(root) /\ c.end = EndOffset(root)
      /\ root = None => c = [start |-> First(file), end |-> length, depth |-> 0]
      /\ index # None =>
           /\ root # None => root.depth = DepthOf(file, root)
           /\ c.depth = Cardinality(Around(file, c.start, c.end))
  BY RootContents
<1>4. DOMAIN pending' = {1} /\ pending'[1] = c
  BY <1>1
<1>5. answer'.kind = "none" /\ KnownNodes' = KnownNodes
  BY <1>1, SameFile DEF NoAnswer, KnownNodes
<1> HIDE DEF c
<1>6. TraceInv'
  <2>1. kind = "path" => DOMAIN seen = {}
    OBVIOUS
  <2>2. QED
    BY <1>1, <1>2, <1>3, <1>4, <1>5, <2>1 DEF TraceInv
<1>7. OrderInv'
  <2>1. root # None => DataOffset(root) <= c.start /\ c.end <= EndOffset(root)
    BY <1>3
  <2>2. QED
    BY <1>1, <1>2, <1>3, <1>4, <2>1 DEF OrderInv
<1>8. Regions' = {Region(c.start, c.end)} /\ Unvisited' = {}
  <2>1. Later' = {Region(c.start, c.end)}
    BY <1>1, <1>2, <1>4 DEF Later
  <2>2. QED
    BY <1>1, <1>2, <2>1 DEF Regions, Unvisited
<1>9. IndexWalkInv'
  <2>1. SUFFICES ASSUME kind = "index" PROVE IndexWalkInv'
    BY <1>1 DEF IndexWalkInv
  <2>2. c.start = First(file) /\ c.end = length
    BY <1>3, <2>1
  <2>3. Walked(file, length, {}, Regions')
    BY <1>3, <1>8, <2>2, NothingWalked
  <2>4. ToSet(seen) = {} /\ Records(file, {} \ Unvisited') = {}
    BY <2>1 DEF ToSet, Records
  <2>5. {Entry(file, o) : o \in Records(file, {} \ Unvisited')} = {}
    BY <2>4
  <2>6. {} \in SUBSET Known(file) /\ Unvisited' \subseteq {}
    BY <1>8
  <2>7. QED
    BY <1>1, <2>3, <2>4, <2>5, <2>6 DEF IndexWalkInv
<1>10. DescentInv'
  <2>1. SUFFICES ASSUME kind = "path" PROVE DescentInv'
    BY <1>1 DEF DescentInv
  <2>2. c.start = First(file) /\ c.end = length /\ c.depth = 0
    BY <1>3, <2>1
  <2>3. LeadsOn(target, <<>>, c) /\ Chain(<<>>)
    BY <2>1, <2>2 DEF LeadsOn, Chain
  <2>4. QED
    BY <1>1, <1>2, <1>4, <2>1, <2>3 DEF DescentInv
<1>11. ASSUME index # None
       PROVE  Done' = {}
  <2>1. \A o \in Known(file) : /\ o \in Nat /\ EndIn(file, o) \in Int /\ o < EndIn(file, o)
                               /\ EndIn(file, o) <= length
    BY <1>3, <1>11, OffsetFacts DEF WalkInv, IndexInv, Known, Closed, Walked
  <2>2. ASSUME NEW n \in Under(file, root)
        PROVE  n.offset \in Known(file) /\ c.start <= n.offset /\ n.offset < c.end
    <3>1. n \in NodesOf(file) /\ Inside(n, root)
      BY DEF Under
    <3>2. n.offset \in Known(file) /\ EndOffset(n) = EndIn(file, n.offset)
      BY <3>1, NodesOfFacts
    <3>3. CASE root = None
      BY <1>3, <2>1, <3>2, <3>3
    <3>4. CASE root # None
      BY <1>3, <2>1, <3>1, <3>2, <3>4 DEF Inside
    <3>5. QED
      BY <3>3, <3>4
  <2>3. Ahead' = {o \in Known(file) : c.start <= o /\ o < c.end}
    BY <1>1, <1>8 DEF Ahead, Region
  <2>4. Done' = {n \in Under(file, root) : n.offset \notin Ahead'}
    BY <1>1 DEF Done
  <2>5. QED
    BY <2>2, <2>3, <2>4
<1>12. CountInv'
  <2>1. SUFFICES ASSUME index # None PROVE CountInv'
    BY <1>1 DEF CountInv
  <2>2. Done' = {}
    BY <1>11, <2>1
  <2>3. Counts(file, Statistics, {})
    <3>1. /\ {n \in {} : IsGroup(n)} = {} /\ {n \in {} : ~ IsGroup(n)} = {}
          /\ {n \in {} : n.header.kind = "compressed"} = {}
      OBVIOUS
    <3>2. QED
      BY <3>1, FS_EmptySet DEF Counts, Statistics
  <2>4. QED
    BY <1>1, <2>2, <2>3 DEF CountInv
<1>13. DepthInv'
  BY <1>1, <1>2, <1>3, <1>4, <1>5 DEF DepthInv
<1>14. IndexInv' /\ PathIsRight' /\ FindIsRight' /\ StatisticsAreRight'
  BY <1>1, <1>5 DEF WalkInv, IndexInv, PathIsRight, FindIsRight, StatisticsAreRight
<1>15. QED
  BY <1>6, <1>7, <1>9, <1>10, <1>12, <1>13, <1>14 DEF WalkInv

\* Offset 0 is the TES4 record; no node begins at an offset that is refused.
LEMMA AtOnceWalk ==
  ASSUME IInv, WalkInv, phase = "open", phase' = phase, NEW o \in 0..length,
         o = 0 \/ o < Contents(None).start \/ o >= length, op = Idle,
         answer' = [kind |-> "path", root |-> None, target |-> o, ok |-> o = 0,
                    result |-> IF o = 0 THEN <<HeaderRecord>> ELSE <<>>],
         UNCHANGED <<op, pending, scan, index, bytes>>
  PROVE  WalkInv'
<1> DEFINE result == IF o = 0 THEN <<HeaderRecord>> ELSE <<>>
<1>1. /\ op' = Idle /\ op.kind = "none" /\ pending = <<>> /\ scan = NoScan
      /\ pending' = pending /\ scan' = scan /\ index' = index /\ length' = length /\ file' = file
  BY DEF IInv, TreeInv, bytes, Idle
<1>2. /\ answer'.kind = "path" /\ answer'.target = o /\ answer'.ok = (o = 0)
      /\ answer'.result = result
  OBVIOUS
<1>3. /\ FileOK(file, length) /\ length \in Nat /\ First(file) \in Nat
      /\ Contents(None).start = First(file)
  BY OpenedFile DEF IInv
<1>4. \A p \in Known(file) : First(file) <= p /\ Reached(file, p)
  BY DEF WalkInv, TraceInv
<1>5. 0 \in DOMAIN file /\ HeaderRecord \in FileNodes /\ ~ IsGroup(HeaderRecord)
  BY DEF IInv, OpenInv
<1>6. /\ HeaderRecord.offset = 0 /\ HeaderRecord.header = file[0] /\ HeaderRecord.depth = 0
  BY DEF HeaderRecord, Node
<1>7. HeaderRecord \in KnownNodes' /\ KnownNodes' = KnownNodes
  BY <1>1, <1>5, <1>6, SameFile DEF KnownNodes
<1>8. /\ o = 0 => DOMAIN result = {1} /\ result[1] = HeaderRecord /\ Len(result) = 1 /\ Last(result) = HeaderRecord
      /\ o # 0 => DOMAIN result = {} /\ result = <<>> /\ Len(result) = 0
  BY DEF Last
<1>9. o \in DOMAIN file => o = 0
  <2>1. ASSUME o \in Known(file)
        PROVE  FALSE
    <3>1. First(file) <= o /\ o \in Nat /\ o \in DOMAIN file /\ o # 0
      BY <1>4, <2>1 DEF Known
    <3>2. o < DataIn(o) /\ DataIn(o) <= length /\ DataIn(o) \in Nat
      BY <1>3, <3>1, OffsetFacts
    <3>3. QED
      BY <1>3, <3>1, <3>2
  <2>2. QED
    BY <2>1 DEF Known
<1> HIDE DEF result
<1>10. TraceInv'
  <2>1. \A i \in DOMAIN answer'.result : answer'.result[i] \in KnownNodes'
    BY <1>2, <1>7, <1>8
  <2>2. QED
    BY <1>1, <1>4, <2>1 DEF TraceInv
<1>11. OrderInv' /\ IndexWalkInv' /\ DescentInv' /\ CountInv'
  BY <1>1 DEF OrderInv, IndexWalkInv, DescentInv, CountInv
<1>12. DepthInv'
  <2>1. answer'.result # <<>> => ~ IsGroup(Last(answer'.result))
    BY <1>2, <1>5, <1>8
  <2>2. QED
    BY <1>1, <2>1 DEF DepthInv
<1>13. PathIsRight'
  <2>1. answer'.ok => Last(answer'.result).offset = answer'.target
    BY <1>2, <1>6, <1>8
  <2>2. 2..Len(answer'.result) = {}
    BY <1>2, <1>8
  <2>3. \A i \in DOMAIN answer'.result : answer'.result[i].depth = i - 1
    BY <1>2, <1>6, <1>8
  <2>4. answer'.ok <=> answer'.target \in DOMAIN file'
    BY <1>1, <1>2, <1>5, <1>9
  <2>5. QED
    BY <2>1, <2>2, <2>3, <2>4 DEF PathIsRight
<1>14. IndexInv' /\ FindIsRight' /\ StatisticsAreRight'
  BY <1>1, <1>2 DEF WalkInv, IndexInv, FindIsRight, StatisticsAreRight
<1>15. QED
  BY <1>10, <1>11, <1>12, <1>13, <1>14 DEF WalkInv

\* Every request of a caller.
LEMMA RequestWalk ==
  ASSUME IInv, WalkInv, Request
  PROVE  WalkInv'
<1>1. phase = "open" /\ phase' = phase
  BY DEF Request
<1>2. ASSUME NEW root \in Roots, GetChildren(root) \/ ComputeStatistics(root) \/ \E id \in FormIds : FindRecord(id, root)
      PROVE  WalkInv'
  <2>1. CASE GetChildren(root)
    BY <1>1, <2>1, BeginWalk DEF GetChildren
  <2>2. CASE ComputeStatistics(root)
    BY <1>1, <2>2, BeginWalk DEF ComputeStatistics, Walks
  <2>3. ASSUME NEW id \in FormIds, FindRecord(id, root)
        PROVE  WalkInv'
    BY <1>1, <2>3, BeginWalk DEF FindRecord, Walks
  <2>4. QED
    BY <1>2, <2>1, <2>2, <2>3
<1>3. ASSUME BuildIndex
      PROVE  WalkInv'
  <2>1. None \in Roots /\ "index" \in Walks
    BY DEF Roots, Walks
  <2>2. QED
    BY <1>1, <1>3, <2>1, BeginWalk DEF BuildIndex
<1>4. ASSUME NEW o \in 0..length, GetPath(o)
      PROVE  WalkInv'
  <2>1. None \in Roots /\ length \in Nat /\ Contents(None).start = First(file)
    BY <1>1, OpenedFile DEF Roots, IInv
  <2>2. CASE o >= Contents(None).start /\ o < length /\ Begin("path", None, o, <<>>)
    <3>1. o \in Nat /\ First(file) <= o
      BY <1>1, <2>1, <2>2, OpenedFile DEF IInv
    <3>2. QED
      BY <1>1, <2>1, <2>2, <3>1, BeginWalk
  <2>3. CASE /\ o = 0 \/ o < Contents(None).start \/ o >= length
             /\ op = Idle
             /\ answer' = [kind |-> "path", root |-> None, target |-> o, ok |-> o = 0,
                           result |-> IF o = 0 THEN <<HeaderRecord>> ELSE <<>>]
             /\ UNCHANGED <<op, pending, scan, index, bytes>>
    BY <1>1, <2>3, AtOnceWalk
  <2>4. QED
    BY <1>4, <2>2, <2>3 DEF GetPath
<1>5. QED
  BY <1>2, <1>3, <1>4 DEF Request, Roots

\* Every step.
LEMMA NextWalk ==
  ASSUME IInv, WalkInv, [Next]_vars
  PROVE  WalkInv'
<1>1. ASSUME NEW header \in Headers, NEW isTes4 \in BOOLEAN, NEW declared \in DataSizes,
             NEW inflated \in DataSizes \cup {None}, Open(header, isTes4, declared, inflated)
      PROVE  WalkInv'
  BY <1>1, OpenWalk
<1>2. CASE Opened
  BY <1>2, QuietWalk DEF Opened
<1>3. CASE Request
  BY <1>3, RequestWalk
<1>4. CASE Navigate /\ UNCHANGED <<reading, phase>>
  BY <1>4, NavigateWalk
<1>5. ASSUME NEW n \in Given, NEW declared \in DataSizes, NEW inflated \in DataSizes \cup {None},
             ReadRecordData(n, declared, inflated)
      PROVE  WalkInv'
  BY <1>5, QuietWalk DEF ReadRecordData
<1>6. CASE Parse
  <2>1. phase # "open" \/ phase' = phase
    BY <1>6 DEF Parse
  <2>2. QED
    BY <1>6, <2>1, QuietWalk DEF Parse
<1>7. CASE RecordRead
  BY <1>7, QuietWalk DEF RecordRead
<1>8. CASE Dropped \/ UNCHANGED vars
  BY <1>8, QuietWalk DEF Dropped, vars
<1>9. QED
  BY <1>1, <1>2, <1>3, <1>4, <1>5, <1>6, <1>7, <1>8 DEF Next

\* Wherever a walk or a descent stands, what it visited and what it left on its
\* stack together are what it was started on.
THEOREM WalkInvariant == Spec => []WalkInv
<1>1. Init => WalkInv
  BY InitWalk
<1>2. IInv /\ WalkInv /\ [Next]_vars => WalkInv'
  BY NextWalk
<1>3. QED
  BY <1>1, <1>2, FileInvariant, PTL DEF Spec

\* A file that was walked through, with an index of its records, is covered by it.
LEMMA IndexCovers ==
  ASSUME IInv, WalkInv
  PROVE  IndexCoversFile
<1>1. SUFFICES ASSUME index # None PROVE IndexCoversFile
  BY DEF IndexCoversFile
<1>2. Closed(file, length) /\ IsIndex(file, index)
  BY <1>1 DEF WalkInv, IndexInv
<1>3. phase = "open"
  BY <1>1 DEF WalkInv, TraceInv
<1>4. /\ FileOK(file, length) /\ length \in Nat /\ First(file) \in Nat
      /\ Contents(None).start = First(file)
  BY <1>3, OpenedFile DEF IInv
<1>5. /\ Nodes = NodesOf(file)
      /\ \A n \in Nodes : /\ n.offset \in Known(file) /\ n = NodeAt(n.offset)
                          /\ IsGroup(n) = GroupIn(file, n.offset)
                          /\ DataOffset(n) = DataIn(n.offset) /\ EndOffset(n) = EndIn(file, n.offset)
                          /\ n.header = file[n.offset]
  <2>1. Nodes = NodesOf(file)
    BY DEF Nodes, NodeAt, NodesOf, Known
  <2>2. QED
    BY <2>1, NodesOfFacts DEF NodeAt, Node
<1>6. \A o \in Known(file) : NodeAt(o) \in Nodes /\ NodeAt(o).offset = o
  BY DEF Nodes, NodeAt, Known, Node
<1> DEFINE ends == {EndOffset(g) : g \in {n \in Nodes : IsGroup(n)}}
<1>7. \A o \in Known(file) : GroupIn(file, o) => EndIn(file, o) \in ends
  BY <1>5, <1>6
<1>8. ASSUME NEW o \in {First(file)} \cup {EndOffset(n) : n \in Nodes} \cup
                      {DataOffset(g) : g \in {n \in Nodes : IsGroup(n)}}
      PROVE  o \in DOMAIN file \cup {length} \cup ends
  <2>1. CASE o = First(file)
    BY <1>2, <2>1 DEF Closed, Walked, GoesOn, Known
  <2>2. ASSUME NEW n \in Nodes, o = EndOffset(n)
        PROVE  o \in DOMAIN file \cup {length} \cup ends
    <3>1. n.offset \in Known(file) /\ o = EndIn(file, n.offset)
      BY <1>5, <2>2
    <3>2. GoesOn(Known(file), {}, o, {length} \cup
                 {EndIn(file, g) : g \in {g \in Known(file) : GroupIn(file, g) /\ g < n.offset}})
      BY <1>2, <3>1 DEF Closed, Walked
    <3>3. QED
      BY <1>7, <3>2 DEF GoesOn, Known
  <2>3. ASSUME NEW n \in Nodes, IsGroup(n), o = DataOffset(n)
        PROVE  o \in DOMAIN file \cup {length} \cup ends
    <3>1. n.offset \in Known(file) /\ GroupIn(file, n.offset) /\ o = DataIn(n.offset)
      BY <1>5, <2>3
    <3>2. GoesOn(Known(file), {}, o, {EndIn(file, n.offset)})
      BY <1>2, <3>1 DEF Closed, Walked
    <3>3. QED
      BY <1>7, <3>1, <3>2 DEF GoesOn, Known
  <2>4. QED
    BY <1>8, <2>1, <2>2, <2>3
<1>9. ASSUME NEW m \in Nodes, NEW n \in Nodes, m.offset < n.offset
      PROVE  EndOffset(m) <= n.offset \/ m \in Ancestors(n)
  <2>1. m.offset \in Known(file) /\ n.offset \in Known(file)
    BY <1>5
  <2>2. Nests(file, m.offset, n.offset)
    BY <1>2, <1>9, <2>1 DEF Closed, Walked
  <2>3. m # n
    BY <1>4, <1>9, <2>1, OffsetFacts DEF Known
  <2>4. QED
    BY <1>5, <2>2, <2>3 DEF Nests, Ancestors, Inside
<1>10. ASSUME NEW n \in Nodes, ~ IsGroup(n)
       PROVE  LET o == FindOffset(n.header.id) IN
              o # None /\ o <= n.offset /\ file[o].kind # "group" /\ file[o].id = n.header.id
  <2> DEFINE k == CHOOSE i \in DOMAIN index : index[i].id = n.header.id
  <2>1. n.offset \in Records(file, Known(file)) /\ file[n.offset].id = n.header.id
    BY <1>5, <1>10 DEF Records
  <2>2. \E i \in DOMAIN index : index[i].id = n.header.id
    BY <1>2, <2>1 DEF IsIndex
  <2>3. k \in DOMAIN index /\ index[k].id = n.header.id
    BY <2>2
  <2>4. FindOffset(n.header.id) = index[k].offset
    BY <2>2 DEF FindOffset
  <2> HIDE DEF k
  <2>5. /\ index[k].offset \in Records(file, Known(file)) /\ file[index[k].offset].id = n.header.id
        /\ index[k].offset <= n.offset
    BY <1>2, <2>1, <2>3 DEF IsIndex
  <2>6. index[k].offset \in Nat /\ file[index[k].offset].kind # "group"
    BY <1>4, <2>5, OffsetFacts DEF Records, Known, GroupIn
  <2>7. QED
    BY <2>4, <2>5, <2>6, PluginNodesAssumption
<1>11. \A i \in 2..Len(index) : index[i - 1].id < index[i].id
  BY <1>2 DEF IsIndex
<1>12. QED
  BY <1>4, <1>8, <1>9, <1>10, <1>11 DEF IndexCoversFile

\* BuildIndexAsync succeeds only for a file whose nodes it visited all, in whatever
\* windows their headers were read, and FindOffset then finds the first record of
\* every form id in the file.
THEOREM CoversFile == Spec => []IndexCoversFile
<1>1. IInv /\ WalkInv => IndexCoversFile
  BY IndexCovers
<1>2. QED
  BY <1>1, FileInvariant, WalkInvariant, PTL

\* GetPathToOffsetAsync answers with a chain of nodes that ends at the offset, and in
\* a file that could be indexed it finds every node there is: the offsets the index
\* gives can all be revealed.
THEOREM RightPath == Spec => []PathIsRight
<1>1. WalkInv => PathIsRight
  BY DEF WalkInv
<1>2. QED
  BY <1>1, WalkInvariant, PTL

\* FindRecordAsync and ComputeStatisticsAsync pass every node under their root
\* once: a record that is there is found, and the counts are those of the file.
THEOREM RightWalks == Spec => []WalksAreRight
<1>1. WalkInv => WalksAreRight
  BY DEF WalkInv, WalksAreRight
<1>2. QED
  BY <1>1, WalkInvariant, PTL
=============================================================================
