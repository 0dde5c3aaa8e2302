----------------------------- MODULE PluginTree -----------------------------
(***************************************************************************)
(* Navigation in an opened PluginFile: enumerating the children of a       *)
(* group, the walks (WalkAsync) that search a record, count nodes and      *)
(* build the FormIdIndex, and the descent of GetPathToOffsetAsync.  All of *)
(* them read runs of siblings through ParseSiblingsAsync.                  *)
(*                                                                         *)
(* Two operations on one file share nothing but its bytes, so the model    *)
(* runs one at a time.  A read inside the file succeeds; what a failing    *)
(* disk does to the callers is in PluginWorkspace and ExplorerState.       *)
(***************************************************************************)
EXTENDS PluginNodes

CONSTANT ChunkSize   \* ChunkSize, the window of header scans

ASSUME PluginTreeAssumption == ChunkSize \in Nat /\ ChunkSize >= HeaderSize

VARIABLES
  op,        \* the operation under way
  pending,   \* containers to scan, the next one last (the stack of WalkAsync)
  scan,      \* the run of siblings being parsed
  answer,    \* the last result
  index      \* the FormIdIndex, once built: entries in order of their ids

tree == <<op, pending, scan, answer, index>>

Idle == [kind |-> "none"]
NoScan == [end |-> 0]
NoAnswer == [kind |-> "none"]

Walks == {"index", "find", "statistics"}

HeaderRecord == Node(0, 0, file[0])

\* The children of a group, or of the file.
Contents(root) ==
  IF root = None THEN [start |-> EndOffset(HeaderRecord), end |-> length, depth |-> 0]
  ELSE [start |-> DataOffset(root), end |-> EndOffset(root), depth |-> root.depth + 1]

TreeInit ==
  /\ op = Idle /\ pending = <<>> /\ scan = NoScan
  /\ answer = NoAnswer /\ index = None

-----------------------------------------------------------------------------
(* Starting an operation                                                   *)

\* seen: what the operation has collected so far.
Begin(kind, root, target, seen) ==
  /\ op = Idle
  /\ op' = [kind |-> kind, root |-> root, target |-> target, seen |-> seen]
  /\ pending' = <<Contents(root)>>
  /\ answer' = NoAnswer
  /\ UNCHANGED <<scan, index, bytes>>

Statistics == [groups |-> 0, records |-> 0, compressed |-> 0, maxDepth |-> 0]

GetChildren(root) == Begin("children", root, None, <<>>)
FindRecord(id, root) == Begin("find", root, id, <<>>)
ComputeStatistics(root) == Begin("statistics", root, None, Statistics)
BuildIndex == Begin("index", None, None, <<>>)

\* Offset 0 is answered without a scan, an offset outside the file with an error.
GetPath(o) ==
  \/ o >= Contents(None).start /\ o < length /\ Begin("path", None, o, <<>>)
  \/ /\ o = 0 \/ o < Contents(None).start \/ o >= length
     /\ op = Idle
     /\ answer' = [kind |-> "path", root |-> None, target |-> o, ok |-> o = 0,
                   result |-> IF o = 0 THEN <<HeaderRecord>> ELSE <<>>]
     /\ UNCHANGED <<op, pending, scan, index, bytes>>

-----------------------------------------------------------------------------
(* Ending an operation                                                     *)

End(ok, result) ==
  /\ answer' = [kind |-> op.kind, root |-> op.root, target |-> op.target, ok |-> ok, result |-> result]
  /\ op' = Idle
  /\ pending' = <<>>
  /\ scan' = NoScan

\* A ParseError: it abandons the operation.
Refuse == End(FALSE, <<>>) /\ UNCHANGED index

-----------------------------------------------------------------------------
(* ParseSiblingsAsync                                                      *)

BeginSiblings ==
  /\ op # Idle /\ scan = NoScan /\ pending # <<>>
  /\ LET c == Last(pending) IN
     scan' = [start |-> c.start, end |-> c.end, depth |-> c.depth, at |-> c.start,
              from |-> 0, to |-> 0, nodes |-> <<>>]
  /\ pending' = Front(pending)
  /\ UNCHANGED <<op, answer, index, bytes>>

\* The buffer holds the whole header at `at'.
WindowHolds == scan.from <= scan.at /\ scan.at + HeaderSize <= scan.to

Scanning == scan # NoScan /\ scan.at < scan.end

MinOf(a, b) == IF a <= b THEN a ELSE b

ReadWindow ==
  /\ Scanning /\ scan.end - scan.at >= HeaderSize /\ ~WindowHolds
  /\ scan' = [scan EXCEPT !.from = scan.at, !.to = scan.at + MinOf(ChunkSize, scan.end - scan.at)]
  /\ UNCHANGED <<op, pending, answer, index, bytes>>

\* Less than a header remains in the container.
HeaderCutOff ==
  /\ Scanning /\ scan.end - scan.at < HeaderSize
  /\ Refuse
  /\ UNCHANGED bytes

\* Mutant of NodeFits: the size of a group is not compared with its header.
NodeFitsAnySize(n) == EndOffset(n) <= scan.end

\* ParseNodeHeader accepts the node.
NodeFits(n) == DataSize(n) >= 0 /\ EndOffset(n) <= scan.end

ParseHeader(header) ==
  /\ Scanning /\ scan.end - scan.at >= HeaderSize /\ WindowHolds
  /\ Holds(scan.at, header)
  /\ LET n == Node(scan.at, scan.depth, header) IN
     \/ /\ NodeFits(n)
        /\ scan' = [scan EXCEPT !.at = EndOffset(n), !.nodes = Append(@, n)]
        /\ UNCHANGED <<op, pending, answer, index>>
     \/ ~NodeFits(n) /\ Refuse

\* The run is complete.
Parsed == scan # NoScan /\ scan.at >= scan.end

-----------------------------------------------------------------------------
(* What the operations do with a run of siblings                           *)

Listed ==
  /\ Parsed /\ op.kind = "children"
  /\ End(TRUE, scan.nodes)
  /\ UNCHANGED <<index, bytes>>

\* Mutant of Containing: the byte behind a node counts as its own.
ContainingEnd(o) ==
  {i \in DOMAIN scan.nodes : scan.nodes[i].offset <= o /\ o <= EndOffset(scan.nodes[i])}

\* The nodes of the run that hold byte o.
Containing(o) ==
  {i \in DOMAIN scan.nodes : scan.nodes[i].offset <= o /\ o < EndOffset(scan.nodes[i])}

\* From node n the descent goes on with its children, if it can hold o.
Enter(n, o) ==
  \/ /\ n.offset = o
     /\ End(TRUE, Append(op.seen, n)) /\ UNCHANGED index
  \/ /\ n.offset # o
     /\ ~IsGroup(n) \/ o < DataOffset(n) \/ o >= EndOffset(n)
     /\ Refuse
  \/ /\ n.offset # o
     /\ IsGroup(n) /\ o >= DataOffset(n) /\ o < EndOffset(n)
     /\ op' = [op EXCEPT !.seen = Append(@, n)]
     /\ pending' = <<Contents(n)>>
     /\ scan' = NoScan
     /\ UNCHANGED <<answer, index>>

\* One turn of the loop of GetPathToOffsetAsync, with the first node that holds
\* the offset.
Descend ==
  /\ Parsed /\ op.kind = "path"
  /\ \/ Containing(op.target) = {} /\ Refuse
     \/ \E i \in Containing(op.target) :
          /\ \A j \in Containing(op.target) : i <= j
          /\ Enter(scan.nodes[i], op.target)
  /\ UNCHANGED bytes

-----------------------------------------------------------------------------
(* The walks                                                               *)

\* Mutant of Pushed: a group of a single header is taken for an empty one.
PushedIfLarger(n) ==
  IF IsGroup(n) /\ DataSize(n) > HeaderSize THEN <<Contents(n)>> ELSE <<>>

\* A group with contents is walked later.
Pushed(n) == IF IsGroup(n) /\ DataSize(n) > 0 THEN <<Contents(n)>> ELSE <<>>

Matches(n) == op.kind = "find" /\ ~IsGroup(n) /\ n.header.id = op.target

\* The counts of ComputeStatisticsAsync after node n.
Counted(s, n) ==
  LET one(test) == IF test THEN 1 ELSE 0 IN
  [groups |-> s.groups + one(IsGroup(n)),
   records |-> s.records + one(~IsGroup(n)),
   compressed |-> s.compressed + one(n.header.kind = "compressed"),
   maxDepth |-> IF n.depth > s.maxDepth THEN n.depth ELSE s.maxDepth]

\* What the visitor adds to what it has seen.
Visited(seen, n) ==
  CASE op.kind = "statistics" -> Counted(seen, n)
    [] op.kind = "index" /\ ~IsGroup(n) -> Append(seen, [id |-> n.header.id, offset |-> n.offset])
    [] OTHER -> seen

\* The visitor is called with the next node of the run; that of FindRecordAsync
\* stops the walk at the first match.
Visit ==
  /\ Parsed /\ op.kind \in Walks /\ scan.nodes # <<>>
  /\ LET n == Head(scan.nodes) IN
     \/ Matches(n) /\ End(TRUE, <<n>>)
     \/ /\ ~Matches(n)
        /\ op' = [op EXCEPT !.seen = Visited(@, n)]
        /\ pending' = pending \o Pushed(n)
        /\ scan' = [scan EXCEPT !.nodes = Tail(@)]
        /\ UNCHANGED answer
  /\ UNCHANGED <<index, bytes>>

RunVisited ==
  /\ Parsed /\ op.kind \in Walks /\ scan.nodes = <<>>
  /\ scan' = NoScan
  /\ UNCHANGED <<op, pending, answer, index, bytes>>

\* Mutant of Before: of two entries with one id the later one comes first.
BeforeById(e, f) == e.id < f.id \/ (e.id = f.id /\ e.offset > f.offset)

\* The order of FormIdIndex.BuildAsync.
Before(e, f) == e.id < f.id \/ (e.id = f.id /\ e.offset < f.offset)

\* Of the entries with one id the one that is sorted first.
Entries(seen) ==
  {e \in ToSet(seen) : \A f \in ToSet(seen) : f.id = e.id => f = e \/ Before(e, f)}

\* The one sequence of some entries that is in order.
Sorted(entries) ==
  {s \in [1..Cardinality(entries) -> entries] :
     Range(s) = entries /\ \A i, j \in DOMAIN s : i < j => Before(s[i], s[j])}

\* FormIdIndex.FindOffset, a binary search.
FindOffset(id) ==
  IF \E i \in DOMAIN index : index[i].id = id
  THEN index[CHOOSE i \in DOMAIN index : index[i].id = id].offset ELSE None

WalkDone ==
  /\ op.kind \in Walks /\ scan = NoScan /\ pending = <<>>
  /\ \/ op.kind = "index" /\ index' \in Sorted(Entries(op.seen)) /\ End(TRUE, <<>>)
     \/ op.kind = "find" /\ End(TRUE, <<>>) /\ UNCHANGED index
     \/ op.kind = "statistics" /\ End(TRUE, op.seen) /\ UNCHANGED index
  /\ UNCHANGED bytes

Navigate ==
  \/ BeginSiblings \/ ReadWindow \/ HeaderCutOff
  \/ \E header \in Headers : ParseHeader(header)
  \/ Listed \/ Descend \/ Visit \/ RunVisited \/ WalkDone

-----------------------------------------------------------------------------
(* Properties                                                              *)

\* The containers there can be: they end in the file.
Containers == {c \in [start : Nat, end : Int, depth : Nat] : c.end <= length}

\* The nodes there can be in container c.
NodesIn(c) == {n \in FileNodes : c.start <= n.offset /\ EndOffset(n) <= c.end}

\* A scan is inside its container, and so are its window and what it found.
ScanOK ==
  scan # NoScan =>
    /\ scan \in [start : Nat, end : Int, depth : Nat, at : Nat, from : Nat, to : Nat,
                 nodes : Seq(NodesIn(scan))]
    /\ scan.end <= length
    /\ scan.start <= scan.at
    /\ scan.to = 0 \/ scan.to <= scan.end

\* Only what is in the file is scanned, descended to or handed out, and between
\* operations nothing is left to be scanned.
TreeInv ==
  /\ op # Idle =>
       /\ DOMAIN op = {"kind", "root", "target", "seen"}
       /\ op.kind \in Walks \cup {"children", "path"}
  /\ op = Idle => pending = <<>> /\ scan = NoScan
  /\ op.kind = "path" => op.seen \in Seq(FileNodes)
  /\ op.kind = "index" => op.seen \in Seq([id : Nat, offset : Nat])
  /\ pending \in Seq(Containers)
  /\ ScanOK
  /\ answer.kind \in {"find", "path"} => answer.result \in Seq(FileNodes)

\* A header that is parsed was whole in the window read for it, and the window
\* ends in the container.
ParsesWindow ==
  scan # NoScan /\ scan' # NoScan /\ Len(scan'.nodes) > Len(scan.nodes) =>
    /\ scan.from <= scan.at /\ scan.at + HeaderSize <= scan.to
    /\ scan.to <= scan.end

\* Container c is a proper part of the one that is scanned.
Smaller(c) == scan.start < c.start /\ c.start <= c.end /\ c.end <= scan.end

\* A node moves the position on, inside the container; a container that is added
\* is a proper part of it.
Shrinks ==
  scan # NoScan =>
    /\ scan' # NoScan /\ Len(scan'.nodes) > Len(scan.nodes) =>
         scan.at < scan'.at /\ scan'.at <= scan.end
    /\ \A i \in DOMAIN pending' :
         (i \in DOMAIN pending /\ pending'[i] = pending[i]) \/ Smaller(pending'[i])

\* A header is parsed only from bytes of the window that was read for it, and no
\* window reaches behind the container it is read for.  And walks and descents
\* end, whatever sizes the file declares: every step of a scan shrinks what is
\* left of it, or leads to something smaller.
ScansAreSound == [][ParsesWindow /\ Shrinks]_tree

\* The nodes at the offsets whose headers were looked at; 0 is the TES4 record.
NodeAt(o) == Node(o, 0, file[o])
Nodes == {NodeAt(o) : o \in DOMAIN file \ {0}}

Inside(n, root) ==
  root = None \/ (DataOffset(root) <= n.offset /\ EndOffset(n) <= EndOffset(root))

Ancestors(n) == {g \in Nodes : IsGroup(g) /\ g # n /\ Inside(n, g)}

\* When the index is built the whole file has been visited: wherever a node
\* should begin one does, nodes nest, and the index holds of every form id in
\* the file its first occurrence, in the ascending order its search needs.
IndexCoversFile ==
  index # None =>
    /\ \A o \in {Contents(None).start} \cup {EndOffset(n) : n \in Nodes} \cup
                {DataOffset(g) : g \in {n \in Nodes : IsGroup(n)}} :
         o \in DOMAIN file \cup {length} \cup {EndOffset(g) : g \in {n \in Nodes : IsGroup(n)}}
    /\ \A m, n \in Nodes : m.offset < n.offset => EndOffset(m) <= n.offset \/ m \in Ancestors(n)
    /\ \A n \in Nodes : ~IsGroup(n) =>
         LET o == FindOffset(n.header.id) IN
         o # None /\ o <= n.offset /\ file[o].kind # "group" /\ file[o].id = n.header.id
    /\ \A i \in 2..Len(index) : index[i - 1].id < index[i].id

\* A path is a chain of nodes, each a child of the one before it, down to the
\* offset asked for.  In a file that could be indexed it is found exactly for
\* the offsets where nodes begin: so what the index finds can be revealed.
PathIsRight ==
  answer.kind = "path" =>
    /\ answer.ok =>
         /\ Last(answer.result).offset = answer.target
         /\ \A i \in 2..Len(answer.result) :
              IsGroup(answer.result[i - 1]) /\ Inside(answer.result[i], answer.result[i - 1])
         /\ \A i \in DOMAIN answer.result : answer.result[i].depth = i - 1
    /\ index # None => (answer.ok <=> answer.target \in DOMAIN file)

\* A search finds a record with the id inside its root, and in a file that
\* could be indexed it finds one whenever there is one.
FindIsRight ==
  answer.kind = "find" =>
    /\ answer.result # <<>> =>
         LET n == Head(answer.result) IN
         ~IsGroup(n) /\ n.header.id = answer.target /\ Inside(n, answer.root)
    /\ index # None =>
         /\ answer.ok
         /\ answer.result # <<>> <=>
              \E n \in Nodes : ~IsGroup(n) /\ n.header.id = answer.target /\ Inside(n, answer.root)

\* In a file that could be indexed the statistics count every node under the
\* root once, and the depth is the number of groups around the deepest one.
StatisticsAreRight ==
  answer.kind = "statistics" /\ index # None =>
    LET all == {n \in Nodes : Inside(n, answer.root) /\ (answer.root # None => n.offset # answer.root.offset)}
        groups == {n \in all : IsGroup(n)}
        s == answer.result
    IN  /\ answer.ok
        /\ s.groups = Cardinality(groups)
        /\ s.records = Cardinality(all \ groups)
        /\ s.compressed = Cardinality({n \in all : n.header.kind = "compressed"})
        /\ \A n \in all : Cardinality(Ancestors(n)) <= s.maxDepth
        /\ all # {} => \E n \in all : Cardinality(Ancestors(n)) = s.maxDepth

\* A walk sees every node under its root, and sees it once: what is in the file
\* is found, and is counted.
WalksAreRight == FindIsRight /\ StatisticsAreRight
=============================================================================
