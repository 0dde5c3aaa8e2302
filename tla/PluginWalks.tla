----------------------------- MODULE PluginWalks -----------------------------
(***************************************************************************)
(* What a walk or a descent of PluginFile has done so far, and what is     *)
(* left of it: the inductive invariant behind IndexCoversFile,             *)
(* PathIsRight and WalksAreRight.                                          *)
(*                                                                         *)
(* The first half is about a file alone: f is the headers in it by offset, *)
(* L its length, V a set of offsets that were visited and R a set of       *)
(* regions [start, end) that are left to be.                               *)
(***************************************************************************)
EXTENDS PluginFile

\* The headers are those of an opened file.
FileOK(f, L) ==
  /\ L \in Nat /\ 0 \in DOMAIN f /\ f[0].kind # "group"
  /\ \A o \in DOMAIN f : o \in Nat /\ o + HeaderSize <= L /\ f[o] \in Headers

\* The offsets of nodes; 0 is the TES4 record.
Known(f) == DOMAIN f \ {0}

GroupIn(f, o) == f[o].kind = "group"
DataIn(o) == o + HeaderSize
EndIn(f, o) == DataIn(o) + (IF GroupIn(f, o) THEN f[o].size - HeaderSize ELSE f[o].size)

\* Where the first node begins.
First(f) == EndIn(f, 0)

\* Where a node should begin: there, behind another one, or inside a group.
Behind(f, o, p) == DataIn(p) <= EndIn(f, p) /\ (o = EndIn(f, p) \/ (GroupIn(f, p) /\ o = DataIn(p)))
Reached(f, o) == o = First(f) \/ \E p \in Known(f) : p < o /\ Behind(f, o, p)

\* [start, end) is what a group contains, or the whole file.
IsContents(f, L, start, end) ==
  \/ start = First(f) /\ end = L
  \/ \E g \in Known(f) : GroupIn(f, g) /\ start = DataIn(g) /\ start <= end /\ end = EndIn(f, g)

\* Of two nodes the later one is behind the earlier one, or inside it.
Nests(f, m, n) ==
  EndIn(f, m) <= n \/ (GroupIn(f, m) /\ DataIn(m) <= n /\ EndIn(f, n) <= EndIn(f, m))

\* At o, a node was visited, or a container ends, or what is left of one begins.
GoesOn(V, R, o, ends) == o \in V \cup ends \/ \E r \in R : r.start = o /\ r.end \in ends

\* V and R cover the file: V nests, what is left cuts through no node, and wherever
\* a node ends or a group begins the walk went on or will go on.
Walked(f, L, V, R) ==
  /\ V \subseteq Known(f)
  /\ \A v \in V : First(f) <= v /\ DataIn(v) <= EndIn(f, v) /\ EndIn(f, v) <= L
  /\ \A m, n \in V : m < n => Nests(f, m, n)
  /\ \A r \in R :
       /\ r.start \in Nat /\ r.end \in Nat
       /\ First(f) <= r.start /\ r.start <= r.end /\ r.end <= L
       /\ r.end = L \/ \E g \in V : GroupIn(f, g) /\ g < r.start /\ r.end = EndIn(f, g)
       /\ \A v \in V :
            \/ EndIn(f, v) <= r.start \/ r.end <= v
            \/ GroupIn(f, v) /\ DataIn(v) <= r.start /\ r.end <= EndIn(f, v)
  /\ GoesOn(V, R, First(f), {L})
  /\ \A v \in V :
       /\ GoesOn(V, R, EndIn(f, v), {L} \cup {EndIn(f, g) : g \in {g \in V : GroupIn(f, g) /\ g < v}})
       /\ GroupIn(f, v) => GoesOn(V, R, DataIn(v), {EndIn(f, v)})

\* The whole file was visited.
Closed(f, L) == Walked(f, L, Known(f), {})

NodesOf(f) == {Node(o, 0, f[o]) : o \in Known(f)}

\* The groups around [start, end).
Around(f, start, end) ==
  {g \in NodesOf(f) : IsGroup(g) /\ DataOffset(g) <= start /\ end <= EndOffset(g)}

-----------------------------------------------------------------------------
(* Every operation                                                         *)

\* The nodes whose headers were read where they are.
KnownNodes == {n \in FileNodes : n.offset \in DOMAIN file /\ n.header = file[n.offset]}

\* Headers are only looked at where nodes should begin.
TraceInv ==
  /\ phase # "open" => op = Idle /\ Known(file) = {} /\ index = None /\ answer = NoAnswer
  /\ \A o \in Known(file) : First(file) <= o /\ Reached(file, o)
  /\ op # Idle => op.root = None \/ (op.root \in KnownNodes /\ IsGroup(op.root))
  /\ op.kind = "path" => \A i \in DOMAIN op.seen : op.seen[i] \in KnownNodes
  /\ \A i \in DOMAIN pending : IsContents(file, length, pending[i].start, pending[i].end)
  /\ scan # NoScan =>
       /\ IsContents(file, length, scan.start, scan.end)
       /\ Reached(file, scan.at)
       /\ \A i \in DOMAIN scan.nodes : scan.nodes[i] \in KnownNodes
  /\ answer.kind \in {"find", "path"} => \A i \in DOMAIN answer.result : answer.result[i] \in KnownNodes

\* Containers, nodes not visited yet and the position of the scan are in the order
\* of the file, and all of them inside the root.
OrderInv ==
  /\ \A i, j \in DOMAIN pending : i < j => pending[i].end <= pending[j].start
  /\ \A i \in DOMAIN pending : pending[i].start <= pending[i].end
  /\ scan # NoScan =>
       /\ scan.at <= scan.end
       /\ \A i \in DOMAIN pending :
            /\ pending[i].end <= scan.at
            /\ \A k \in DOMAIN scan.nodes : pending[i].end <= scan.nodes[k].offset
       /\ \A i, k \in DOMAIN scan.nodes :
            i < k => EndOffset(scan.nodes[i]) <= scan.nodes[k].offset
       /\ \A k \in DOMAIN scan.nodes :
            EndOffset(scan.nodes[k]) <= scan.at /\ scan.nodes[k].depth = scan.depth
  /\ op # Idle /\ op.root # None =>
       /\ \A i \in DOMAIN pending :
            DataOffset(op.root) <= pending[i].start /\ pending[i].end <= EndOffset(op.root)
       /\ scan # NoScan =>
            DataOffset(op.root) <= scan.start /\ scan.end <= EndOffset(op.root)

-----------------------------------------------------------------------------
(* Building the index                                                      *)

Region(start, end) == [start |-> start, end |-> end]

\* What is left to be scanned of containers other than the current one.
Later ==
  {Region(pending[i].start, pending[i].end) : i \in DOMAIN pending} \cup
  (IF scan = NoScan THEN {}
   ELSE {Region(DataOffset(n), EndOffset(n)) : n \in {n \in ToSet(scan.nodes) : IsGroup(n) /\ DataSize(n) > 0}})

Regions == Later \cup (IF scan = NoScan THEN {} ELSE {Region(scan.at, scan.end)})

\* The nodes that were parsed and not visited yet.
Unvisited == IF scan = NoScan THEN {} ELSE {n.offset : n \in ToSet(scan.nodes)}

Entry(f, o) == [id |-> f[o].id, offset |-> o]
Records(f, V) == {o \in V : ~ GroupIn(f, o)}

\* The visited nodes and what is left cover the file, and the entries are those of
\* the records visited.
IndexWalkInv ==
  op.kind = "index" =>
    \E V \in SUBSET Known(file) :
      /\ Walked(file, length, V, Regions)
      /\ Unvisited \subseteq V
      /\ ToSet(op.seen) = {Entry(file, o) : o \in Records(file, V \ Unvisited)}

\* An index holds the first record of each id, in the order of ids.
IsIndex(f, ix) ==
  /\ \A i \in DOMAIN ix :
       /\ ix[i].offset \in Records(f, Known(f)) /\ f[ix[i].offset].id = ix[i].id
       /\ \A o \in Records(f, Known(f)) : f[o].id = ix[i].id => ix[i].offset <= o
  /\ \A o \in Records(f, Known(f)) : \E i \in DOMAIN ix : ix[i].id = f[o].id
  /\ \A i \in 2..Len(ix) : ix[i - 1].id < ix[i].id

IndexInv == index # None => Closed(file, length) /\ IsIndex(file, index)

-----------------------------------------------------------------------------
(* Descending to an offset                                                 *)

\* Each node is a child of the one before it.
Chain(s) ==
  /\ \A i \in 2..Len(s) : IsGroup(s[i - 1]) /\ Inside(s[i], s[i - 1])
  /\ \A i \in DOMAIN s : s[i].depth = i - 1

\* Container c holds the offset, and is that of the last node of the path so far.
LeadsOn(o, seen, c) ==
  /\ c.start <= o /\ o < c.end
  /\ c.depth = Len(seen)
  /\ seen # <<>> =>
       /\ IsGroup(Last(seen))
       /\ DataOffset(Last(seen)) <= c.start /\ c.end <= EndOffset(Last(seen))

DescentInv ==
  op.kind = "path" =>
    /\ op.target \in Nat /\ Chain(op.seen)
    /\ \A i \in DOMAIN pending : LeadsOn(op.target, op.seen, pending[i])
    /\ scan # NoScan =>
         /\ LeadsOn(op.target, op.seen, scan)
         /\ op.target < scan.at => \E n \in ToSet(scan.nodes) : n.offset <= op.target /\ op.target < EndOffset(n)

-----------------------------------------------------------------------------
(* Searching and counting in a file that was indexed                       *)

\* The offsets of nodes that are not visited yet.
Ahead ==
  Unvisited \cup {o \in Known(file) : \E r \in Regions : r.start <= o /\ o < r.end}

\* The nodes below the root, and those that were visited.
Under(f, root) ==
  {n \in NodesOf(f) : Inside(n, root) /\ (root # None => n.offset # root.offset)}
Done == {n \in Under(file, op.root) : n.offset \notin Ahead}

\* The number of groups around a node.
DepthOf(f, n) == Cardinality(Around(f, n.offset, EndOffset(n)))

Counts(f, s, visited) ==
  /\ s.groups = Cardinality({n \in visited : IsGroup(n)})
  /\ s.records = Cardinality({n \in visited : ~ IsGroup(n)})
  /\ s.compressed = Cardinality({n \in visited : n.header.kind = "compressed"})
  /\ s.maxDepth \in Nat
  /\ \A n \in visited : DepthOf(f, n) <= s.maxDepth
  /\ IF visited = {} THEN s.maxDepth = 0 ELSE \E n \in visited : DepthOf(f, n) = s.maxDepth

\* A search has passed no match, and the counts are those of the nodes passed.
CountInv ==
  index # None =>
    /\ op.kind = "find" => \A n \in Done : ~ (~ IsGroup(n) /\ n.header.id = op.target)
    /\ op.kind = "statistics" => Counts(file, op.seen, Done)

\* The depth of nodes and containers is the number of groups around them; no node
\* before the position of the scan reaches over it.
DepthInv ==
  index # None =>
    /\ op # Idle /\ op.root # None => op.root.depth = DepthOf(file, op.root)
    /\ \A i \in DOMAIN pending :
         pending[i].depth = Cardinality(Around(file, pending[i].start, pending[i].end))
    /\ scan # NoScan =>
         /\ scan.depth = Cardinality(Around(file, scan.start, scan.end))
         /\ \A o \in Known(file) : scan.start <= o /\ o < scan.at => EndIn(file, o) <= scan.at
         /\ \A k \in DOMAIN scan.nodes : scan.depth = DepthOf(file, scan.nodes[k])
    /\ answer.kind \in {"find", "path"} /\ answer.result # <<>> =>
         LET n == Last(answer.result) IN IsGroup(n) => n.depth = DepthOf(file, n)

WalkInv ==
  /\ TraceInv /\ OrderInv /\ IndexWalkInv /\ IndexInv /\ DescentInv /\ CountInv /\ DepthInv
  /\ PathIsRight /\ FindIsRight /\ StatisticsAreRight
=============================================================================
