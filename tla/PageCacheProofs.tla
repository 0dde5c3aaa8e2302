-------------------------- MODULE PageCacheProofs ---------------------------
(***************************************************************************)
(* Proofs about PageCache, for every file, page size, cache size and       *)
(* number of readers.                                                      *)
(***************************************************************************)
EXTENDS PageCacheHistory, SequenceFacts

-----------------------------------------------------------------------------
(* Pages                                                                   *)

\* Division by a page size.
LEMMA DivMod ==
  ASSUME NEW x \in Nat, NEW d \in Nat \ {0}
  PROVE  /\ x \div d \in Nat
         /\ (x \div d) * d \in Nat
         /\ (x \div d) * d <= x
         /\ x - (x \div d) * d < d
         /\ x - (x \div d) * d \in Nat
  OBVIOUS

\* A page that starts inside the file has at least one byte and at most
\* PageSize, and ends inside the file.
LEMMA PageLengthFacts ==
  ASSUME NEW p \in Nat, p * PageSize < FileLength
  PROVE  /\ p * PageSize \in Nat
         /\ PageLength(p) \in Nat \ {0}
         /\ PageLength(p) <= PageSize
         /\ p * PageSize + PageLength(p) <= FileLength
         /\ PageLength(p) = PageSize \/ p * PageSize + PageLength(p) = FileLength
<1> DEFINE base == p * PageSize
<1>1. PageSize \in Nat \ {0} /\ FileLength \in Nat
  BY CacheAssumption
<1>2. base \in Nat /\ base < FileLength
  BY <1>1
<1>3. PageLength(p) = IF PageSize < FileLength - base THEN PageSize ELSE FileLength - base
  BY DEF PageLength, MinOf
<1> HIDE DEF base
<1>4. /\ PageLength(p) \in Nat \ {0}
      /\ PageLength(p) <= PageSize
      /\ base + PageLength(p) <= FileLength
      /\ PageLength(p) = PageSize \/ base + PageLength(p) = FileLength
  BY <1>1, <1>2, <1>3
<1>5. QED
  BY <1>2, <1>4 DEF base

\* What a complete read of a page of the file yields.
LEMMA LoadedPageFacts ==
  ASSUME NEW p \in Nat, p * PageSize < FileLength
  PROVE  /\ LoadedPage(p) \in Page
         /\ LoadedPage(p).index = p
         /\ Len(LoadedPage(p).data) = PageLength(p)
         /\ \A i \in 1..PageLength(p) :
              /\ LoadedPage(p).data[i] = Content[p * PageSize + i - 1]
              /\ LoadedPage(p).data[i] \in Byte
<1> DEFINE base == p * PageSize
           n == PageLength(p)
           bytes == [i \in 1..n |-> Content[base + i - 1]]
<1>1. base \in Nat /\ n \in Nat \ {0} /\ base + n <= FileLength
  BY PageLengthFacts
<1>2. LoadedPage(p) = [index |-> p, data |-> bytes]
  BY DEF LoadedPage
<1> HIDE DEF base, n
<1>3. ASSUME NEW i \in 1..n
      PROVE  Content[base + i - 1] \in Byte
  <2>1. base + i - 1 \in 0..(FileLength - 1)
    BY <1>1, CacheAssumption
  <2>2. QED
    BY <2>1, CacheAssumption DEF Byte
<1>4. bytes \in Seq(Byte) /\ Len(bytes) = n
  BY <1>1, <1>3
<1>5. \A i \in 1..n : bytes[i] = Content[base + i - 1] /\ bytes[i] \in Byte
  BY <1>3
<1> HIDE DEF bytes
<1>6. LoadedPage(p) \in Page
  BY <1>2, <1>4 DEF Page
<1>7. QED
  BY <1>2, <1>4, <1>5, <1>6 DEF base, n

\* A read that is under way is on a page of the file, and its position is inside
\* that page, the short last one included.
LEMMA PositionFacts ==
  ASSUME TypeOK, NEW r \in Readers, ReadConsistent(r), pc[r] # "idle"
  PROVE  /\ Position(r) \in Nat /\ Position(r) < FileLength
         /\ PageIndex(r) \in Nat /\ PageIndex(r) * PageSize < FileLength
         /\ OffsetInPage(r) \in Nat
         /\ OffsetInPage(r) < PageLength(PageIndex(r))
         /\ Position(r) = PageIndex(r) * PageSize + OffsetInPage(r)
<1> DEFINE x == Position(r)
           p == PageIndex(r)
           base == p * PageSize
<1>1. PageSize \in Nat \ {0} /\ FileLength \in Nat
  BY CacheAssumption
<1>2. x \in Nat /\ x < FileLength
  <2>1. call[r].offset \in Nat /\ call[r].count \in Nat /\ copied[r] \in Nat
    BY DEF TypeOK
  <2>2. QED
    BY <2>1, <1>1 DEF ReadConsistent, Position
<1> HIDE DEF x
<1>3. p = x \div PageSize /\ OffsetInPage(r) = x - base
  BY DEF PageIndex, OffsetInPage, x
<1> HIDE DEF p
<1>4. p \in Nat /\ base \in Nat /\ base <= x /\ x - base < PageSize /\ x - base \in Nat
  BY <1>1, <1>2, <1>3, DivMod
<1>5. base < FileLength
  BY <1>1, <1>2, <1>4
<1>6. /\ PageLength(p) \in Nat
      /\ PageLength(p) = PageSize \/ base + PageLength(p) = FileLength
  BY <1>4, <1>5, PageLengthFacts
<1> HIDE DEF base
<1>7. x - base < PageLength(p) /\ x = base + (x - base)
  BY <1>1, <1>2, <1>4, <1>6
<1>8. QED
  BY <1>2, <1>3, <1>4, <1>5, <1>7 DEF x, p, base

-----------------------------------------------------------------------------
(* The gate                                                                *)

\* What the variables of the gate and of the control of the reads are.
ControlOK ==
  /\ holder \in Readers \cup {NoOne}
  /\ queue \in Seq(Readers)
  /\ life \in {"open", "disposing", "disposed"}
  /\ pc \in [Readers -> PC]
  /\ reply \in [Readers -> Reply]

\* Arriving at the gate: the read takes it, joins the line or is turned away,
\* and nobody else moves.
LEMMA ArriveKeepsGate ==
  ASSUME ControlOK, GateAgrees, NEW r \in Readers, pc[r] \in {"idle", "copying"},
         Arrive(r), UNCHANGED life
  PROVE  /\ ControlOK' /\ GateAgrees'
         /\ \A q \in Readers \ {r} : pc'[q] = pc[q] /\ reply'[q] = reply[q]
         /\ \/ pc'[r] = "idle" /\ reply'[r] \in {"disposed", "cancelled"}
            \/ pc'[r] \in {"granted", "waiting"} /\ reply'[r] = "none"
<1>0. NoOne \notin Readers
  BY CacheAssumption
<1>1. CASE /\ UNCHANGED gate
           /\ pc' = [pc EXCEPT ![r] = "idle"]
           /\ \/ reply' = [reply EXCEPT ![r] = "disposed"]
              \/ reply' = [reply EXCEPT ![r] = "cancelled"]
  <2>1. ControlOK'
    BY <1>1 DEF ControlOK, gate, PC, Reply
  <2>2. GateAgrees'
    BY <1>1 DEF ControlOK, GateAgrees, gate
  <2>3. QED
    BY <1>1, <2>1, <2>2 DEF ControlOK
<1>2. CASE /\ life # "disposed"
           /\ Take(r)
           /\ pc' = [pc EXCEPT ![r] = "granted"]
           /\ reply' = [reply EXCEPT ![r] = "none"]
  <2>1. ControlOK'
    BY <1>2 DEF ControlOK, Take, PC, Reply
  <2>2. queue = <<>>
    BY <1>2 DEF GateAgrees, Take
  <2>3. GateAgrees'
    BY <1>0, <1>2, <2>2 DEF ControlOK, GateAgrees, Take
  <2>4. QED
    BY <1>2, <2>1, <2>3 DEF ControlOK
<1>3. CASE /\ life # "disposed"
           /\ Join(r)
           /\ pc' = [pc EXCEPT ![r] = "waiting"]
           /\ reply' = [reply EXCEPT ![r] = "none"]
  <2> DEFINE n == Len(queue)
  <2>1. /\ queue' \in Seq(Readers)
        /\ Len(queue') = n + 1
        /\ \A i \in 1..n : queue'[i] = queue[i] /\ queue[i] \in Readers
        /\ queue'[n + 1] = r
        /\ n \in Nat
    BY <1>3, AppendFacts DEF ControlOK, Join
  <2>2. ControlOK'
    BY <1>3, <2>1 DEF ControlOK, Join, PC, Reply
  <2>3. \A i \in 1..n : queue[i] # r
    BY <2>1 DEF GateAgrees
  <2> HIDE DEF n
  <2>4. \A i \in 1..(n + 1) : i \in 1..n \/ i = n + 1
    BY <2>1
  <2>5. \A i \in 1..Len(queue') : pc'[queue'[i]] = "waiting"
    BY <1>3, <2>1, <2>3, <2>4 DEF ControlOK, GateAgrees, n
  <2>6. \A q \in Readers : pc'[q] = "waiting" => \E i \in 1..Len(queue') : queue'[i] = q
    BY <1>3, <2>1 DEF ControlOK, GateAgrees, n
  <2>7. \A i, j \in 1..Len(queue') : queue'[i] = queue'[j] => i = j
    BY <2>1, <2>3, <2>4 DEF GateAgrees, n
  <2>8. \A q \in Readers : holder' = q <=> pc'[q] \in {"granted", "loading"}
    BY <1>3 DEF ControlOK, GateAgrees, Join
  <2>9. QED
    BY <1>3, <2>2, <2>5, <2>6, <2>7, <2>8 DEF GateAgrees, ControlOK, Join
<1>4. QED
  BY <1>1, <1>2, <1>3 DEF Arrive

\* Releasing the gate: the first in line resumes holding it, and nobody else
\* moves; the read that releases goes on as it meant to, or ends because the gate
\* was disposed.
LEMMA ReleaseKeepsGate ==
  ASSUME ControlOK, GateAgrees, NEW r \in Readers, pc[r] \in {"granted", "loading"},
         NEW then \in {"copying", "idle"}, NEW ans \in Reply,
         Release(r, then, ans), UNCHANGED life
  PROVE  /\ ControlOK' /\ GateAgrees'
         /\ \A q \in Readers \ {r} :
              /\ reply'[q] = reply[q]
              /\ pc'[q] = pc[q] \/ (pc[q] = "waiting" /\ pc'[q] = "granted")
         /\ \/ pc'[r] = "idle" /\ reply'[r] = "disposed"
            \/ pc'[r] = then /\ reply'[r] = ans
<1>0. NoOne \notin Readers /\ holder = r
  BY CacheAssumption DEF GateAgrees
<1>1. CASE queue = <<>>
  <2>1. /\ holder' = NoOne /\ queue' = <<>>
        /\ pc' \in [Readers -> PC] /\ reply' \in [Readers -> Reply]
        /\ \A q \in Readers \ {r} : pc'[q] = pc[q] /\ reply'[q] = reply[q]
        /\ \/ pc'[r] = "idle" /\ reply'[r] = "disposed"
           \/ pc'[r] = then /\ reply'[r] = ans
    BY <1>0, <1>1 DEF Release, PassOn, NextInLine, ControlOK, PC, Reply
  <2>2. ControlOK'
    BY <2>1 DEF ControlOK
  <2>3. \A q \in Readers : pc'[q] \notin {"granted", "loading", "waiting"}
    BY <1>0, <1>1, <2>1 DEF GateAgrees
  <2>4. GateAgrees'
    BY <1>0, <1>1, <2>1, <2>3 DEF GateAgrees
  <2>5. QED
    BY <2>1, <2>2, <2>4
<1>2. CASE queue # <<>>
  <2> DEFINE n == Len(queue) - 1
             h == Head(queue)
  <2>1. /\ Tail(queue) \in Seq(Readers)
        /\ Len(Tail(queue)) = n
        /\ \A i \in 1..n : Tail(queue)[i] = queue[i + 1]
        /\ h = queue[1] /\ h \in Readers
        /\ n \in Nat /\ Len(queue) = n + 1
        /\ \A i \in 1..(n + 1) : queue[i] \in Readers
    BY <1>2, TailFacts DEF ControlOK
  <2> HIDE DEF n, h
  <2>2. life # "disposed"
    BY <1>2 DEF GateAgrees
  <2>3. /\ holder' = h /\ queue' = Tail(queue)
        /\ pc' = [q \in Readers |-> IF q = r THEN then ELSE IF q = h THEN "granted" ELSE pc[q]]
        /\ reply' = [reply EXCEPT ![r] = ans]
    BY <1>2, <2>2 DEF Release, PassOn, NextInLine, h
  <2>4. h # r /\ pc[h] = "waiting"
    BY <2>1 DEF GateAgrees
  <2>5. ControlOK'
    BY <2>1, <2>3 DEF ControlOK, PC
  <2>6. \A q \in Readers : holder' = q <=> pc'[q] \in {"granted", "loading"}
    BY <1>0, <2>3, <2>4 DEF GateAgrees
  <2>7. \A i \in 1..n : /\ queue'[i] = queue[i + 1]
                        /\ i + 1 \in 1..(n + 1)
                        /\ queue[i + 1] # h
    BY <2>1, <2>3 DEF GateAgrees
  <2>8. \A i \in 1..Len(queue') : pc'[queue'[i]] = "waiting"
    BY <2>1, <2>3, <2>4, <2>7 DEF GateAgrees
  <2>9. ASSUME NEW q \in Readers, pc'[q] = "waiting"
        PROVE  \E i \in 1..Len(queue') : queue'[i] = q
    <3>1. pc[q] = "waiting" /\ q # h
      BY <2>3, <2>9
    <3>2. PICK k \in 1..(n + 1) : queue[k] = q
      BY <2>1, <3>1 DEF GateAgrees
    <3>3. k - 1 \in 1..n /\ (k - 1) + 1 = k
      BY <2>1, <3>1, <3>2
    <3>4. queue'[k - 1] = q
      BY <2>7, <3>2, <3>3
    <3>5. QED
      BY <2>1, <2>3, <3>3, <3>4
  <2>10. ASSUME NEW i \in 1..n, NEW j \in 1..n, queue'[i] = queue'[j]
         PROVE  i = j
    <3>1. queue[i + 1] = queue[j + 1]
      BY <2>7, <2>10
    <3>2. i + 1 = j + 1
      BY <2>1, <2>7, <3>1 DEF GateAgrees
    <3>3. QED
      BY <2>1, <3>2
  <2>11. GateAgrees'
    BY <2>1, <2>2, <2>3, <2>6, <2>8, <2>9, <2>10, <1>0 DEF GateAgrees
  <2>12. QED
    BY <2>3, <2>4, <2>5, <2>11 DEF ControlOK
<1>3. QED
  BY <1>1, <1>2

\* Leaving the line: the others keep their places.
LEMMA WithdrawKeepsGate ==
  ASSUME ControlOK, GateAgrees, NEW r \in Readers, pc[r] = "waiting",
         Withdraw(r), UNCHANGED life,
         pc' = [pc EXCEPT ![r] = "idle"],
         reply' = [reply EXCEPT ![r] = "cancelled"]
  PROVE  ControlOK' /\ GateAgrees'
<1> DEFINE n == Len(queue) - 1
<1>1. PICK k \in 1..Len(queue) : queue[k] = r /\ queue' = RemoveAt(queue, k)
  BY DEF Withdraw
<1>2. /\ queue' \in Seq(Readers)
      /\ Len(queue') = n
      /\ \A i \in 1..n : queue'[i] = IF i < k THEN queue[i] ELSE queue[i + 1]
  BY <1>1, RemoveAtFacts DEF ControlOK
<1>3. /\ n \in Nat /\ Len(queue) = n + 1
      /\ \A i \in 1..(n + 1) : queue[i] \in Readers
  BY DEF ControlOK
<1>4. holder' = holder
  BY DEF Withdraw
<1> DEFINE at(i) == IF i < k THEN i ELSE i + 1
<1>5. \A i \in 1..n : at(i) \in 1..(n + 1) /\ at(i) # k /\ queue'[i] = queue[at(i)]
  BY <1>1, <1>2, <1>3
<1>6. \A i, j \in 1..n : at(i) = at(j) => i = j
  BY <1>1, <1>3
<1>7. ASSUME NEW j \in 1..(n + 1), j # k
      PROVE  \E i \in 1..n : at(i) = j
  <2>1. CASE j < k
    BY <1>1, <1>3, <2>1
  <2>2. CASE ~(j < k)
    <3>1. j - 1 \in 1..n /\ at(j - 1) = j
      BY <1>1, <1>3, <1>7, <2>2
    <3>2. QED
      BY <3>1
  <2>3. QED
    BY <2>1, <2>2
<1> HIDE DEF n, at
<1>8. ControlOK'
  BY <1>2, <1>4 DEF ControlOK, PC, Reply
<1>9. \A i \in 1..n : queue'[i] \in Readers \ {r}
  BY <1>1, <1>3, <1>5 DEF GateAgrees
<1>10. \A i \in 1..n : pc'[queue'[i]] = "waiting"
  BY <1>3, <1>5, <1>9 DEF GateAgrees, ControlOK
<1>11. ASSUME NEW q \in Readers, pc'[q] = "waiting"
       PROVE  \E i \in 1..n : queue'[i] = q
  <2>1. pc[q] = "waiting" /\ q # r
    BY <1>11 DEF ControlOK
  <2>2. PICK j \in 1..(n + 1) : queue[j] = q
    BY <1>3, <2>1 DEF GateAgrees
  <2>3. QED
    BY <1>1, <1>5, <1>7, <2>1, <2>2
<1>12. ASSUME NEW i \in 1..n, NEW j \in 1..n, queue'[i] = queue'[j]
       PROVE  i = j
  BY <1>3, <1>5, <1>6, <1>12 DEF GateAgrees
<1>13. queue # <<>> /\ life # "disposed"
  BY <1>1 DEF GateAgrees
<1>14. GateAgrees'
  BY <1>2, <1>4, <1>10, <1>11, <1>12, <1>13 DEF GateAgrees, ControlOK
<1>15. QED
  BY <1>8, <1>14

-----------------------------------------------------------------------------
(* The cached pages                                                        *)

PagesTyped == \A p \in DOMAIN pagesByIndex : p \in Nat /\ pagesByIndex[p] \in Page

\* Moving a cached page to the front of the list changes no page.
LEMMA HitKeepsLists ==
  ASSUME recency \in Seq(Page), ListsAgree, NEW i \in 1..Len(recency),
         recency' = MoveToFront(recency, i), UNCHANGED pagesByIndex
  PROVE  recency' \in Seq(Page) /\ ListsAgree'
<1> DEFINE n == Len(recency)
           from(j) == IF j = 1 THEN i ELSE IF j <= i THEN j - 1 ELSE j
<1>1. /\ recency' \in Seq(Page)
      /\ Len(recency') = n
      /\ recency'[1] = recency[i]
      /\ \A j \in 2..n : recency'[j] = IF j <= i THEN recency[j - 1] ELSE recency[j]
  BY MoveToFrontFacts DEF MoveToFront
<1>2. n \in Nat
  OBVIOUS
<1>3. \A j \in 1..n : from(j) \in 1..n /\ recency'[j] = recency[from(j)]
  <2>1. TAKE j \in 1..n
  <2>2. CASE j = 1
    BY <1>1, <2>2
  <2>3. CASE j # 1
    <3>1. j \in 2..n
      BY <1>2, <2>3
    <3>2. QED
      BY <1>1, <1>2, <2>3, <3>1
  <2>4. QED
    BY <2>2, <2>3
<1>4. \A j, k \in 1..n : from(j) = from(k) => j = k
  BY <1>2
<1>5. ASSUME NEW k \in 1..n
      PROVE  \E j \in 1..n : from(j) = k
  <2>1. CASE k = i
    BY <1>2, <2>1
  <2>2. CASE k < i
    <3>1. k + 1 \in 1..n /\ from(k + 1) = k
      BY <1>2, <2>2
    <3>2. QED
      BY <3>1
  <2>3. CASE k > i
    <3>1. from(k) = k
      BY <1>2, <2>3
    <3>2. QED
      BY <3>1
  <2>4. QED
    BY <1>2, <2>1, <2>2, <2>3
<1> HIDE DEF n, from
<1>6. \A p \in DOMAIN pagesByIndex : \E j \in 1..n : recency'[j].index = p
  <2>1. TAKE p \in DOMAIN pagesByIndex
  <2>2. PICK k \in 1..n : recency[k].index = p
    BY DEF ListsAgree, n
  <2>3. QED
    BY <1>3, <1>5, <2>2
<1>7. ASSUME NEW j \in 1..n
      PROVE  /\ recency'[j].index \in DOMAIN pagesByIndex
             /\ pagesByIndex[recency'[j].index] = recency'[j]
  <2>1. \A k \in 1..n : /\ recency[k].index \in DOMAIN pagesByIndex
                        /\ pagesByIndex[recency[k].index] = recency[k]
    BY DEF ListsAgree, n
  <2>2. QED
    BY <1>3, <2>1
<1>8. ASSUME NEW j \in 1..n, NEW k \in 1..n, recency'[j].index = recency'[k].index
      PROVE  j = k
  <2>1. \A a, b \in 1..n : recency[a].index = recency[b].index => a = b
    BY DEF ListsAgree, n
  <2>2. from(j) = from(k)
    BY <1>3, <1>8, <2>1
  <2>3. QED
    BY <1>4, <2>2
<1>9. QED
  BY <1>1, <1>6, <1>7, <1>8 DEF ListsAgree, n

\* Inserting a page that is not cached, and evicting the oldest one if there are
\* too many, keeps the dictionary and the list in step and inside the bound; no
\* cached page changes.
LEMMA CacheWithKeepsLists ==
  ASSUME recency \in Seq(Page), ListsAgree, PagesTyped,
         NEW new \in Page, new.index \in Nat, new.index \notin DOMAIN pagesByIndex,
         CacheWith(new)
  PROVE  /\ recency' \in Seq(Page) /\ ListsAgree' /\ PagesTyped'
         /\ \A p \in DOMAIN pagesByIndex' :
              \/ p = new.index /\ pagesByIndex'[p] = new
              \/ p \in DOMAIN pagesByIndex /\ pagesByIndex'[p] = pagesByIndex[p]
<1> DEFINE n == Len(recency)
           order == Cons(new, recency)
           index == [p \in DOMAIN pagesByIndex \cup {new.index} |->
                       IF p = new.index THEN new ELSE pagesByIndex[p]]
<1>0. n \in Nat /\ MaxPages \in Nat \ {0} /\ n <= MaxPages
  BY CacheAssumption DEF ListsAgree
<1>a. \A k \in 1..n : /\ recency[k].index \in DOMAIN pagesByIndex
                      /\ pagesByIndex[recency[k].index] = recency[k]
  BY DEF ListsAgree
<1>b. \A j, k \in 1..n : recency[j].index = recency[k].index => j = k
  BY DEF ListsAgree
<1> HIDE DEF n
<1>1. /\ order \in Seq(Page)
      /\ Len(order) = n + 1
      /\ order[1] = new
      /\ \A j \in 2..(n + 1) : order[j] = recency[j - 1]
  BY ConsFacts DEF n
<1>2. /\ DOMAIN index = DOMAIN pagesByIndex \cup {new.index}
      /\ index[new.index] = new
      /\ \A p \in DOMAIN pagesByIndex : index[p] = pagesByIndex[p]
  OBVIOUS
<1>3. IF Len(order) > MaxPages
      THEN /\ recency' = Front(order)
           /\ pagesByIndex' = [p \in DOMAIN index \ {Last(order).index} |-> index[p]]
      ELSE /\ recency' = order
           /\ pagesByIndex' = index
  BY Zenon DEF CacheWith
<1> HIDE DEF order, index
<1>4. \A j \in 2..(n + 1) : j - 1 \in 1..n /\ order[j] = recency[j - 1]
  BY <1>0, <1>1
<1>5. \A j \in 1..(n + 1) : j = 1 \/ j \in 2..(n + 1)
  BY <1>0
<1>6. ASSUME NEW j \in 1..(n + 1)
      PROVE  order[j].index \in DOMAIN index /\ index[order[j].index] = order[j]
  <2>1. CASE j = 1
    BY <1>1, <1>2, <2>1
  <2>2. CASE j \in 2..(n + 1)
    BY <1>2, <1>4, <1>a, <2>2
  <2>3. QED
    BY <1>5, <2>1, <2>2
<1>7. ASSUME NEW j \in 1..(n + 1), NEW k \in 1..(n + 1), order[j].index = order[k].index
      PROVE  j = k
  <2>1. CASE j = 1 /\ k = 1
    BY <2>1
  <2>2. CASE j = 1 /\ k \in 2..(n + 1)
    BY <1>1, <1>4, <1>7, <1>a, <2>2
  <2>3. CASE k = 1 /\ j \in 2..(n + 1)
    BY <1>1, <1>4, <1>7, <1>a, <2>3
  <2>4. CASE j \in 2..(n + 1) /\ k \in 2..(n + 1)
    <3>1. j - 1 = k - 1
      BY <1>4, <1>7, <1>b, <2>4
    <3>2. QED
      BY <1>0, <3>1
  <2>5. QED
    BY <1>5, <2>1, <2>2, <2>3, <2>4
<1>8. ASSUME NEW p \in DOMAIN index
      PROVE  \E j \in 1..(n + 1) : order[j].index = p
  <2>1. CASE p = new.index
    BY <1>0, <1>1, <2>1
  <2>2. CASE p \in DOMAIN pagesByIndex
    <3>1. PICK k \in 1..n : recency[k].index = p
      BY <2>2 DEF ListsAgree, n
    <3>2. k + 1 \in 2..(n + 1) /\ (k + 1) - 1 = k /\ k + 1 \in 1..(n + 1)
      BY <1>0
    <3>3. order[k + 1].index = p
      BY <1>4, <3>1, <3>2
    <3>4. QED
      BY <3>2, <3>3
  <2>3. QED
    BY <1>2, <2>1, <2>2
<1>9. \A p \in DOMAIN index : p \in Nat /\ index[p] \in Page
  BY <1>2 DEF PagesTyped
<1>10. \A p \in DOMAIN index :
         \/ p = new.index /\ index[p] = new
         \/ p \in DOMAIN pagesByIndex /\ index[p] = pagesByIndex[p]
  BY <1>2
<1>11. CASE n + 1 <= MaxPages
  <2>1. recency' = order /\ pagesByIndex' = index
    BY <1>0, <1>1, <1>3, <1>11
  <2>2. ListsAgree'
    BY <1>1, <1>6, <1>7, <1>8, <1>11, <2>1 DEF ListsAgree
  <2>3. PagesTyped'
    BY <1>9, <2>1 DEF PagesTyped
  <2>4. QED
    BY <1>1, <1>10, <2>1, <2>2, <2>3
<1>12. CASE ~(n + 1 <= MaxPages)
  <2> DEFINE out == order[n + 1].index
  <2>1. /\ recency' = Front(order)
        /\ pagesByIndex' = [p \in DOMAIN index \ {out} |-> index[p]]
        /\ n = MaxPages
    BY <1>0, <1>1, <1>3, <1>12 DEF Last
  <2>2. /\ Front(order) \in Seq(Page)
        /\ Len(Front(order)) = n
        /\ \A j \in 1..n : Front(order)[j] = order[j]
    <3>1. order # <<>>
      BY <1>0, <1>1
    <3>2. Len(order) - 1 = n
      BY <1>0, <1>1
    <3>3. QED
      BY <1>1, <3>1, <3>2, FrontFacts
  <2> HIDE DEF out
  <2>3. \A j \in 1..n : j \in 1..(n + 1) /\ j # n + 1
    BY <1>0
  <2>4. n + 1 \in 1..(n + 1) /\ \A j \in 1..(n + 1) : j \in 1..n \/ j = n + 1
    BY <1>0
  <2>5. \A j \in 1..n : order[j].index # out
    BY <1>7, <2>3, <2>4 DEF out
  <2>6. \A j \in 1..n : /\ recency'[j].index \in DOMAIN pagesByIndex'
                        /\ pagesByIndex'[recency'[j].index] = recency'[j]
    BY <1>6, <2>1, <2>2, <2>3, <2>5
  <2>7. ASSUME NEW p \in DOMAIN pagesByIndex'
        PROVE  \E j \in 1..n : recency'[j].index = p
    <3>1. p \in DOMAIN index /\ p # out
      BY <2>1
    <3>2. PICK j \in 1..(n + 1) : order[j].index = p
      BY <1>8, <3>1
    <3>3. j \in 1..n
      BY <2>4, <3>1, <3>2 DEF out
    <3>4. QED
      BY <2>1, <2>2, <3>2, <3>3
  <2>8. \A j, k \in 1..n : recency'[j].index = recency'[k].index => j = k
    BY <1>7, <2>1, <2>2, <2>3
  <2>9. ListsAgree'
    BY <1>0, <2>1, <2>2, <2>6, <2>7, <2>8 DEF ListsAgree
  <2>10. PagesTyped'
    BY <1>9, <2>1 DEF PagesTyped
  <2>11. QED
    BY <1>10, <2>1, <2>2, <2>9, <2>10
<1>13. QED
  BY <1>11, <1>12

-----------------------------------------------------------------------------
(* The inductive invariant                                                 *)

ReadsTyped ==
  /\ call \in [Readers -> [offset : Nat, count : Nat]]
  /\ copied \in [Readers -> Nat]
  /\ DOMAIN dest = Readers
  /\ \A r \in Readers : dest[r] \in [0..(call[r].count - 1) -> Byte \cup {Blank}]
  /\ page \in [Readers -> Page]

\* TypeOK in the parts that the steps disturb separately.
LEMMA TypeParts ==
  TypeOK <=> ControlOK /\ PagesTyped /\ recency \in Seq(Page) /\ ReadsTyped
  BY DEF TypeOK, ControlOK, PagesTyped, ReadsTyped

LEMMA TypePartsPrime ==
  TypeOK' <=> ControlOK' /\ PagesTyped' /\ recency' \in Seq(Page) /\ ReadsTyped'
  BY DEF TypeOK, ControlOK, PagesTyped, ReadsTyped

\* A read whose locals do not change stays consistent, also when it is handed
\* the gate.
LEMMA IdleReadKeeps ==
  ASSUME NEW q \in Readers, ReadConsistent(q), reply'[q] = reply[q],
         pc'[q] = pc[q] \/ (pc[q] = "waiting" /\ pc'[q] = "granted"),
         call'[q] = call[q], copied'[q] = copied[q], dest'[q] = dest[q], page'[q] = page[q]
  PROVE  ReadConsistent(q)'
  BY DEF ReadConsistent, PageIndex, Position

LEMMA InitOK == Init => IInv
<1> SUFFICES ASSUME Init PROVE IInv
  OBVIOUS
<1>0. NoOne \notin Readers /\ MaxPages \in Nat
  BY CacheAssumption
<1>1. NoPage \in Page /\ <<>> \in Seq(Readers) /\ <<>> \in Seq(Page) /\ Len(<<>>) = 0
  <2>1. <<>> \in Seq(Byte)
    OBVIOUS
  <2>2. QED
    BY <2>1 DEF NoPage, Page
<1>2. ControlOK
  BY <1>1 DEF Init, GateInit, ControlOK, PC, Reply
<1>3. PagesTyped /\ recency \in Seq(Page) /\ ListsAgree /\ PagesCorrect
  BY <1>0, <1>1 DEF Init, PagesTyped, ListsAgree, PagesCorrect
<1>4. ReadsTyped
  <2>1. \A r \in Readers : call[r].count = 0 /\ dest[r] = [i \in {} |-> Blank]
    BY DEF Init
  <2>2. 0..(0 - 1) = {}
    OBVIOUS
  <2>3. \A r \in Readers : dest[r] \in [0..(call[r].count - 1) -> Byte \cup {Blank}]
    BY <2>1, <2>2
  <2>4. QED
    BY <1>1, <2>3 DEF Init, ReadsTyped
<1>5. GateAgrees
  BY <1>0, <1>1 DEF Init, GateInit, GateAgrees
<1>6. ReadsConsistent /\ NeverShort
  BY DEF Init, ReadsConsistent, ReadConsistent, NeverShort
<1>7. LoadsOnce
  BY DEF Init, LoadsOnce
<1>8. QED
  BY <1>2, <1>3, <1>4, <1>5, <1>6, <1>7, TypeParts DEF IInv

LEMMA CallKeeps ==
  ASSUME IInv, NEW r \in Readers, NEW req \in Requests, Call(r, req)
  PROVE  IInv'
<1>0. /\ ControlOK /\ GateAgrees /\ ListsAgree /\ PagesCorrect /\ PagesTyped /\ LoadsOnce
      /\ recency \in Seq(Page) /\ ReadsTyped /\ ReadsConsistent /\ NeverShort
      /\ req \in [offset : Nat, count : Nat]
      /\ pc[r] = "idle" /\ UNCHANGED <<pagesByIndex, recency, life>>
  BY TypeParts, CacheAssumption DEF IInv, Call, cache
<1>1. /\ PagesTyped' /\ recency' \in Seq(Page) /\ ListsAgree' /\ PagesCorrect'
  BY <1>0 DEF PagesTyped, ListsAgree, PagesCorrect
<1>2. /\ call' = [call EXCEPT ![r] = req]
      /\ copied' = [copied EXCEPT ![r] = 0]
      /\ dest' = [dest EXCEPT ![r] = [i \in 0..(req.count - 1) |-> Blank]]
      /\ page' = [page EXCEPT ![r] = NoPage]
  BY DEF Call
<1>3. ReadsTyped'
  <2>1. NoPage \in Page
    <3>1. <<>> \in Seq(Byte)
      OBVIOUS
    <3>2. QED
      BY <3>1 DEF NoPage, Page
  <2>2. call' \in [Readers -> [offset : Nat, count : Nat]] /\ copied' \in [Readers -> Nat]
    BY <1>0, <1>2 DEF ReadsTyped
  <2>3. DOMAIN dest' = Readers /\ page' \in [Readers -> Page]
    BY <1>0, <1>2, <2>1 DEF ReadsTyped
  <2>4. ASSUME NEW q \in Readers
        PROVE  dest'[q] \in [0..(call'[q].count - 1) -> Byte \cup {Blank}]
    <3>1. CASE q = r
      BY <1>0, <1>2, <3>1 DEF ReadsTyped
    <3>2. CASE q # r
      BY <1>0, <1>2, <3>2 DEF ReadsTyped
    <3>3. QED
      BY <3>1, <3>2
  <2>5. QED
    BY <2>2, <2>3, <2>4 DEF ReadsTyped
<1>4. /\ ControlOK' /\ GateAgrees'
      /\ \A q \in Readers \ {r} : pc'[q] = pc[q] /\ reply'[q] = reply[q]
      /\ \/ pc'[r] = "idle" /\ reply'[r] \in {"range", "disposed", "cancelled"}
         \/ pc'[r] = "idle" /\ reply'[r] = "ok" /\ req.count = 0
         \/ /\ pc'[r] \in {"granted", "waiting"} /\ reply'[r] = "none"
            /\ req.offset + req.count <= FileLength /\ req.count > 0
  <2>1. CASE /\ \/ reply' = [reply EXCEPT ![r] = "range"]
                \/ reply' = [reply EXCEPT ![r] = "ok"] /\ req.count = 0
             /\ UNCHANGED <<pc, gate>>
    <3>1. ControlOK'
      BY <1>0, <2>1 DEF ControlOK, gate, Reply
    <3>2. GateAgrees'
      BY <1>0, <2>1 DEF GateAgrees, gate
    <3>3. QED
      BY <1>0, <2>1, <3>1, <3>2 DEF ControlOK
  <2>2. CASE /\ req.offset + req.count <= FileLength /\ req.count > 0
             /\ Arrive(r)
    BY <1>0, <2>2, ArriveKeepsGate
  <2>3. QED
    BY <2>1, <2>2 DEF Call
<1>5. ReadsConsistent'
  <2>1. ReadConsistent(r)'
    <3>1. copied'[r] = 0 /\ call'[r] = req
      BY <1>0, <1>2 DEF ReadsTyped
    <3>2. 0 <= req.count /\ 0..(0 - 1) = {}
      BY <1>0
    <3>3. QED
      BY <1>4, <3>1, <3>2 DEF ReadConsistent
  <2>2. ASSUME NEW q \in Readers, q # r
        PROVE  ReadConsistent(q)'
    <3>1. /\ call'[q] = call[q] /\ copied'[q] = copied[q]
          /\ dest'[q] = dest[q] /\ page'[q] = page[q]
      BY <1>0, <1>2, <2>2 DEF ReadsTyped
    <3>2. QED
      BY <1>0, <1>4, <2>2, <3>1, IdleReadKeeps DEF ReadsConsistent
  <2>3. QED
    BY <2>1, <2>2 DEF ReadsConsistent
<1>6. NeverShort'
  BY <1>0, <1>4 DEF NeverShort
<1>7. LoadsOnce'
  BY <1>0, <1>2, <1>4 DEF LoadsOnce, ReadsTyped, PageIndex, Position
<1>8. QED
  BY <1>1, <1>3, <1>4, <1>5, <1>6, <1>7, TypePartsPrime DEF IInv

LEMMA HitKeeps ==
  ASSUME IInv, NEW r \in Readers, Hit(r)
  PROVE  IInv'
<1>0. /\ ControlOK /\ GateAgrees /\ ListsAgree /\ PagesCorrect /\ PagesTyped /\ LoadsOnce
      /\ recency \in Seq(Page) /\ ReadsTyped /\ ReadsConsistent /\ NeverShort
      /\ pc[r] = "granted" /\ PageIndex(r) \in DOMAIN pagesByIndex
      /\ UNCHANGED <<pagesByIndex, life, call, copied, dest>>
  BY TypeParts DEF IInv, Hit
<1>1. PagesTyped' /\ PagesCorrect' /\ recency' \in Seq(Page) /\ ListsAgree'
  <2>1. PICK i \in 1..Len(recency) : recency' = MoveToFront(recency, i)
    BY DEF Hit
  <2>2. recency' \in Seq(Page) /\ ListsAgree'
    BY <1>0, <2>1, HitKeepsLists
  <2>3. QED
    BY <1>0, <2>2 DEF PagesTyped, PagesCorrect
<1>2. page' = [page EXCEPT ![r] = pagesByIndex[PageIndex(r)]]
  BY DEF Hit
<1>3. ReadsTyped'
  BY <1>0, <1>2 DEF ReadsTyped, PagesTyped
<1>4. /\ ControlOK' /\ GateAgrees'
      /\ \A q \in Readers \ {r} :
           /\ reply'[q] = reply[q]
           /\ pc'[q] = pc[q] \/ (pc[q] = "waiting" /\ pc'[q] = "granted")
      /\ \/ pc'[r] = "idle" /\ reply'[r] = "disposed"
         \/ pc'[r] = "copying" /\ reply'[r] = "none"
  BY <1>0, ReleaseKeepsGate DEF Hit, Reply
<1>5. ReadsConsistent'
  <2>1. ReadConsistent(r)'
    <3>1. page'[r] = LoadedPage(PageIndex(r))
      BY <1>0, <1>2 DEF ReadsTyped, PagesCorrect
    <3>2. ReadConsistent(r)
      BY <1>0 DEF ReadsConsistent
    <3>3. QED
      BY <1>0, <1>4, <3>1, <3>2 DEF ReadConsistent, PageIndex, Position
  <2>2. ASSUME NEW q \in Readers, q # r
        PROVE  ReadConsistent(q)'
    BY <1>0, <1>2, <1>4, <2>2, IdleReadKeeps DEF ReadsConsistent, ReadsTyped
  <2>3. QED
    BY <2>1, <2>2 DEF ReadsConsistent
<1>6. NeverShort'
  BY <1>0, <1>4 DEF NeverShort
<1>7. LoadsOnce'
  BY <1>0, <1>2, <1>4 DEF LoadsOnce, ReadsTyped, PageIndex, Position
<1>8. QED
  BY <1>1, <1>3, <1>4, <1>5, <1>6, <1>7, TypePartsPrime DEF IInv

LEMMA MissKeeps ==
  ASSUME IInv, NEW r \in Readers, Miss(r)
  PROVE  IInv'
<1>0. /\ ControlOK /\ GateAgrees /\ ListsAgree /\ PagesCorrect /\ PagesTyped /\ LoadsOnce
      /\ recency \in Seq(Page) /\ ReadsTyped /\ ReadsConsistent /\ NeverShort
      /\ pc[r] = "granted" /\ pc' = [pc EXCEPT ![r] = "loading"]
      /\ UNCHANGED <<pagesByIndex, recency, holder, queue, life>>
      /\ UNCHANGED <<call, copied, dest, page, reply>>
  BY TypeParts DEF IInv, Miss, cache, gate, reads
<1>1. ControlOK'
  BY <1>0 DEF ControlOK, PC
<1>2. GateAgrees'
  BY <1>0 DEF ControlOK, GateAgrees
<1>3. PagesTyped' /\ recency' \in Seq(Page) /\ ListsAgree' /\ PagesCorrect'
  BY <1>0 DEF PagesTyped, ListsAgree, PagesCorrect
<1>4. ReadsTyped' /\ NeverShort'
  BY <1>0 DEF ReadsTyped, NeverShort
<1>5. ASSUME NEW q \in Readers
      PROVE  ReadConsistent(q)'
  <2>1. ReadConsistent(q)
    BY <1>0 DEF ReadsConsistent
  <2>2. QED
    BY <1>0, <2>1 DEF ReadConsistent, ControlOK, PageIndex, Position
<1>6. LoadsOnce'
  BY <1>0 DEF Miss, LoadsOnce, ControlOK, PageIndex, Position
<1>7. QED
  BY <1>1, <1>2, <1>3, <1>4, <1>5, <1>6, TypePartsPrime DEF IInv, ReadsConsistent


LEMMA LoadedKeeps ==
  ASSUME IInv, NEW r \in Readers, Loaded(r)
  PROVE  IInv'
<1> DEFINE p == PageIndex(r)
<1>0. /\ TypeOK /\ ControlOK /\ GateAgrees /\ ListsAgree /\ PagesCorrect /\ PagesTyped
      /\ LoadsOnce /\ recency \in Seq(Page) /\ ReadsTyped /\ ReadsConsistent /\ NeverShort
      /\ pc[r] = "loading" /\ UNCHANGED <<life, call, copied, dest>>
      /\ page' = [page EXCEPT ![r] = LoadedPage(p)] /\ CacheWith(LoadedPage(p))
  BY TypeParts DEF IInv, Loaded
<1>1. ReadConsistent(r)
  BY <1>0 DEF ReadsConsistent
<1>2. /\ p \in Nat /\ p * PageSize < FileLength
      /\ LoadedPage(p) \in Page /\ LoadedPage(p).index = p
      /\ p \notin DOMAIN pagesByIndex
  BY <1>0, <1>1, PositionFacts, LoadedPageFacts DEF LoadsOnce
<1>3. /\ recency' \in Seq(Page) /\ ListsAgree' /\ PagesTyped'
      /\ \A k \in DOMAIN pagesByIndex' :
           \/ k = p /\ pagesByIndex'[k] = LoadedPage(p)
           \/ k \in DOMAIN pagesByIndex /\ pagesByIndex'[k] = pagesByIndex[k]
  BY <1>0, <1>2, CacheWithKeepsLists
<1>4. PagesCorrect'
  BY <1>0, <1>2, <1>3 DEF PagesCorrect
<1>5. ReadsTyped'
  BY <1>0, <1>2 DEF ReadsTyped
<1>6. /\ ControlOK' /\ GateAgrees'
      /\ \A q \in Readers \ {r} :
           /\ reply'[q] = reply[q]
           /\ pc'[q] = pc[q] \/ (pc[q] = "waiting" /\ pc'[q] = "granted")
      /\ \/ pc'[r] = "idle" /\ reply'[r] = "disposed"
         \/ pc'[r] = "copying" /\ reply'[r] = "none"
  BY <1>0, ReleaseKeepsGate DEF Loaded, Reply
<1>7. ReadsConsistent'
  <2>1. ReadConsistent(r)'
    <3>1. page'[r] = LoadedPage(p)
      BY <1>0, <1>2 DEF ReadsTyped
    <3>2. QED
      BY <1>0, <1>1, <1>6, <3>1 DEF ReadConsistent, PageIndex, Position
  <2>2. ASSUME NEW q \in Readers, q # r
        PROVE  ReadConsistent(q)'
    BY <1>0, <1>6, <2>2, IdleReadKeeps DEF ReadsConsistent, ReadsTyped
  <2>3. QED
    BY <2>1, <2>2 DEF ReadsConsistent
<1>8. NeverShort'
  BY <1>0, <1>6 DEF NeverShort
<1>9. LoadsOnce'
  <2>1. \A q \in Readers \ {r} : pc[q] # "loading"
    BY <1>0 DEF GateAgrees
  <2>2. QED
    BY <1>6, <2>1 DEF LoadsOnce
<1>10. QED
  BY <1>3, <1>4, <1>5, <1>6, <1>7, <1>8, <1>9, TypePartsPrime DEF IInv

LEMMA LoadFailedKeeps ==
  ASSUME IInv, NEW r \in Readers, NEW kind \in {"io", "cancelled"}, LoadFailed(r, kind)
  PROVE  IInv'
<1>0. /\ ControlOK /\ GateAgrees /\ ListsAgree /\ PagesCorrect /\ PagesTyped /\ LoadsOnce
      /\ recency \in Seq(Page) /\ ReadsTyped /\ ReadsConsistent /\ NeverShort
      /\ pc[r] = "loading" /\ Release(r, "idle", kind)
      /\ UNCHANGED <<pagesByIndex, recency, life, call, copied, dest, page>>
  BY TypeParts DEF IInv, LoadFailed, cache, reads
<1>1. PagesTyped' /\ recency' \in Seq(Page) /\ ListsAgree' /\ PagesCorrect' /\ ReadsTyped'
  BY <1>0 DEF PagesTyped, ListsAgree, PagesCorrect, ReadsTyped
<1>2. /\ ControlOK' /\ GateAgrees'
      /\ \A q \in Readers \ {r} :
           /\ reply'[q] = reply[q]
           /\ pc'[q] = pc[q] \/ (pc[q] = "waiting" /\ pc'[q] = "granted")
      /\ \/ pc'[r] = "idle" /\ reply'[r] = "disposed"
         \/ pc'[r] = "idle" /\ reply'[r] = kind
  BY <1>0, ReleaseKeepsGate DEF Reply
<1>3. ReadsConsistent'
  <2>1. ReadConsistent(r)'
    <3>1. ReadConsistent(r)
      BY <1>0 DEF ReadsConsistent
    <3>2. QED
      BY <1>0, <1>2, <3>1 DEF ReadConsistent
  <2>2. ASSUME NEW q \in Readers, q # r
        PROVE  ReadConsistent(q)'
    BY <1>0, <1>2, <2>2, IdleReadKeeps DEF ReadsConsistent
  <2>3. QED
    BY <2>1, <2>2 DEF ReadsConsistent
<1>4. NeverShort' /\ LoadsOnce'
  BY <1>0, <1>2 DEF NeverShort, LoadsOnce, PageIndex, Position
<1>5. QED
  BY <1>1, <1>2, <1>3, <1>4, TypePartsPrime DEF IInv

LEMMA CancelWaitKeeps ==
  ASSUME IInv, NEW r \in Readers, CancelWait(r)
  PROVE  IInv'
<1>0. /\ ControlOK /\ GateAgrees /\ ListsAgree /\ PagesCorrect /\ PagesTyped /\ LoadsOnce
      /\ recency \in Seq(Page) /\ ReadsTyped /\ ReadsConsistent /\ NeverShort
      /\ pc' = [pc EXCEPT ![r] = "idle"]
      /\ reply' = [reply EXCEPT ![r] = "cancelled"]
      /\ UNCHANGED <<pagesByIndex, recency, life, call, copied, dest, page>>
  BY TypeParts DEF IInv, CancelWait, cache, reads
<1>1. PagesTyped' /\ recency' \in Seq(Page) /\ ListsAgree' /\ PagesCorrect' /\ ReadsTyped'
  BY <1>0 DEF PagesTyped, ListsAgree, PagesCorrect, ReadsTyped
<1>2. ControlOK' /\ GateAgrees'
  BY <1>0, WithdrawKeepsGate DEF CancelWait
<1>3. ASSUME NEW q \in Readers
      PROVE  ReadConsistent(q)'
  <2>1. ReadConsistent(q)
    BY <1>0 DEF ReadsConsistent
  <2>2. QED
    BY <1>0, <2>1 DEF ReadConsistent, ControlOK, PageIndex, Position
<1>4. NeverShort' /\ LoadsOnce'
  BY <1>0 DEF NeverShort, LoadsOnce, ControlOK, PageIndex, Position
<1>5. QED
  BY <1>1, <1>2, <1>3, <1>4, TypePartsPrime DEF IInv, ReadsConsistent

LEMMA DisposeKeeps ==
  ASSUME IInv, Dispose
  PROVE  IInv'
<1>0. /\ ControlOK /\ GateAgrees /\ ListsAgree /\ PagesCorrect /\ PagesTyped /\ LoadsOnce
      /\ recency \in Seq(Page) /\ ReadsTyped /\ ReadsConsistent /\ NeverShort
      /\ UNCHANGED <<pagesByIndex, recency, call, copied, dest, page, reply, holder>>
  BY TypeParts DEF IInv, Dispose, DisposeInner, DisposeGate, ForgetWaiters, cache, reads, gate
<1>1. PagesTyped' /\ recency' \in Seq(Page) /\ ListsAgree' /\ PagesCorrect' /\ ReadsTyped'
  BY <1>0 DEF PagesTyped, ListsAgree, PagesCorrect, ReadsTyped
<1>2. /\ ControlOK' /\ GateAgrees'
      /\ \A q \in Readers : pc'[q] = pc[q] \/ (pc[q] = "waiting" /\ pc'[q] = "orphaned")
  <2>1. CASE DisposeInner
    BY <1>0, <2>1 DEF DisposeInner, ControlOK, GateAgrees, gate
  <2>2. CASE DisposeGate
    <3>1. /\ life' = "disposed" /\ queue' = <<>> /\ holder' = holder
          /\ pc' = [q \in Readers |-> IF pc[q] = "waiting" THEN "orphaned" ELSE pc[q]]
      BY <2>2 DEF DisposeGate, ForgetWaiters
    <3>2. ControlOK'
      BY <1>0, <3>1 DEF ControlOK, PC
    <3>3. GateAgrees'
      BY <1>0, <3>1 DEF GateAgrees
    <3>4. QED
      BY <3>1, <3>2, <3>3
  <2>3. QED
    BY <2>1, <2>2 DEF Dispose
<1>3. ASSUME NEW q \in Readers
      PROVE  ReadConsistent(q)'
  <2>1. ReadConsistent(q)
    BY <1>0 DEF ReadsConsistent
  <2>2. QED
    BY <1>0, <1>2, <2>1 DEF ReadConsistent, PageIndex, Position
<1>4. NeverShort' /\ LoadsOnce'
  BY <1>0, <1>2 DEF NeverShort, LoadsOnce, PageIndex, Position
<1>5. QED
  BY <1>1, <1>2, <1>3, <1>4, TypePartsPrime DEF IInv, ReadsConsistent

\* The copy stays inside the page and inside the destination.
LEMMA CopyKeeps ==
  ASSUME IInv, NEW r \in Readers, Copy(r)
  PROVE  IInv'
<1> DEFINE p == PageIndex(r)
           off == OffsetInPage(r)
           base == p * PageSize
           len == PageLength(p)
           start == call[r].offset
           count == call[r].count
           done == copied[r]
           n == MinOf(len - off, count - done)
           data == LoadedPage(p).data
           buffer == [i \in 0..(count - 1) |->
                        IF i \in done..(done + n - 1)
                        THEN data[off + i - done + 1] ELSE dest[r][i]]
<1>0. /\ TypeOK /\ ControlOK /\ GateAgrees /\ ListsAgree /\ PagesCorrect /\ PagesTyped
      /\ LoadsOnce /\ recency \in Seq(Page) /\ ReadsTyped /\ ReadsConsistent /\ NeverShort
      /\ pc[r] = "copying" /\ UNCHANGED <<pagesByIndex, recency, life, call, page>>
  BY TypeParts DEF IInv, Copy, cache
<1>1. ReadConsistent(r)
  BY <1>0 DEF ReadsConsistent
<1>2. /\ start \in Nat /\ count \in Nat /\ done \in Nat /\ done < count
      /\ start + count <= FileLength
      /\ page[r] = LoadedPage(p)
      /\ \A i \in 0..(done - 1) : dest[r][i] = Content[start + i]
      /\ dest[r] \in [0..(count - 1) -> Byte \cup {Blank}]
  BY <1>0, <1>1 DEF ReadsTyped, ReadConsistent
<1>3. /\ p \in Nat /\ base < FileLength
      /\ off \in Nat /\ off < len
      /\ start + done = base + off
  BY <1>0, <1>1, PositionFacts DEF Position
<1>4. /\ base \in Nat /\ len \in Nat /\ Len(data) = len
      /\ \A i \in 1..len : data[i] = Content[base + i - 1] /\ data[i] \in Byte
  BY <1>3, PageLengthFacts, LoadedPageFacts
<1>5. /\ dest' = [dest EXCEPT ![r] = buffer]
      /\ copied' = [copied EXCEPT ![r] = done + n]
      /\ \/ done + n < count /\ Arrive(r)
         \/ /\ done + n >= count
            /\ pc' = [pc EXCEPT ![r] = "idle"]
            /\ reply' = [reply EXCEPT ![r] = "ok"]
            /\ UNCHANGED gate
  <2>1. Len(page[r].data) - OffsetInPage(r) = len - off /\ ~(len - off <= 0)
    BY <1>2, <1>3, <1>4
  <2>2. page[r].data = data
    BY <1>2
  <2> HIDE DEF data, len, off, p
  <2>3. QED
    BY <2>1, <2>2 DEF Copy, off
<1> HIDE DEF p, off, base, len, start, count, done, data
<1>6. n \in Nat \ {0} /\ n <= len - off /\ done + n <= count
  <2>1. len - off \in Nat \ {0} /\ count - done \in Nat \ {0}
    BY <1>2, <1>3, <1>4
  <2>2. n = IF len - off < count - done THEN len - off ELSE count - done
    BY DEF MinOf
  <2> HIDE DEF n
  <2>3. n \in Nat \ {0} /\ n <= len - off /\ n <= count - done
    BY <2>1, <2>2
  <2>4. QED
    BY <1>2, <2>3
<1> HIDE DEF n
<1>7. ASSUME NEW i \in done..(done + n - 1)
      PROVE  data[off + i - done + 1] = Content[start + i] /\ data[off + i - done + 1] \in Byte
  <2>1. /\ off + i - done + 1 \in 1..len
        /\ base + (off + i - done + 1) - 1 = start + i
    BY <1>2, <1>3, <1>4, <1>6
  <2>2. QED
    BY <1>4, <2>1
<1>8. buffer \in [0..(count - 1) -> Byte \cup {Blank}]
  BY <1>2, <1>7
<1>9. ASSUME NEW i \in 0..(done + n - 1)
      PROVE  buffer[i] = Content[start + i]
  <2>1. i \in 0..(count - 1)
    BY <1>2, <1>6
  <2>2. CASE i \in done..(done + n - 1)
    BY <1>7, <2>1, <2>2
  <2>3. CASE i \notin done..(done + n - 1)
    <3>1. i \in 0..(done - 1)
      BY <1>2, <1>6, <2>3
    <3>2. QED
      BY <1>2, <2>1, <2>3, <3>1
  <2>4. QED
    BY <2>2, <2>3
<1> HIDE DEF buffer
<1>10. /\ ControlOK' /\ GateAgrees'
       /\ \A q \in Readers \ {r} : pc'[q] = pc[q] /\ reply'[q] = reply[q]
       /\ \/ pc'[r] = "idle" /\ reply'[r] \in {"disposed", "cancelled"}
          \/ pc'[r] = "idle" /\ reply'[r] = "ok" /\ done + n = count
          \/ /\ pc'[r] \in {"granted", "waiting"} /\ reply'[r] = "none"
             /\ done + n < count
  <2>1. CASE done + n < count /\ Arrive(r)
    BY <1>0, <2>1, ArriveKeepsGate
  <2>2. CASE /\ done + n >= count
             /\ pc' = [pc EXCEPT ![r] = "idle"]
             /\ reply' = [reply EXCEPT ![r] = "ok"]
             /\ UNCHANGED gate
    <3>1. ControlOK'
      BY <1>0, <2>2 DEF ControlOK, gate, PC, Reply
    <3>2. GateAgrees'
      BY <1>0, <2>2 DEF ControlOK, GateAgrees, gate
    <3>3. done + n = count
      <4>1. done \in Nat /\ n \in Nat /\ count \in Nat /\ done + n <= count
        BY <1>2, <1>6
      <4>2. QED
        BY <2>2, <4>1
    <3>4. QED
      BY <1>0, <2>2, <3>1, <3>2, <3>3 DEF ControlOK
  <2>3. QED
    BY <1>5, <2>1, <2>2
<1>11. /\ copied'[r] = done + n /\ dest'[r] = buffer
       /\ \A q \in Readers \ {r} : copied'[q] = copied[q] /\ dest'[q] = dest[q]
  BY <1>0, <1>5 DEF ReadsTyped
<1>12. ReadsTyped'
  <2>1. copied' \in [Readers -> Nat] /\ DOMAIN dest' = Readers
    BY <1>0, <1>2, <1>5, <1>6 DEF ReadsTyped
  <2>2. ASSUME NEW q \in Readers
        PROVE  dest'[q] \in [0..(call[q].count - 1) -> Byte \cup {Blank}]
    <3>1. CASE q = r
      BY <1>8, <1>11, <3>1 DEF count
    <3>2. CASE q # r
      BY <1>0, <1>11, <3>2 DEF ReadsTyped
    <3>3. QED
      BY <3>1, <3>2
  <2>3. QED
    BY <1>0, <2>1, <2>2 DEF ReadsTyped
<1>13. PagesTyped' /\ recency' \in Seq(Page) /\ ListsAgree' /\ PagesCorrect'
  BY <1>0 DEF PagesTyped, ListsAgree, PagesCorrect
<1>14. ReadsConsistent'
  <2>1. ReadConsistent(r)'
    <3>1. \A i \in 0..(copied'[r] - 1) : dest'[r][i] = Content[start + i]
      <4>1. \A i \in 0..(done + n - 1) : buffer[i] = Content[start + i]
        BY <1>9
      <4>2. /\ copied'[r] = done + n /\ dest'[r] = buffer
            /\ done \in Nat /\ n \in Nat
        BY <1>2, <1>6, <1>11
      <4>3. QED
        BY <4>1, <4>2
    <3>2. call'[r].offset = start /\ call'[r].count = count
      BY <1>0 DEF start, count
    <3>3. QED
      BY <1>2, <1>6, <1>10, <1>11, <3>1, <3>2 DEF ReadConsistent
  <2>2. ASSUME NEW q \in Readers, q # r
        PROVE  ReadConsistent(q)'
    BY <1>0, <1>10, <1>11, <2>2, IdleReadKeeps DEF ReadsConsistent
  <2>3. QED
    BY <2>1, <2>2 DEF ReadsConsistent
<1>15. NeverShort'
  BY <1>0, <1>10 DEF NeverShort
<1>16. LoadsOnce'
  BY <1>0, <1>10, <1>11 DEF LoadsOnce, PageIndex, Position
<1>17. QED
  BY <1>10, <1>12, <1>13, <1>14, <1>15, <1>16, TypePartsPrime DEF IInv

\* Every step of the cache keeps the invariant.
LEMMA StepKeeps == IInv /\ [Next]_vars => IInv'
<1> SUFFICES ASSUME IInv, [Next]_vars PROVE IInv'
  OBVIOUS
<1>1. ASSUME NEW r \in Readers, Advance(r) PROVE IInv'
  BY <1>1, HitKeeps, MissKeeps, LoadedKeeps, LoadFailedKeeps, CopyKeeps DEF Advance, LoadEnds
<1>2. ASSUME NEW r \in Readers, Read(r) PROVE IInv'
  BY <1>1, <1>2, CallKeeps, CancelWaitKeeps DEF Read
<1>3. CASE UNCHANGED vars
  <2>1. /\ TypeOK /\ GateAgrees /\ ListsAgree /\ PagesCorrect /\ LoadsOnce
        /\ NeverShort /\ \A r \in Readers : ReadConsistent(r)
    BY DEF IInv, ReadsConsistent
  <2>2. TypeOK' /\ GateAgrees' /\ ListsAgree' /\ PagesCorrect' /\ NeverShort'
    BY <1>3, <2>1 DEF vars, cache, gate, reads, TypeOK, GateAgrees, ListsAgree, PagesCorrect, NeverShort
  <2>3. LoadsOnce' /\ \A r \in Readers : ReadConsistent(r)'
    BY <1>3, <2>1 DEF vars, cache, reads, LoadsOnce, ReadConsistent, PageIndex, Position
  <2>4. QED
    BY <2>2, <2>3 DEF IInv, ReadsConsistent
<1>4. QED
  BY <1>2, <1>3, DisposeKeeps DEF Next

-----------------------------------------------------------------------------
(* The theorems                                                            *)

\* The invariant holds in every reachable state, whatever the file, the page and
\* cache sizes, the requests and the number of readers.
THEOREM InvariantHolds == Spec => []IInv
  BY InitOK, StepKeeps, PTL DEF Spec

\* Every field and local has its type (CachingDataSource).
THEOREM TypeCorrect == Spec => []TypeOK
<1>1. IInv => TypeOK
  BY DEF IInv
<1>2. QED
  BY <1>1, InvariantHolds, PTL

\* The gate is held by exactly one read at a time and never lost
\* (GetPageAsync's WaitAsync, finally and Release; DisposeAsync).
THEOREM GateCorrect == Spec => []GateAgrees
<1>1. IInv => GateAgrees
  BY DEF IInv
<1>2. QED
  BY <1>1, InvariantHolds, PTL

\* The dictionary and the recency list agree and stay inside maxPages
\* (GetPageAsync's insertion and eviction).
THEOREM ListsCorrect == Spec => []ListsAgree
<1>1. IInv => ListsAgree
  BY DEF IInv
<1>2. QED
  BY <1>1, InvariantHolds, PTL

\* No page is fetched while it is cached (GetPageAsync loads under the gate).
THEOREM LoadsAreNeeded == Spec => []LoadsOnce
<1>1. IInv => LoadsOnce
  BY DEF IInv
<1>2. QED
  BY <1>1, InvariantHolds, PTL

\* The short-page error of ReadExactlyAsync cannot happen.
THEOREM ShortNeverReported == Spec => []NeverShort
<1>1. IInv => NeverShort
  BY DEF IInv
<1>2. QED
  BY <1>1, InvariantHolds, PTL

\* A read that succeeds has filled its buffer with exactly the bytes of its range
\* (ReadExactlyAsync), whatever the other reads do to the cache meanwhile.
THEOREM ReadsAreExact == Spec => []ExactRead
<1>1. ASSUME IInv, NEW r \in Readers, reply[r] = "ok"
      PROVE  dest[r] = [i \in 0..(call[r].count - 1) |-> Content[call[r].offset + i]]
  <2>1. /\ copied[r] = call[r].count
        /\ \A i \in 0..(copied[r] - 1) : dest[r][i] = Content[call[r].offset + i]
    BY <1>1 DEF IInv, ReadsConsistent, ReadConsistent
  <2>2. dest[r] \in [0..(call[r].count - 1) -> Byte \cup {Blank}]
    BY <1>1 DEF IInv, TypeOK
  <2>3. QED
    BY <2>1, <2>2
<1>2. IInv => ExactRead
  BY <1>1 DEF ExactRead
<1>3. QED
  BY <1>2, InvariantHolds, PTL

-----------------------------------------------------------------------------
(* CachingDataSource is itself an IDataSource: PageCache implements         *)
(* DataSource, for every value of the constants.                            *)

\* What a caller sees of its last read.
ReplyOf(r) ==
  [kind  |-> reply[r],
   bytes |-> IF reply[r] = "ok" THEN dest[r] ELSE [i \in {} |-> i]]

SeenReplies == [r \in Readers |-> ReplyOf(r)]

UnderWay == {r \in Readers : pc[r] # "idle"}

\* The others' reads are as they were: at most one of them was handed the gate.
OthersStay(r) ==
  \A q \in Readers \ {r} :
    /\ reply'[q] = reply[q]
    /\ pc'[q] = pc[q] \/ (pc[q] \in {"waiting", "granted"} /\ pc'[q] \in {"granted", "loading"})
    /\ dest'[q] = dest[q]

\* A step in which nobody's read ends changes nothing a caller sees.
LEMMA SilentStep ==
  ASSUME UNCHANGED call,
         \A q \in Readers : /\ reply'[q] = reply[q]
                            /\ reply[q] = "ok" => dest'[q] = dest[q]
                            /\ pc'[q] = "idle" <=> pc[q] = "idle"
  PROVE  UNCHANGED Source!vars
<1>1. SeenReplies' = SeenReplies
  BY DEF SeenReplies, ReplyOf
<1>2. UnderWay' = UnderWay
  BY DEF UnderWay
<1>3. QED
  BY <1>1, <1>2 DEF Source!vars, SeenReplies, ReplyOf, UnderWay

\* Only r's reply changes.
LEMMA OneReply ==
  ASSUME NEW r \in Readers, OthersStay(r)
  PROVE  SeenReplies' = [SeenReplies EXCEPT ![r] = ReplyOf(r)']
  BY DEF SeenReplies, ReplyOf, OthersStay

\* A step that ends r's read, with a reply an IDataSource may give, is an answer.
LEMMA AnswerStep ==
  ASSUME NEW r \in Readers, OthersStay(r), UNCHANGED call,
         pc[r] # "idle", pc'[r] = "idle",
         call[r].offset + call[r].count <= FileLength,
         \/ reply'[r] \in {"io", "cancelled", "disposed"}
         \/ /\ reply'[r] = "ok"
            /\ dest'[r] = [i \in 0..(call[r].count - 1) |-> Content[call[r].offset + i]]
  PROVE  Source!Next
<1>1. UnderWay' = UnderWay \ {r}
  BY DEF UnderWay, OthersStay
<1>2. ReplyOf(r)' \in Source!Replies(call[r])
  BY DEF ReplyOf, Source!Replies, Source!InRange, Source!BytesOf, Source!Failed,
         Source!NoBytes, Source!Failures
<1>3. Source!Answer(r)
  BY <1>1, <1>2, OneReply DEF Source!Answer, UnderWay, SeenReplies, ReplyOf
<1>4. QED
  BY <1>3 DEF Source!Next

LEMMA InitMaps == Init => Source!Init
<1> SUFFICES ASSUME Init PROVE Source!Init
  OBVIOUS
<1>1. UnderWay = {}
  BY DEF Init, UnderWay
<1>2. SeenReplies = [r \in Readers |-> Source!Nothing]
  BY DEF Init, SeenReplies, ReplyOf, Source!Nothing, Source!Failed, Source!NoBytes
<1>3. QED
  BY <1>1, <1>2 DEF Init, Source!Init, UnderWay, SeenReplies, ReplyOf

LEMMA CallMaps ==
  ASSUME IInv, NEW r \in Readers, NEW req \in Requests, Call(r, req)
  PROVE  Source!Next
<1>0. /\ ControlOK /\ GateAgrees /\ ReadsTyped
      /\ req \in [offset : Nat, count : Nat]
      /\ pc[r] = "idle" /\ UNCHANGED life
      /\ call' = [call EXCEPT ![r] = req]
      /\ dest' = [dest EXCEPT ![r] = [i \in 0..(req.count - 1) |-> Blank]]
  BY TypeParts, CacheAssumption DEF IInv, Call
<1>1. /\ \A q \in Readers \ {r} : pc'[q] = pc[q] /\ reply'[q] = reply[q]
      /\ \/ /\ pc'[r] = "idle" /\ reply'[r] = "range"
            /\ req.offset + req.count > FileLength
         \/ /\ pc'[r] = "idle" /\ reply'[r] = "ok" /\ req.count = 0
            /\ req.offset + req.count <= FileLength
         \/ /\ pc'[r] = "idle" /\ reply'[r] \in {"disposed", "cancelled"}
            /\ req.offset + req.count <= FileLength
         \/ pc'[r] \in {"granted", "waiting"} /\ reply'[r] = "none"
  <2>1. CASE /\ UNCHANGED pc
             /\ \/ /\ reply' = [reply EXCEPT ![r] = "range"]
                   /\ req.offset + req.count > FileLength
                \/ /\ reply' = [reply EXCEPT ![r] = "ok"]
                   /\ req.count = 0 /\ req.offset + req.count <= FileLength
    BY <1>0, <2>1 DEF ControlOK
  <2>2. CASE /\ req.offset + req.count <= FileLength /\ req.count > 0
             /\ Arrive(r)
    BY <1>0, <2>2, ArriveKeepsGate
  <2>3. QED
    BY <2>1, <2>2 DEF Call
<1>2. OthersStay(r) /\ dest'[r] = [i \in 0..(req.count - 1) |-> Blank]
  BY <1>0, <1>1 DEF OthersStay, ReadsTyped
<1>3. r \notin UnderWay
  BY <1>0 DEF UnderWay
<1>4. SeenReplies' = [SeenReplies EXCEPT ![r] = ReplyOf(r)']
  BY <1>2, OneReply
<1>5. CASE pc'[r] \in {"granted", "waiting"} /\ reply'[r] = "none"
  <2>1. UnderWay' = UnderWay \cup {r}
    BY <1>1, <1>5 DEF UnderWay
  <2>2. ReplyOf(r)' = Source!Nothing
    BY <1>5 DEF ReplyOf, Source!Nothing, Source!Failed, Source!NoBytes
  <2>3. Source!Ask(r, req)
    BY <1>0, <1>3, <1>4, <2>1, <2>2 DEF Source!Ask, UnderWay, SeenReplies, ReplyOf
  <2>4. QED
    BY <2>3 DEF Source!Next
<1>6. CASE pc'[r] = "idle"
  <2>1. UnderWay' = UnderWay
    BY <1>0, <1>1, <1>6 DEF UnderWay
  <2>2. ReplyOf(r)' \in Source!Replies(req)
    <3>1. CASE reply'[r] = "range" /\ req.offset + req.count > FileLength
      <4>1. ~(req.offset + req.count <= FileLength)
        BY <1>0, <3>1, CacheAssumption
      <4>2. QED
        BY <3>1, <4>1 DEF ReplyOf, Source!Replies, Source!InRange, Source!Failed, Source!NoBytes
    <3>2. CASE reply'[r] = "ok" /\ req.count = 0 /\ req.offset + req.count <= FileLength
      <4>1. 0..(req.count - 1) = {}
        BY <3>2
      <4>2. dest'[r] = [i \in 0..(req.count - 1) |-> Content[req.offset + i]]
        BY <1>2, <4>1
      <4>3. QED
        BY <3>2, <4>2 DEF ReplyOf, Source!Replies, Source!InRange, Source!BytesOf
    <3>3. CASE /\ reply'[r] \in {"disposed", "cancelled"}
               /\ req.offset + req.count <= FileLength
      BY <3>3 DEF ReplyOf, Source!Replies, Source!InRange, Source!Failed,
                  Source!NoBytes, Source!Failures
    <3>4. QED
      BY <1>1, <1>6, <3>1, <3>2, <3>3
  <2>3. Source!Ask(r, req)
    BY <1>0, <1>3, <1>4, <2>1, <2>2 DEF Source!Ask, UnderWay, SeenReplies, ReplyOf
  <2>4. QED
    BY <2>3 DEF Source!Next
<1>7. QED
  BY <1>1, <1>5, <1>6

\* A step that releases the gate either lets its read go on, unseen, or ends it.
LEMMA ReleaseMaps ==
  ASSUME IInv, NEW r \in Readers, pc[r] \in {"granted", "loading"},
         NEW then \in {"copying", "idle"}, NEW ans \in Reply,
         then = "copying" => ans = "none",
         then = "idle" => ans \in {"io", "cancelled"},
         Release(r, then, ans), UNCHANGED <<life, call, dest>>
  PROVE  Source!Next \/ UNCHANGED Source!vars
<1>0. ControlOK /\ GateAgrees /\ ReadsTyped /\ ReadsConsistent
  BY TypeParts DEF IInv
<1>1. /\ \A q \in Readers \ {r} :
           /\ reply'[q] = reply[q]
           /\ pc'[q] = pc[q] \/ (pc[q] = "waiting" /\ pc'[q] = "granted")
      /\ \/ pc'[r] = "idle" /\ reply'[r] = "disposed"
         \/ pc'[r] = then /\ reply'[r] = ans
  BY <1>0, ReleaseKeepsGate
<1>2. reply[r] = "none" /\ call[r].offset + call[r].count <= FileLength
  BY <1>0 DEF ReadsConsistent, ReadConsistent
<1>3. CASE pc'[r] = "copying"
  <2>1. reply'[r] = "none"
    BY <1>1, <1>3
  <2>2. UNCHANGED Source!vars
    BY <1>1, <1>2, <1>3, <2>1, SilentStep
  <2>3. QED
    BY <2>2
<1>4. CASE pc'[r] = "idle"
  <2>1. reply'[r] \in {"io", "cancelled", "disposed"}
    BY <1>1, <1>4
  <2>2. OthersStay(r)
    BY <1>1 DEF OthersStay
  <2>3. QED
    BY <1>2, <1>4, <2>1, <2>2, AnswerStep
<1>5. QED
  BY <1>1, <1>3, <1>4

LEMMA CopyMaps ==
  ASSUME IInv, IInv', NEW r \in Readers, Copy(r)
  PROVE  Source!Next \/ UNCHANGED Source!vars
<1>0. /\ ControlOK /\ GateAgrees /\ ReadsTyped /\ ReadsConsistent
      /\ pc[r] = "copying" /\ UNCHANGED <<life, call>>
  BY TypeParts DEF IInv, Copy
<1>1. reply[r] = "none" /\ call[r].offset + call[r].count <= FileLength
  BY <1>0 DEF ReadsConsistent, ReadConsistent
<1>2. /\ \A q \in Readers \ {r} : pc'[q] = pc[q] /\ reply'[q] = reply[q]
      /\ \/ pc'[r] = "idle" /\ reply'[r] \in {"ok", "disposed", "cancelled"}
         \/ pc'[r] \in {"granted", "waiting"} /\ reply'[r] = "none"
  <2>1. CASE Arrive(r)
    BY <1>0, <2>1, ArriveKeepsGate
  <2>2. CASE pc' = [pc EXCEPT ![r] = "idle"] /\ reply' = [reply EXCEPT ![r] = "ok"]
    BY <1>0, <2>2 DEF ControlOK
  <2>3. CASE reply' = [reply EXCEPT ![r] = "short"]
    <3>1. reply'[r] = "short"
      BY <1>0, <2>3 DEF ControlOK
    <3>2. QED
      BY <3>1 DEF IInv, NeverShort
  <2>4. QED
    BY <2>1, <2>2, <2>3 DEF Copy
<1>3. \A q \in Readers \ {r} : dest'[q] = dest[q]
  BY <1>0 DEF Copy, ReadsTyped
<1>4. OthersStay(r)
  BY <1>2, <1>3 DEF OthersStay
<1>5. CASE pc'[r] # "idle"
  <2>1. \A q \in Readers : /\ reply'[q] = reply[q]
                           /\ reply[q] = "ok" => dest'[q] = dest[q]
                           /\ pc'[q] = "idle" <=> pc[q] = "idle"
    BY <1>0, <1>1, <1>2, <1>3, <1>5
  <2>2. QED
    BY <1>0, <2>1, SilentStep
<1>6. CASE pc'[r] = "idle" /\ reply'[r] = "ok"
  <2>1. /\ copied'[r] = call'[r].count
        /\ \A i \in 0..(copied'[r] - 1) : dest'[r][i] = Content[call'[r].offset + i]
        /\ dest'[r] \in [0..(call'[r].count - 1) -> Byte \cup {Blank}]
    BY <1>6 DEF IInv, ReadsConsistent, ReadConsistent, TypeOK
  <2>2. dest'[r] = [i \in 0..(call[r].count - 1) |-> Content[call[r].offset + i]]
    BY <1>0, <2>1
  <2>3. QED
    BY <1>0, <1>1, <1>4, <1>6, <2>2, AnswerStep
<1>7. CASE pc'[r] = "idle" /\ reply'[r] \in {"disposed", "cancelled"}
  BY <1>0, <1>1, <1>4, <1>7, AnswerStep
<1>8. QED
  BY <1>2, <1>5, <1>6, <1>7

\* Every step of the cache is a step of the abstract source, or invisible.
LEMMA StepMaps == IInv /\ IInv' /\ [Next]_vars => [Source!Next]_(Source!vars)
<1> SUFFICES ASSUME IInv, IInv', [Next]_vars
             PROVE  Source!Next \/ UNCHANGED Source!vars
  OBVIOUS
<1>1. ASSUME NEW r \in Readers, Hit(r) PROVE Source!Next \/ UNCHANGED Source!vars
  BY <1>1, ReleaseMaps DEF Hit, Reply
<1>2. ASSUME NEW r \in Readers, Miss(r) PROVE Source!Next \/ UNCHANGED Source!vars
  <2>1. pc \in [Readers -> PC]
    BY DEF IInv, TypeOK
  <2>2. QED
    BY <1>2, <2>1, SilentStep DEF Miss, reads
<1>3. ASSUME NEW r \in Readers, LoadEnds(r) PROVE Source!Next \/ UNCHANGED Source!vars
  BY <1>3, ReleaseMaps DEF LoadEnds, Loaded, LoadFailed, reads, Reply
<1>4. ASSUME NEW r \in Readers, CancelWait(r) PROVE Source!Next \/ UNCHANGED Source!vars
  <2>1. pc \in [Readers -> PC] /\ reply \in [Readers -> Reply]
    BY DEF IInv, TypeOK
  <2>2. OthersStay(r) /\ pc'[r] = "idle" /\ reply'[r] = "cancelled" /\ UNCHANGED call
    BY <1>4, <2>1 DEF CancelWait, OthersStay, reads
  <2>3. pc[r] # "idle" /\ call[r].offset + call[r].count <= FileLength
    BY <1>4 DEF CancelWait, IInv, ReadsConsistent, ReadConsistent
  <2>4. QED
    BY <2>2, <2>3, AnswerStep
<1>5. CASE Dispose
  <2>1. pc \in [Readers -> PC]
    BY DEF IInv, TypeOK
  <2>2. QED
    BY <1>5, <2>1, SilentStep DEF Dispose, DisposeInner, DisposeGate, reads
<1>6. CASE UNCHANGED vars
  BY <1>6, SilentStep DEF vars, reads
<1>7. QED
  BY <1>1, <1>2, <1>3, <1>4, <1>5, <1>6, CallMaps, CopyMaps DEF Next, Read, Advance

\* CachingDataSource keeps the IDataSource contract over its inner source: every
\* behaviour of the cache is, to its callers, a behaviour of a plain source of the
\* same bytes (README: the cache is transparent to PluginFile and PluginParser).
THEOREM CacheIsASource == Spec => ImplementsSource
<1>1. Spec => []IInv
  BY InvariantHolds
<1>2. Spec => Source!Spec
  BY <1>1, InitMaps, StepMaps, PTL DEF Spec, Source!Spec
<1>3. QED
  BY <1>2 DEF ImplementsSource

-----------------------------------------------------------------------------
(* Least recently used                                                     *)

Once(s) == \A i, j \in 1..Len(s) : s[i] = s[j] => i = j

\* HoldsMostRecent, page by page.
Recent(pages, uses) ==
  /\ Len(pages) = MinOf(MaxPages, Len(uses))
  /\ \A i \in 1..Len(pages) : pages[i].index = uses[i]

LEMMA RecentIsPointwise ==
  ASSUME NEW pages \in Seq(Page), NEW uses \in Seq(Nat)
  PROVE  Recent(pages, uses) <=>
           [i \in 1..Len(pages) |-> pages[i].index] = SubSeq(uses, 1, MinOf(MaxPages, Len(uses)))
<1> DEFINE k == MinOf(MaxPages, Len(uses))
           front == SubSeq(uses, 1, k)
           indices == [i \in 1..Len(pages) |-> pages[i].index]
<1>1. Len(pages) \in Nat /\ Len(uses) \in Nat /\ MaxPages \in Nat \ {0}
  BY CacheAssumption
<1>2. k \in Nat /\ k <= Len(uses)
  BY <1>1 DEF MinOf
<1> HIDE DEF k
<1>3. \A i \in 1..k : uses[i] \in Nat
  BY <1>1, <1>2
<1>4. front = [i \in 1..k |-> uses[i]]
  BY <1>1, <1>2
<1> HIDE DEF front
<1>5. DOMAIN indices = 1..Len(pages) /\ DOMAIN front = 1..k
  BY <1>4
<1>6. 1..Len(pages) = 1..k => Len(pages) = k
  BY <1>1, <1>2
<1>7. indices = front <=> Len(pages) = k /\ \A i \in 1..Len(pages) : pages[i].index = uses[i]
  <2>1. ASSUME indices = front
        PROVE  Len(pages) = k /\ \A i \in 1..Len(pages) : pages[i].index = uses[i]
    <3>1. Len(pages) = k
      BY <1>5, <1>6, <2>1
    <3>2. \A i \in 1..Len(pages) : indices[i] = pages[i].index /\ front[i] = uses[i]
      BY <1>4, <3>1
    <3>3. QED
      BY <2>1, <3>1, <3>2
  <2>2. ASSUME Len(pages) = k, \A i \in 1..Len(pages) : pages[i].index = uses[i]
        PROVE  indices = front
    BY <1>4, <2>2
  <2>3. QED
    BY <2>1, <2>2
<1>8. QED
  BY <1>7 DEF Recent, k, front, indices

\* Counting the use of a page leaves it in the history once.
LEMMA UseFacts ==
  ASSUME NEW uses \in Seq(Nat), Once(uses), NEW p \in Nat
  PROVE  LET rest == RemoveFirst(uses, p) IN
         /\ rest \in Seq(Nat)
         /\ \/ rest = uses /\ ~ Contains(uses, p)
            \/ \E i \in 1..Len(uses) : uses[i] = p /\ rest = RemoveAt(uses, i)
         /\ Cons(p, rest) \in Seq(Nat) /\ Once(Cons(p, rest))
<1> DEFINE rest == RemoveFirst(uses, p)
<1>1. rest \in Seq(Nat) /\ Once(rest) /\ ~ Contains(rest, p)
      /\ \/ rest = uses /\ ~ Contains(uses, p)
         \/ \E i \in 1..Len(uses) : uses[i] = p /\ rest = RemoveAt(uses, i)
  <2>1. CASE ~ Contains(uses, p)
    <3>1. rest = uses
      BY <2>1 DEF RemoveFirst, Contains
    <3>2. QED
      BY <2>1, <3>1
  <2>2. CASE Contains(uses, p)
    <3>1. PICK i \in 1..Len(uses) : uses[i] = p /\ rest = RemoveAt(uses, i)
      BY <2>2, RemoveFirstFacts
    <3>2. /\ RemoveAt(uses, i) \in Seq(Nat) /\ Once(RemoveAt(uses, i))
          /\ ~ Contains(RemoveAt(uses, i), uses[i])
      BY RemoveOnceFacts DEF Once
    <3>3. QED
      BY <3>1, <3>2
  <2>3. QED
    BY <2>1, <2>2
<1> HIDE DEF rest
<1>2. /\ Cons(p, rest) \in Seq(Nat) /\ Len(Cons(p, rest)) = Len(rest) + 1
      /\ Cons(p, rest)[1] = p
      /\ \A j \in 2..(Len(rest) + 1) : Cons(p, rest)[j] = rest[j - 1]
  BY <1>1, ConsFacts
<1>3. \A j \in 1..Len(rest) : rest[j] # p
  BY <1>1 DEF Contains
<1>4. Len(rest) \in Nat
  BY <1>1
<1>5. \A j \in 1..(Len(rest) + 1) : j = 1 \/ (j \in 2..(Len(rest) + 1) /\ j - 1 \in 1..Len(rest))
  BY <1>4
<1>6. ASSUME NEW i \in 1..(Len(rest) + 1), NEW j \in 1..(Len(rest) + 1), Cons(p, rest)[i] = Cons(p, rest)[j]
      PROVE  i = j
  <2>1. CASE i = 1 /\ j # 1
    BY <1>2, <1>3, <1>5, <1>6, <2>1
  <2>2. CASE i # 1 /\ j = 1
    BY <1>2, <1>3, <1>5, <1>6, <2>2
  <2>3. CASE i # 1 /\ j # 1
    <3>1. i - 1 \in 1..Len(rest) /\ j - 1 \in 1..Len(rest) /\ rest[i - 1] = rest[j - 1]
      BY <1>2, <1>5, <1>6, <2>3
    <3>2. i - 1 = j - 1
      BY <1>1, <3>1 DEF Once
    <3>3. QED
      BY <3>2
  <2>4. QED
    BY <2>1, <2>2, <2>3
<1>7. QED
  BY <1>1, <1>2, <1>6 DEF Once, rest

LEMMA ConsUse ==
  ASSUME NEW uses \in Seq(Nat), NEW p \in Nat
  PROVE  /\ Len(Cons(p, uses)) = Len(uses) + 1
         /\ Cons(p, uses)[1] = p
         /\ \A j \in 2..(Len(uses) + 1) : Cons(p, uses)[j] = uses[j - 1]
<1> DEFINE N == Nat
<1>1. uses \in Seq(N) /\ p \in N
  OBVIOUS
<1> HIDE DEF N
<1>2. QED
  BY <1>1, ConsFacts

\* A page that is cached moves to the front of both lists.
LEMMA UseCached ==
  ASSUME NEW pages \in Seq(Page), NEW uses \in Seq(Nat), Once(uses), Recent(pages, uses),
         NEW i \in 1..Len(pages), NEW p, p = pages[i].index
  PROVE  Recent(MoveToFront(pages, i), Cons(p, RemoveFirst(uses, p)))
<1> DEFINE m == MoveToFront(pages, i)
           u == Cons(uses[i], RemoveAt(uses, i))
<1>1. /\ Len(pages) \in Nat /\ Len(uses) \in Nat /\ MaxPages \in Nat \ {0}
      /\ Len(pages) = IF MaxPages < Len(uses) THEN MaxPages ELSE Len(uses)
      /\ \A j \in 1..Len(pages) : pages[j].index = uses[j]
  BY CacheAssumption DEF Recent, MinOf
<1>2. i \in 1..Len(uses) /\ uses[i] = p /\ p \in Nat
  BY <1>1
<1>3. RemoveFirst(uses, p) = RemoveAt(uses, i)
  <2>1. Contains(uses, p)
    BY <1>2 DEF Contains
  <2>2. PICK k \in 1..Len(uses) : uses[k] = p /\ RemoveFirst(uses, p) = RemoveAt(uses, k)
    BY <2>1, RemoveFirstFacts
  <2>3. k = i
    BY <1>2, <2>2 DEF Once
  <2>4. QED
    BY <2>2, <2>3
<1>4. /\ Len(m) = Len(pages) /\ m[1] = pages[i]
      /\ \A j \in 2..Len(pages) : m[j] = IF j <= i THEN pages[j - 1] ELSE pages[j]
  BY MoveToFrontFacts DEF MoveToFront
<1>5. /\ Len(u) = Len(uses) /\ u[1] = uses[i]
      /\ \A j \in 2..Len(uses) : u[j] = IF j <= i THEN uses[j - 1] ELSE uses[j]
  BY <1>2, MoveToFrontFacts
<1> HIDE DEF m, u
<1>6. ASSUME NEW j \in 1..Len(pages)
      PROVE  m[j].index = u[j]
  <2>1. CASE j = 1
    BY <1>1, <1>4, <1>5, <2>1
  <2>2. CASE j # 1
    <3>1. j \in 2..Len(pages) /\ j \in 2..Len(uses) /\ j - 1 \in 1..Len(pages)
      BY <1>1, <2>2
    <3>2. pages[j].index = uses[j] /\ pages[j - 1].index = uses[j - 1]
      BY <1>1, <3>1
    <3>3. QED
      BY <1>4, <1>5, <3>1, <3>2
  <2>3. QED
    BY <2>1, <2>2
<1>7. Recent(m, u)
  BY <1>1, <1>4, <1>5, <1>6 DEF Recent, MinOf
<1>8. QED
  BY <1>2, <1>3, <1>7 DEF m, u

\* A page that is not cached is put in front, and the last one dropped if there is
\* no room: that is the one whose use is the longest ago.
LEMMA UseNew ==
  ASSUME NEW pages \in Seq(Page), NEW uses \in Seq(Nat), Once(uses), Recent(pages, uses),
         NEW new \in Page, NEW p \in Nat, new.index = p,
         \A j \in 1..Len(pages) : pages[j].index # p
  PROVE  LET order == Cons(new, pages) IN
         Recent(IF Len(order) > MaxPages THEN Front(order) ELSE order, Cons(p, RemoveFirst(uses, p)))
<1> DEFINE order == Cons(new, pages)
           kept == IF Len(order) > MaxPages THEN Front(order) ELSE order
           rest == RemoveFirst(uses, p)
           u == Cons(p, rest)
           n == Len(pages)
<1>1. /\ n \in Nat /\ Len(uses) \in Nat /\ MaxPages \in Nat \ {0}
      /\ n = IF MaxPages < Len(uses) THEN MaxPages ELSE Len(uses)
      /\ \A j \in 1..n : pages[j].index = uses[j]
  BY CacheAssumption DEF Recent, MinOf
<1>2. /\ order \in Seq(Page) /\ Len(order) = n + 1 /\ order[1] = new
      /\ \A j \in 2..(n + 1) : order[j] = pages[j - 1]
  BY ConsFacts
<1>3. /\ rest \in Seq(Nat)
      /\ \/ rest = uses /\ ~ Contains(uses, p)
         \/ \E i \in 1..Len(uses) : uses[i] = p /\ rest = RemoveAt(uses, i)
  BY UseFacts
<1> HIDE DEF order, rest, n
<1>4. /\ Len(u) = Len(rest) + 1 /\ u[1] = p
      /\ \A j \in 2..(Len(rest) + 1) : u[j] = rest[j - 1]
      /\ Len(rest) \in Nat
  <2>1. rest \in Seq(Nat) /\ Len(rest) \in Nat
    BY <1>3
  <2>2. QED
    BY <2>1, ConsUse
<1> HIDE DEF u
\* Behind the cached pages the histories may differ, before not.
<1>5. /\ \A j \in 1..n : j <= Len(rest) /\ rest[j] = uses[j]
      /\ Len(rest) = Len(uses) \/ (Len(rest) = Len(uses) - 1 /\ n = MaxPages /\ Len(uses) > MaxPages)
  <2>1. CASE rest = uses
    BY <1>1, <2>1
  <2>2. CASE \E i \in 1..Len(uses) : uses[i] = p /\ rest = RemoveAt(uses, i)
    <3>1. PICK i \in 1..Len(uses) : uses[i] = p /\ rest = RemoveAt(uses, i)
      BY <2>2
    <3>2. ~ (i \in 1..n)
      BY <1>1, <3>1 DEF n
    <3>3. i > n /\ Len(uses) > n
      BY <1>1, <3>2
    <3>4. /\ Len(rest) = Len(uses) - 1
          /\ \A j \in 1..(Len(uses) - 1) : rest[j] = IF j < i THEN uses[j] ELSE uses[j + 1]
      BY <3>1, RemoveAtFacts
    <3>5. \A j \in 1..n : j \in 1..(Len(uses) - 1) /\ j < i
      BY <1>1, <3>3
    <3>6. n = MaxPages /\ Len(uses) > MaxPages
      BY <1>1, <3>3
    <3>7. QED
      BY <1>1, <3>4, <3>5, <3>6
  <2>3. QED
    BY <1>3, <2>1, <2>2
<1>6. /\ Len(kept) = IF n + 1 > MaxPages THEN n ELSE n + 1
      /\ \A j \in 1..Len(kept) : kept[j] = order[j]
  <2>1. CASE n + 1 > MaxPages
    <3>1. order # <<>>
      BY <1>1, <1>2
    <3>2. Len(Front(order)) = Len(order) - 1 /\ \A j \in 1..(Len(order) - 1) : Front(order)[j] = order[j]
      BY <1>2, <3>1, FrontFacts
    <3>3. kept = Front(order) /\ Len(order) - 1 = n
      BY <1>1, <1>2, <2>1
    <3>4. QED
      BY <2>1, <3>2, <3>3
  <2>2. CASE ~ (n + 1 > MaxPages)
    BY <1>2, <2>2
  <2>3. QED
    BY <2>1, <2>2
<1> HIDE DEF kept
<1>7. ASSUME NEW j \in 1..Len(kept)
      PROVE  kept[j].index = u[j]
  <2>1. Len(kept) <= n + 1
    BY <1>1, <1>6
  <2>2. CASE j = 1
    BY <1>2, <1>4, <1>6, <2>2
  <2>3. CASE j # 1
    <3>1. j \in 2..(n + 1) /\ j - 1 \in 1..n
      BY <1>1, <1>6, <2>1, <2>3
    <3>2. kept[j] = pages[j - 1] /\ pages[j - 1].index = uses[j - 1]
      BY <1>1, <1>2, <1>6, <3>1
    <3>3. rest[j - 1] = uses[j - 1] /\ j \in 2..(Len(rest) + 1)
      BY <1>1, <1>4, <1>5, <3>1
    <3>4. QED
      BY <1>4, <3>2, <3>3
  <2>4. QED
    BY <2>2, <2>3
<1>8. Len(kept) = IF MaxPages < Len(u) THEN MaxPages ELSE Len(u)
  BY <1>1, <1>4, <1>5, <1>6
<1>9. Recent(kept, u)
  BY <1>7, <1>8 DEF Recent, MinOf
<1>10. QED
  BY <1>9 DEF kept, order, u, rest

\* Whatever is not a use leaves the recency list alone.
LEMMA OthersLeaveOrder ==
  ASSUME [Next]_vars, \A r \in Readers : ~ Uses(r)
  PROVE  recency' = recency
  BY DEF Next, Read, Advance, LoadEnds, Uses, Miss, LoadFailed, Copy, CancelWait, Call,
         Dispose, DisposeInner, DisposeGate, vars, cache

\* One step keeps the history and the recency list in step.
LEMMA HistoryKeeps == HistoryInv /\ [HistoryNext]_<<vars, used>> => HistoryInv'
<1> SUFFICES ASSUME HistoryInv, [HistoryNext]_<<vars, used>> PROVE HistoryInv'
  OBVIOUS
<1>1. [Next]_vars
  BY DEF HistoryNext, Uses, Next, Read, Advance, LoadEnds
<1>2. IInv /\ IInv'
  BY <1>1, StepKeeps DEF HistoryInv
<1>3. recency \in Seq(Page) /\ recency' \in Seq(Page) /\ ListsAgree
  BY <1>2 DEF IInv, TypeOK
<1>4. used \in Seq(Nat) /\ Once(used)
  BY DEF HistoryInv, UsedOnce, Once
<1>5. Recent(recency, used)
  BY <1>3, <1>4, RecentIsPointwise DEF HistoryInv, HoldsMostRecent
<1>6. used' \in Seq(Nat) /\ Once(used') /\ Recent(recency', used')
  <2>1. ASSUME NEW r \in Readers, Uses(r), used' = Cons(PageIndex(r), RemoveFirst(used, PageIndex(r)))
        PROVE  used' \in Seq(Nat) /\ Once(used') /\ Recent(recency', used')
    <3>1. ReadConsistent(r) /\ TypeOK /\ pc[r] # "idle"
      BY <1>2, <2>1 DEF IInv, ReadsConsistent, Uses, Hit, Loaded
    <3>2. PageIndex(r) \in Nat /\ PageIndex(r) * PageSize < FileLength
      BY <3>1, PositionFacts
    <3>3. used' \in Seq(Nat) /\ Once(used')
      BY <1>4, <2>1, <3>2, UseFacts
    <3>4. CASE Hit(r)
      <4>1. PICK i \in 1..Len(recency) :
              recency[i].index = PageIndex(r) /\ recency' = MoveToFront(recency, i)
        BY <3>4 DEF Hit
      <4>2. QED
        BY <1>3, <1>4, <1>5, <2>1, <3>3, <4>1, UseCached
    <3>5. CASE Loaded(r)
      <4> DEFINE p == PageIndex(r)
                 order == Cons(LoadedPage(p), recency)
      <4>1. p \notin DOMAIN pagesByIndex /\ CacheWith(LoadedPage(p))
        BY <1>2, <3>5 DEF IInv, LoadsOnce, Loaded
      <4>2. recency' = IF Len(order) > MaxPages THEN Front(order) ELSE order
        BY <4>1 DEF CacheWith
      <4>3. \A j \in 1..Len(recency) : recency[j].index # p
        BY <1>3, <4>1 DEF ListsAgree
      <4>4. LoadedPage(p) \in Page /\ LoadedPage(p).index = p
        BY <3>2, LoadedPageFacts
      <4> HIDE DEF p
      <4>5. Recent(IF Len(order) > MaxPages THEN Front(order) ELSE order, Cons(p, RemoveFirst(used, p)))
        BY <1>3, <1>4, <1>5, <3>2, <4>3, <4>4, UseNew DEF p
      <4>6. QED
        BY <2>1, <3>3, <4>2, <4>5 DEF p
    <3>6. QED
      BY <2>1, <3>4, <3>5 DEF Uses
  <2>2. CASE recency' = recency /\ used' = used
    BY <1>4, <1>5, <2>2
  <2>3. CASE Next /\ (\A r \in Readers : ~ Uses(r)) /\ UNCHANGED used
    BY <1>1, <2>2, <2>3, OthersLeaveOrder
  <2>4. CASE UNCHANGED <<vars, used>>
    BY <2>2, <2>4 DEF vars, cache
  <2>5. QED
    BY <2>1, <2>3, <2>4 DEF HistoryNext
<1>7. UsedOnce'
  BY <1>6 DEF UsedOnce, Once
<1>8. HoldsMostRecent'
  BY <1>3, <1>6, RecentIsPointwise DEF HoldsMostRecent
<1>9. QED
  BY <1>2, <1>7, <1>8 DEF HistoryInv

\* CachingDataSource.cs:6, "Pages are evicted least-recently-used" (GetPageAsync):
\* the cache holds the pages used most recently, in the order of their last use.
THEOREM EvictsLeastRecentlyUsed == HistorySpec => []HoldsMostRecent
<1>1. HistoryInit => HistoryInv
  <2> SUFFICES ASSUME HistoryInit PROVE HistoryInv
    OBVIOUS
  <2>1. IInv /\ recency = <<>> /\ used = <<>>
    BY InitOK DEF HistoryInit, Init
  <2>2. MaxPages \in Nat \ {0}
    BY CacheAssumption
  <2>3. recency \in Seq(Page) /\ used \in Seq(Nat) /\ Len(recency) = 0 /\ Len(used) = 0
    BY <2>1
  <2>4. Recent(recency, used)
    BY <2>2, <2>3 DEF Recent, MinOf
  <2>5. HoldsMostRecent
    BY <2>3, <2>4, RecentIsPointwise DEF HoldsMostRecent
  <2>6. UsedOnce
    BY <2>3 DEF UsedOnce
  <2>7. QED
    BY <2>1, <2>5, <2>6 DEF HistoryInv
<1>2. HistoryInv => HoldsMostRecent
  BY DEF HistoryInv
<1>3. QED
  BY <1>1, <1>2, HistoryKeeps, PTL DEF HistorySpec
=============================================================================
