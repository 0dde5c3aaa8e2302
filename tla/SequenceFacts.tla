---------------------------- MODULE SequenceFacts ----------------------------
(***************************************************************************)
(* What the operators on sequences that the models use return, element by  *)
(* element: the lemmas the proofs about queues and lists rest on.          *)
(***************************************************************************)
EXTENDS Integers, SequencesExt, SequenceTheorems, WellFoundedInduction, TLAPS

\* RemoveAt drops one element and closes the gap.
LEMMA RemoveAtFacts ==
  ASSUME NEW S, NEW s \in Seq(S), NEW i \in 1..Len(s)
  PROVE  /\ RemoveAt(s, i) \in Seq(S)
         /\ Len(RemoveAt(s, i)) = Len(s) - 1
         /\ \A j \in 1..(Len(s) - 1) :
              RemoveAt(s, i)[j] = IF j < i THEN s[j] ELSE s[j + 1]
<1> DEFINE a == SubSeq(s, 1, i - 1)
           b == SubSeq(s, i + 1, Len(s))
<1>0. Len(s) \in Nat /\ \A j \in 1..Len(s) : s[j] \in S
  OBVIOUS
<1>1. /\ a \in Seq(S)
      /\ Len(a) = i - 1
      /\ \A j \in 1..(i - 1) : a[j] = s[j]
  BY <1>0
<1>2. /\ b \in Seq(S)
      /\ Len(b) = Len(s) - i
      /\ \A j \in 1..(Len(s) - i) : b[j] = s[i + j]
  BY <1>0
<1> HIDE DEF a, b
<1>3. /\ a \o b \in Seq(S)
      /\ Len(a \o b) = Len(s) - 1
      /\ \A j \in 1..(Len(s) - 1) :
           (a \o b)[j] = IF j <= i - 1 THEN a[j] ELSE b[j - (i - 1)]
  <2>1. /\ a \o b \in Seq(S)
        /\ Len(a \o b) = Len(a) + Len(b)
        /\ \A j \in 1..(Len(a) + Len(b)) :
             (a \o b)[j] = IF j <= Len(a) THEN a[j] ELSE b[j - Len(a)]
    BY <1>1, <1>2, ConcatProperties
  <2>2. Len(a) = i - 1 /\ Len(a) + Len(b) = Len(s) - 1
    BY <1>0, <1>1, <1>2
  <2>3. QED
    BY <2>1, <2>2
<1>4. RemoveAt(s, i) = a \o b
  BY DEF RemoveAt, a, b
<1>5. QED
  BY <1>0, <1>1, <1>2, <1>3, <1>4

\* RemoveAt on a sequence without duplicates removes just that element.
LEMMA RemoveOnceFacts ==
  ASSUME NEW S, NEW s \in Seq(S), NEW i \in 1..Len(s),
         \A j, k \in 1..Len(s) : s[j] = s[k] => j = k
  PROVE  LET r == RemoveAt(s, i) IN
         /\ r \in Seq(S)
         /\ \A j, k \in 1..Len(r) : r[j] = r[k] => j = k
         /\ \A e : Contains(r, e) <=> Contains(s, e) /\ e # s[i]
<1> DEFINE r == RemoveAt(s, i)
           n == Len(s) - 1
           From(j) == IF j < i THEN j ELSE j + 1
<1>1. /\ r \in Seq(S) /\ Len(r) = n
      /\ \A j \in 1..n : r[j] = IF j < i THEN s[j] ELSE s[j + 1]
  BY RemoveAtFacts
<1> HIDE DEF r
<1>2. Len(s) \in Nat /\ n \in Int /\ i \in Int
  OBVIOUS
<1>3. \A j \in 1..n : From(j) \in 1..Len(s) /\ From(j) # i /\ r[j] = s[From(j)]
  BY <1>1, <1>2
<1>4. \A j, k \in 1..n : From(j) = From(k) => j = k
  BY <1>2
<1>5. \A k \in 1..Len(s) : k # i => \E j \in 1..n : From(j) = k
  <2>1. ASSUME NEW k \in 1..Len(s), k # i
        PROVE  \E j \in 1..n : From(j) = k
    <3>1. CASE k < i
      BY <1>2, <2>1, <3>1
    <3>2. CASE k > i
      <4>1. k - 1 \in 1..n /\ From(k - 1) = k
        BY <1>2, <2>1, <3>2
      <4>2. QED
        BY <4>1
    <3>3. QED
      BY <1>2, <2>1, <3>1, <3>2
  <2>2. QED
    BY <2>1
<1> HIDE DEF From, n
<1>6. \A j, k \in 1..Len(r) : r[j] = r[k] => j = k
  <2>1. ASSUME NEW j \in 1..n, NEW k \in 1..n, r[j] = r[k]
        PROVE  j = k
    <3>1. From(j) = From(k)
      BY <1>3, <2>1
    <3>2. QED
      BY <1>4, <3>1
  <2>2. QED
    BY <1>1, <2>1
<1>7. ASSUME NEW e
      PROVE  Contains(r, e) <=> Contains(s, e) /\ e # s[i]
  <2>1. ASSUME NEW j \in 1..n, r[j] = e
        PROVE  Contains(s, e) /\ e # s[i]
    <3>1. From(j) \in 1..Len(s) /\ s[From(j)] = e /\ From(j) # i
      BY <1>3, <2>1
    <3>2. QED
      BY <3>1 DEF Contains
  <2>2. ASSUME NEW k \in 1..Len(s), s[k] = e, e # s[i]
        PROVE  Contains(r, e)
    <3>1. PICK j \in 1..n : From(j) = k
      BY <1>5, <2>2
    <3>2. r[j] = e
      BY <1>3, <2>2, <3>1
    <3>3. QED
      BY <1>1, <3>2 DEF Contains
  <2>3. QED
    BY <1>1, <2>1, <2>2 DEF Contains
<1>8. QED
  BY <1>1, <1>6, <1>7 DEF r

\* Cons puts one element in front and shifts the others.
LEMMA ConsFacts ==
  ASSUME NEW S, NEW e \in S, NEW s \in Seq(S)
  PROVE  /\ Cons(e, s) \in Seq(S)
         /\ Len(Cons(e, s)) = Len(s) + 1
         /\ Cons(e, s)[1] = e
         /\ \A j \in 2..(Len(s) + 1) : Cons(e, s)[j] = s[j - 1]
<1>1. <<e>> \in Seq(S) /\ Len(<<e>>) = 1 /\ <<e>>[1] = e
  OBVIOUS
<1>2. /\ <<e>> \o s \in Seq(S)
      /\ Len(<<e>> \o s) = 1 + Len(s)
      /\ \A j \in 1..(1 + Len(s)) :
           (<<e>> \o s)[j] = IF j <= 1 THEN <<e>>[j] ELSE s[j - 1]
  BY <1>1, ConcatProperties
<1>3. QED
  BY <1>1, <1>2 DEF Cons

\* Front drops the last element.
LEMMA FrontFacts ==
  ASSUME NEW S, NEW s \in Seq(S), s # <<>>
  PROVE  /\ Front(s) \in Seq(S)
         /\ Len(Front(s)) = Len(s) - 1
         /\ \A j \in 1..(Len(s) - 1) : Front(s)[j] = s[j]
<1> DEFINE n == Len(s) - 1
           a == SubSeq(s, 1, n)
<1>1. n \in Nat /\ Len(s) = n + 1 /\ \A j \in 1..n : s[j] \in S
  OBVIOUS
<1>2. Front(s) = a
  BY DEF Front
<1> HIDE DEF n
<1>3. /\ a \in Seq(S)
      /\ Len(a) = IF 1 <= n THEN n - 1 + 1 ELSE 0
      /\ \A j \in 1..(n - 1 + 1) : a[j] = s[1 + j - 1]
  BY <1>1, SubSeqProperties
<1> HIDE DEF a
<1>4. a \in Seq(S) /\ Len(a) = n /\ \A j \in 1..n : a[j] = s[j]
  BY <1>1, <1>3
<1>5. QED
  BY <1>2, <1>4 DEF n

\* Tail drops the first element and shifts the others.
LEMMA TailFacts ==
  ASSUME NEW S, NEW s \in Seq(S), s # <<>>
  PROVE  /\ Tail(s) \in Seq(S)
         /\ Len(Tail(s)) = Len(s) - 1
         /\ \A j \in 1..(Len(s) - 1) : Tail(s)[j] = s[j + 1]
         /\ Head(s) = s[1] /\ Head(s) \in S
         /\ Len(s) \in Nat \ {0}
  BY HeadTailProperties

\* Append adds one element at the end.
LEMMA AppendFacts ==
  ASSUME NEW S, NEW s \in Seq(S), NEW e \in S
  PROVE  /\ Append(s, e) \in Seq(S)
         /\ Len(Append(s, e)) = Len(s) + 1
         /\ \A j \in 1..Len(s) : Append(s, e)[j] = s[j]
         /\ Append(s, e)[Len(s) + 1] = e
         /\ Len(s) \in Nat
  BY AppendProperties

\* A sequence without duplicates takes a new element and still has none.
LEMMA AppendOnceFacts ==
  ASSUME NEW S, NEW s \in Seq(S), NEW e \in S, ~ Contains(s, e),
         \A j, k \in 1..Len(s) : s[j] = s[k] => j = k
  PROVE  LET r == Append(s, e) IN
         /\ r \in Seq(S)
         /\ \A j, k \in 1..Len(r) : r[j] = r[k] => j = k
         /\ \A x : Contains(r, x) <=> Contains(s, x) \/ x = e
<1> DEFINE r == Append(s, e)
           n == Len(s)
<1>1. /\ r \in Seq(S) /\ Len(r) = n + 1 /\ n \in Nat
      /\ \A j \in 1..n : r[j] = s[j]
      /\ r[n + 1] = e
  BY AppendFacts
<1>2. \A j \in 1..n : s[j] # e
  BY DEF Contains
<1> HIDE DEF r, n
<1>3. \A j \in 1..(n + 1) : j \in 1..n \/ j = n + 1
  BY <1>1
<1>4. ASSUME NEW j \in 1..Len(r), NEW k \in 1..Len(r), r[j] = r[k]
      PROVE  j = k
  <2>1. j \in 1..n \/ j = n + 1
    BY <1>1, <1>3
  <2>2. k \in 1..n \/ k = n + 1
    BY <1>1, <1>3
  <2>3. QED
    BY <1>1, <1>2, <1>4, <2>1, <2>2 DEF n
<1>5. ASSUME NEW x
      PROVE  Contains(r, x) <=> Contains(s, x) \/ x = e
  <2>1. Contains(r, x) <=> (\E j \in 1..n : s[j] = x) \/ e = x
    <3>1. Contains(r, x) <=> \E j \in 1..(n + 1) : r[j] = x
      BY <1>1 DEF Contains
    <3>2. n + 1 \in 1..(n + 1) /\ \A j \in 1..n : j \in 1..(n + 1)
      BY <1>1
    <3>3. QED
      BY <1>1, <1>3, <3>1, <3>2
  <2>2. QED
    BY <2>1 DEF Contains, n
<1>6. QED
  BY <1>1, <1>4, <1>5 DEF r

\* Moving element i to the front keeps every element and moves the earlier
\* ones one place back.
LEMMA MoveToFrontFacts ==
  ASSUME NEW S, NEW s \in Seq(S), NEW i \in 1..Len(s)
  PROVE  LET m == Cons(s[i], RemoveAt(s, i)) IN
         /\ m \in Seq(S)
         /\ Len(m) = Len(s)
         /\ m[1] = s[i]
         /\ \A j \in 2..Len(s) : m[j] = IF j <= i THEN s[j - 1] ELSE s[j]
<1> DEFINE t == RemoveAt(s, i)
<1>0. Len(s) \in Nat /\ s[i] \in S
  OBVIOUS
<1>1. /\ t \in Seq(S)
      /\ Len(t) = Len(s) - 1
      /\ \A j \in 1..(Len(s) - 1) : t[j] = IF j < i THEN s[j] ELSE s[j + 1]
  BY RemoveAtFacts
<1> HIDE DEF t
<1>2. /\ Cons(s[i], t) \in Seq(S)
      /\ Len(Cons(s[i], t)) = Len(t) + 1
      /\ Cons(s[i], t)[1] = s[i]
      /\ \A j \in 2..(Len(t) + 1) : Cons(s[i], t)[j] = t[j - 1]
  <2>1. t \in Seq(S) /\ s[i] \in S
    BY <1>0, <1>1
  <2>2. \A u \in Seq(S) : \A e \in S :
          /\ Cons(e, u) \in Seq(S)
          /\ Len(Cons(e, u)) = Len(u) + 1
          /\ Cons(e, u)[1] = e
          /\ \A j \in 2..(Len(u) + 1) : Cons(e, u)[j] = u[j - 1]
    BY ConsFacts
  <2>3. QED
    BY <2>1, <2>2
<1>3. Len(t) + 1 = Len(s)
  BY <1>0, <1>1
<1>4. ASSUME NEW j \in 2..Len(s)
      PROVE  Cons(s[i], t)[j] = IF j <= i THEN s[j - 1] ELSE s[j]
  <2>1. j \in 2..(Len(t) + 1) /\ j - 1 \in 1..(Len(s) - 1)
    BY <1>0, <1>3
  <2>2. Cons(s[i], t)[j] = t[j - 1]
    BY <1>2, <2>1
  <2>3. t[j - 1] = IF j - 1 < i THEN s[j - 1] ELSE s[(j - 1) + 1]
    BY <1>1, <2>1
  <2>4. QED
    BY <1>0, <2>2, <2>3
<1>5. QED
  BY <1>2, <1>3, <1>4 DEF t

\* A set of naturals that is not empty has a least element.
LEMMA MinFacts ==
  ASSUME NEW I \in SUBSET Nat, I # {}
  PROVE  Min(I) \in I /\ \A i \in I : Min(I) <= i
<1> DEFINE below == {ss \in Nat \X Nat : ss[1] < ss[2]}
<1>1. IsWellFoundedOn(below, Nat)
  BY NatLessThanWellFounded, Zenon DEF OpToRel
<1>2. \A i, m \in Nat : i < m => <<i, m>> \in below
  OBVIOUS
<1> HIDE DEF below
<1>3. \E m \in I : \A i \in I : ~ (<<i, m>> \in below)
  BY <1>1, WFMin, Zenon
<1>4. PICK m \in I : \A i \in I : ~ (<<i, m>> \in below)
  BY <1>3
<1>5. ASSUME NEW i \in I
      PROVE  m <= i
  <2>1. i \in Nat /\ m \in Nat
    OBVIOUS
  <2>2. ~ (i < m)
    BY <1>2, <1>4, <2>1
  <2>3. QED
    BY <2>1, <2>2
<1>6. QED
  BY <1>5 DEF Min

\* Removing the first occurrence of an element removes one at which it stands.
LEMMA RemoveFirstFacts ==
  ASSUME NEW S, NEW s \in Seq(S), NEW e, Contains(s, e)
  PROVE  \E i \in 1..Len(s) : s[i] = e /\ RemoveFirst(s, e) = RemoveAt(s, i)
<1> DEFINE I == {j \in 1..Len(s) : s[j] = e}
<1>1. I \in SUBSET Nat /\ I # {}
  BY DEF Contains
<1>2. Min(I) \in I
  BY <1>1, MinFacts
<1>3. SelectInSeq(s, LAMBDA v : v = e) = Min(I)
  BY <1>1 DEF SelectInSeq
<1>4. RemoveFirst(s, e) = RemoveAt(s, Min(I))
  BY <1>3 DEF RemoveFirst, Contains
<1>5. QED
  BY <1>2, <1>4
=============================================================================
