----------------------------- MODULE DataSource -----------------------------
(***************************************************************************)
(* What IO/IDataSource.cs promises of every source, whatever it is made    *)
(* of: a read either fills its destination with exactly the bytes of the   *)
(* requested range, or it fails; a range past the end of the file always   *)
(* fails, as a range error.  Any number of readers may have a read under   *)
(* way.                                                                    *)
(***************************************************************************)
EXTENDS Integers

CONSTANTS
  Readers,      \* the callers that may read concurrently
  FileLength,   \* IDataSource.Length
  Content,      \* the bytes of the file, by offset
  Requests      \* the [offset, count] ranges the callers ask for

VARIABLES
  asked,        \* the range each reader last asked for
  pending,      \* the readers whose read has not returned
  reply         \* what each reader's last read returned

vars == <<asked, pending, reply>>

Failures == {"io", "cancelled", "disposed"}

InRange(req) == req.offset + req.count <= FileLength

BytesOf(req) == [i \in 0..(req.count - 1) |-> Content[req.offset + i]]

NoBytes == [i \in {} |-> i]

Failed(kind) == [kind |-> kind, bytes |-> NoBytes]

\* The replies a request may get.
Replies(req) ==
  IF InRange(req)
  THEN {[kind |-> "ok", bytes |-> BytesOf(req)]} \cup {Failed(k) : k \in Failures}
  ELSE {Failed("range")}

Nothing == Failed("none")

Init ==
  /\ asked = [r \in Readers |-> [offset |-> 0, count |-> 0]]
  /\ pending = {}
  /\ reply = [r \in Readers |-> Nothing]

\* A read starts; it may return at once or later.
Ask(r, req) ==
  /\ r \notin pending
  /\ asked' = [asked EXCEPT ![r] = req]
  /\ \/ /\ pending' = pending \cup {r}
        /\ reply' = [reply EXCEPT ![r] = Nothing]
     \/ /\ \E ans \in Replies(req) : reply' = [reply EXCEPT ![r] = ans]
        /\ UNCHANGED pending

Answer(r) ==
  /\ r \in pending
  /\ pending' = pending \ {r}
  /\ \E ans \in Replies(asked[r]) : reply' = [reply EXCEPT ![r] = ans]
  /\ UNCHANGED asked

Next == \E r \in Readers : Answer(r) \/ \E req \in Requests : Ask(r, req)

Spec == Init /\ [][Next]_vars
=============================================================================
