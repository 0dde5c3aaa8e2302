----------------------------- MODULE AsyncGate ------------------------------
(***************************************************************************)
(* The SemaphoreSlim(1, 1) that CachingDataSource and PluginWorkspace put  *)
(* around their shared state.  A caller takes it or waits in line; the     *)
(* release hands it to the first in line.  The modules that use the gate   *)
(* extend this one and keep the callers' own state.                        *)
(***************************************************************************)
EXTENDS Integers, Sequences, SequencesExt

CONSTANT NoOne     \* the holder of a free gate

VARIABLES
  holder,          \* who is past WaitAsync and has not called Release
  queue            \* the callers WaitAsync suspended, first come first served

gate == <<holder, queue>>

GateInit == holder = NoOne /\ queue = <<>>

\* Mutant of Take: there is no gate.
TakeAnyway(c) == holder' = c /\ UNCHANGED queue

\* WaitAsync on a free gate.
Take(c) ==
  /\ holder = NoOne
  /\ holder' = c
  /\ UNCHANGED queue

\* WaitAsync on a taken gate.
Join(c) ==
  /\ holder # NoOne
  /\ queue' = Append(queue, c)
  /\ UNCHANGED holder

\* WaitAsync is cancelled: the caller leaves the line, wherever it stands.
Withdraw(c) ==
  /\ \E i \in 1..Len(queue) : queue[i] = c /\ queue' = RemoveAt(queue, i)
  /\ UNCHANGED holder

NextInLine == IF queue = <<>> THEN NoOne ELSE Head(queue)

\* Release.
PassOn ==
  /\ holder' = NextInLine
  /\ queue' = IF queue = <<>> THEN <<>> ELSE Tail(queue)

\* Dispose: the waiters are forgotten and never resume.
ForgetWaiters ==
  /\ queue' = <<>>
  /\ UNCHANGED holder
=============================================================================
