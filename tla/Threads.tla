------------------------------ MODULE Threads ------------------------------
(***************************************************************************)
(* ThreadX as the classes of the library use it: threads with priorities,  *)
(* of which a most urgent one that is ready runs, waits that end with what *)
(* was waited for or with a timeout, and the tick.                         *)
(* A smaller priority is more urgent; threads of equal priority take turns *)
(* at any moment (every thread is created with a time slice of one tick).  *)
(***************************************************************************)
EXTENDS Naturals

CONSTANTS
  Threads,
  Priorities,
  TimeWrap     \* a ULONG counts modulo this

ASSUME ThreadsAssumption ==
  /\ Priorities \subseteq Nat
  /\ TimeWrap \in Nat \ {0, 1}

VARIABLES
  status,    \* not created, suspended, ready, or what the thread waits for
  left,      \* ticks until its wait times out; 0: never
  priority,  \* the priority a thread is created with
  time       \* tx_time_get

threads == <<status, left, priority, time>>

ThreadsTypeOK ==
  /\ status \in [Threads -> {"none", "suspended", "ready", "queue"}]
  /\ left \in [Threads -> 0 .. TimeWrap - 1]
  /\ priority \in [Threads -> Priorities]
  /\ time \in 0 .. TimeWrap - 1

Runs(t) ==
  /\ status[t] = "ready"
  /\ \A u \in Threads : status[u] = "ready" => priority[t] <= priority[u]

\* t gives the processor up until it gets what it waits for, or for some ticks.
Wait(t, what, ticks) ==
  /\ status' = [status EXCEPT ![t] = what]
  /\ left' = [left EXCEPT ![t] = ticks]

\* The wait of t ends with what it waited for.
Wake(t) ==
  /\ status' = [status EXCEPT ![t] = "ready"]
  /\ left' = [left EXCEPT ![t] = 0]

SetStatus(t, s) ==
  /\ status' = [status EXCEPT ![t] = s]
  /\ UNCHANGED <<left, priority, time>>

Tick ==
  /\ time' = (time + 1) % TimeWrap
  /\ left' = [t \in Threads |-> IF left[t] > 0 THEN left[t] - 1 ELSE 0]
  /\ status' = [t \in Threads |-> IF left[t] = 1 THEN "ready" ELSE status[t]]
  /\ UNCHANGED priority
==============================================================================
