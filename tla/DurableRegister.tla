--------------------------- MODULE DurableRegister ---------------------------
(***************************************************************************)
(* What the flash management promises to the registry above it, without    *)
(* blocks, sectors or counters: one payload is stored, a write replaces it *)
(* by the submitted payload in one step or not at all, a write that ends   *)
(* without an error has replaced it, and a power failure changes nothing.  *)
(* The promise has one hole, and the specification says where: while a     *)
(* write is in progress, and only then, the stored payload may be lost.    *)
(* An older payload never comes back.                                      *)
(***************************************************************************)
CONSTANTS
  Payloads,    \* what a client may store
  NoPayload    \* nothing is stored, or nothing is submitted

VARIABLES
  stored,      \* the payload a start of the program would load
  submitted,   \* the payload of the write in progress
  saved        \* has the last write of this start of the program succeeded?

vars == <<stored, submitted, saved>>

TypeOK ==
  /\ stored \in Payloads \cup {NoPayload}
  /\ submitted \in Payloads \cup {NoPayload}
  /\ saved \in BOOLEAN

Init ==
  /\ stored = NoPayload
  /\ submitted = NoPayload
  /\ saved = FALSE

Submit(p) ==
  /\ submitted = NoPayload
  /\ submitted' = p
  /\ saved' = FALSE
  /\ UNCHANGED stored

Commit ==
  /\ submitted # NoPayload
  /\ stored' = submitted
  /\ submitted' = NoPayload
  /\ saved' = TRUE

\* The driver reports an error although the last word is there: the write has taken
\* effect, and nobody knows.
CommitUnnoticed ==
  /\ submitted # NoPayload
  /\ stored' = submitted
  /\ submitted' = NoPayload
  /\ saved' = FALSE

\* Power fails, or a program operation does: a write in progress is given up.
Abandon ==
  /\ submitted' = NoPayload
  /\ saved' = FALSE
  /\ UNCHANGED stored

\* The stored payload is erased to make room for the submitted one; the write may
\* be given up in the same step.
Lose ==
  /\ submitted # NoPayload
  /\ stored' = NoPayload
  /\ submitted' \in {submitted, NoPayload}
  /\ saved' = FALSE

Next ==
  \/ \E p \in Payloads : Submit(p)
  \/ Commit
  \/ CommitUnnoticed
  \/ Abandon
  \/ Lose

Spec == Init /\ [][Next]_vars
==============================================================================
