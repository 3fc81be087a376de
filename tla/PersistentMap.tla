---------------------------- MODULE PersistentMap ----------------------------
(***************************************************************************)
(* What the internal registry is to the tasks that use it: a dictionary in *)
(* RAM whose operations are atomic, and of which a past state is kept on   *)
(* the device.  A flush saves the contents of one instant, never a mixture *)
(* of two; a power failure brings back the last contents that were saved.  *)
(* While a flush is in progress the saved contents may be lost, and        *)
(* contents that do not fit on the device are damaged by a flush.          *)
(***************************************************************************)
CONSTANTS
  Keys, Values, Absent, NoMap,
  Damaged     \* no dictionary: the device could not hold it

VARIABLES
  fits,       \* an input: does the device hold the contents?
  contents,   \* what the tasks read and write
  flushing,   \* the contents being saved, or NoMap
  durable     \* the contents a start of the program would load

vars == <<contents, flushing, durable>>

Empty == [k \in Keys |-> Absent]

Init == contents = Empty /\ flushing = NoMap /\ durable = Empty

\* There is no operation on a damaged dictionary.
Put(k, v) ==
  /\ contents # Damaged
  /\ contents' = [contents EXCEPT ![k] = v]
  /\ UNCHANGED <<flushing, durable>>

Remove(k) ==
  /\ contents # Damaged
  /\ contents' = [contents EXCEPT ![k] = Absent]
  /\ UNCHANGED <<flushing, durable>>

BeginFlush ==
  /\ flushing = NoMap
  /\ flushing' = IF fits THEN contents ELSE Damaged
  /\ UNCHANGED <<contents, durable>>

EndFlush == flushing # NoMap /\ durable' = flushing /\ flushing' = NoMap /\ UNCHANGED contents

FailFlush == flushing # NoMap /\ flushing' = NoMap /\ UNCHANGED <<contents, durable>>

LoseDurable == flushing # NoMap /\ durable' = Empty /\ UNCHANGED <<contents, flushing>>

PowerFailure ==
  /\ durable' = durable \/ (flushing # NoMap /\ durable' = Empty)
  /\ contents' = durable'
  /\ flushing' = NoMap

Next ==
  \/ \E k \in Keys, v \in Values : Put(k, v)
  \/ \E k \in Keys : Remove(k)
  \/ BeginFlush
  \/ EndFlush
  \/ FailFlush
  \/ LoseDurable
  \/ PowerFailure

Spec == Init /\ [][Next]_vars
==============================================================================
