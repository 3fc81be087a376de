---------------------------- MODULE FlashMemory ----------------------------
(***************************************************************************)
(* What the driver of the internal flash promises: a call owes the memory  *)
(* some words, programs them in the order of their addresses and touches   *)
(* no other word; it says that it succeeded only when it owes nothing.  An *)
(* erase is of the whole sector of its address, or of nothing, and is      *)
(* refused only where the sector cannot be erased.                         *)
(* A word is the set of its bits that are 1.                               *)
(***************************************************************************)
EXTENDS Integers

CONSTANTS
  NumWords,      \* words of the flash
  SectorWords,   \* words of a sector
  Bits,          \* bits of a word
  Erasable       \* addresses whose sector can be erased

VARIABLES
  memory,  \* what every word of the flash holds
  todo,    \* the words the write in progress has still to program
  target,  \* the address whose sector is to be erased, or -1
  result   \* what the last call returned, "none" while one is in progress

Words == 0 .. NumWords - 1

Idle == result # "none"

Init ==
  /\ memory = [w \in Words |-> Bits]
  /\ todo = << >>
  /\ target = -1
  /\ result = "done"

BeginWrite ==
  /\ Idle
  /\ \E a \in Words, n \in 0..NumWords : /\ a + n <= NumWords
                                         /\ todo' \in [a .. a + n - 1 -> SUBSET Bits]
  /\ result' = "none"
  /\ UNCHANGED <<memory, target>>

BeginErase ==
  /\ Idle
  /\ target' \in Nat
  /\ result' = "none"
  /\ UNCHANGED <<memory, todo>>

Misaligned == Idle /\ result' = "misaligned" /\ UNCHANGED <<memory, todo, target>>

\* The words owed below m are programmed: a bit goes from 1 to 0, never back.
ProgramTo(m) ==
  memory' = [w \in Words |-> IF w \in DOMAIN todo /\ w < m
                             THEN memory[w] \cap todo[w] ELSE memory[w]]

Program ==
  /\ ~Idle
  /\ \E m \in 0..NumWords : /\ ProgramTo(m)
                    /\ todo' = [w \in {v \in DOMAIN todo : v >= m} |-> todo[w]]
  /\ UNCHANGED <<target, result>>

Finish ==
  /\ ~Idle
  /\ target = -1
  /\ DOMAIN todo = {}
  /\ result' = "done"
  /\ UNCHANGED <<memory, todo, target>>

\* The device reports an error or the power fails, the last words programmed or not.
Fail ==
  /\ \E m \in 0..NumWords : ProgramTo(m)
  /\ todo' = << >>
  /\ target' = -1
  /\ result' = "error"

SectorOf(w) == w \div SectorWords

Erase ==
  /\ target \in Erasable
  /\ memory' = [w \in Words |-> IF SectorOf(w) = SectorOf(target) THEN Bits ELSE memory[w]]
  /\ target' = -1
  /\ result' = "done"
  /\ UNCHANGED todo

Refuse ==
  /\ target \notin Erasable \cup {-1}
  /\ target' = -1
  /\ result' = "refused"
  /\ UNCHANGED <<memory, todo>>

Next == BeginWrite \/ BeginErase \/ Misaligned \/ Program \/ Finish \/ Fail \/ Erase \/ Refuse

Spec == Init /\ [][Next]_<<memory, todo, target, result>>
==============================================================================
