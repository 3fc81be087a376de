------------------------- MODULE InternalFlashDriver -------------------------
(***************************************************************************)
(* The driver of the internal flash.  The device is programmed flash word  *)
(* by flash word, a group of FLASHWORD words at an aligned address; a      *)
(* write may start and end anywhere, so its first flash word is read and   *)
(* merged with what the device holds, and its last one is filled with      *)
(* erased bits.  One thread at a time calls the driver; power can fail     *)
(* between two calls of the HAL.                                           *)
(*                                                                         *)
(* Addresses count words from the start of the flash; a word is the set of *)
(* its bits that are 1.  The device is modelled from how the driver uses   *)
(* it: programming clears bits, an erase sets those of one sector.         *)
(***************************************************************************)
EXTENDS Integers, FiniteSets

CONSTANTS
  FLASHWORD,       \* INTERNAL_FLASH_FLASHWORD: words the device programs at once
  SECTOR_WORDS,    \* INTERNAL_FLASH_SECTOR_SIZE, in words
  SectorsPerBank,  \* the flash has two banks of them
  Bits,            \* bits of a word
  MaxWords,        \* bound: words of one write
  MaxProgrammed    \* bound: no write begins with more words programmed

ASSUME DriverAssumption ==
  /\ FLASHWORD \in Nat \ {0}
  /\ SECTOR_WORDS \in Nat \ {0}
  /\ SectorsPerBank \in Nat \ {0}
  /\ {MaxWords, MaxProgrammed} \subseteq Nat
  /\ SECTOR_WORDS % FLASHWORD = 0

VARIABLES
  memory,         \* the device: the bits of every word
  locked,         \* HAL_FLASH_Lock: the control register takes no command
  pc,             \* where the caller is in Write or Earse
  address_start,  \* parameter of both, advanced by Write
  num_words,      \* parameter of Write, what is left of it
  buffer,         \* parameter of Write, what is left of it
  i,              \* words of the loop over the aligned flash words done so far
  result          \* what the last call returned and printed

vars == <<memory, locked, pc, address_start, num_words, buffer, i, result>>

------------------------------------------------------------------------------
BankWords == SECTOR_WORDS * SectorsPerBank
NumWords == 2 * BankWords
Words == 0 .. NumWords - 1

HAL_ERROR == 1

Min2(a, b) == IF a <= b THEN a ELSE b

\* Mutant: a last test that takes one sector too many.
GetSecotrPastTheEnd(a) ==
  IF a <= NumWords THEN (a \div SECTOR_WORDS) % SectorsPerBank ELSE HAL_ERROR

\* The number of the sector in its bank; HAL_ERROR stands for no sector.
GetSecotr(a) == IF a < NumWords THEN (a \div SECTOR_WORDS) % SectorsPerBank ELSE HAL_ERROR

Bank(a) == IF a < BankWords THEN 1 ELSE 2

\* HAL_FLASHEx_Erase of one sector of a bank.
EraseSector(bank, sector) ==
  memory' = [w \in Words |->
    IF Bank(w) = bank /\ (w \div SECTOR_WORDS) % SectorsPerBank = sector
    THEN Bits ELSE memory[w]]

\* HAL_FLASH_Program of the flash word at base with the words of data.
ProgramFlashWord(base, data) ==
  memory' = [w \in Words |->
    IF w \in base .. base + FLASHWORD - 1 THEN memory[w] \cap data[w - base] ELSE memory[w]]

\* num_word_not_align of the first flash word, and of the last one.
HeadOffset == address_start % FLASHWORD
TailWords == num_words % FLASHWORD

\* num_word_need_shift
HeadWords == Min2(FLASHWORD - HeadOffset, num_words)

\* The flash word in s_buffer: n words of the buffer from its word k, placed at
\* offset, among the words rest.
Merge(offset, k, n, rest) ==
  [j \in 0 .. FLASHWORD - 1 |->
    IF j \in offset .. offset + n - 1 THEN rest[j] \cap buffer[k + j - offset] ELSE rest[j]]

Filler == [j \in 0 .. FLASHWORD - 1 |-> Bits]

Init ==
  /\ memory = [w \in Words |-> Bits]
  /\ locked = TRUE
  /\ pc = "idle"
  /\ address_start = 0
  /\ num_words = 0
  /\ buffer = << >>
  /\ i = 0
  /\ result = "done"

------------------------------------------------------------------------------
(* Write *)

\* Write returns, the flash locked; its locals are gone.
Leave(outcome) ==
  /\ pc' = "idle"
  /\ locked' = TRUE
  /\ result' = outcome
  /\ address_start' = 0
  /\ num_words' = 0
  /\ buffer' = << >>
  /\ i' = 0

WriteMisaligned ==
  /\ pc = "idle"
  /\ result' = "misaligned"
  /\ UNCHANGED <<memory, locked, pc, address_start, num_words, buffer, i>>

Write(a, n) ==
  /\ pc = "idle"
  /\ a + n <= NumWords
  /\ Cardinality({w \in Words : memory[w] # Bits}) <= MaxProgrammed
  /\ pc' = "head"
  /\ locked' = FALSE
  /\ result' = "none"
  /\ address_start' = a
  /\ num_words' = n
  /\ buffer' \in [0 .. n - 1 -> SUBSET Bits]
  /\ UNCHANGED <<memory, i>>

SkipHead ==
  /\ pc = "head"
  /\ HeadOffset = 0
  /\ pc' = "body"
  /\ UNCHANGED <<memory, locked, address_start, num_words, buffer, i, result>>

\* What the device holds of the first flash word is merged with the first words.
ProgramHead ==
  LET base == address_start - HeadOffset IN
  /\ HeadOffset # 0
  /\ ProgramFlashWord(base, Merge(HeadOffset, 0, HeadWords,
                                  [j \in 0 .. FLASHWORD - 1 |-> memory[base + j]]))

\* Mutant: num_words still counts the words of the first flash word.
HeadNotCounted ==
  /\ pc = "head"
  /\ ProgramHead
  /\ pc' = "body"
  /\ address_start' = address_start + HeadWords
  /\ buffer' = [j \in 0 .. num_words - HeadWords - 1 |-> buffer[j + HeadWords]]
  /\ UNCHANGED <<locked, num_words, i, result>>

\* Mutant: the address stays on the first, partial flash word.
HeadStays ==
  /\ pc = "head"
  /\ ProgramHead
  /\ pc' = "body"
  /\ num_words' = num_words - HeadWords
  /\ buffer' = [j \in 0 .. num_words - HeadWords - 1 |-> buffer[j + HeadWords]]
  /\ UNCHANGED <<locked, address_start, i, result>>

Head ==
  /\ pc = "head"
  /\ ProgramHead
  /\ pc' = "body"
  /\ num_words' = num_words - HeadWords
  /\ address_start' = address_start + HeadWords
  /\ buffer' = [j \in 0 .. num_words - HeadWords - 1 |-> buffer[j + HeadWords]]
  /\ UNCHANGED <<locked, i, result>>

\* The next whole flash word, which the HAL takes from the buffer itself.
ProgramBody ==
  /\ i + FLASHWORD <= num_words
  /\ ProgramFlashWord(address_start + i, Merge(0, i, FLASHWORD, Filler))

\* Mutant: the loop does not count.
BodyStuck ==
  /\ pc = "body"
  /\ ProgramBody
  /\ UNCHANGED <<locked, pc, address_start, num_words, buffer, i, result>>

Body ==
  /\ pc = "body"
  /\ ProgramBody
  /\ i' = i + FLASHWORD
  /\ UNCHANGED <<locked, pc, address_start, num_words, buffer, result>>

\* Mutant: the loop is left when no words are left, which a tail prevents.
BodyDoneExact ==
  /\ pc = "body"
  /\ i = num_words
  /\ pc' = "tail"
  /\ UNCHANGED <<memory, locked, address_start, num_words, buffer, i, result>>

BodyDone ==
  /\ pc = "body"
  /\ i + FLASHWORD > num_words
  /\ pc' = "tail"
  /\ UNCHANGED <<memory, locked, address_start, num_words, buffer, i, result>>

SkipTail ==
  /\ pc = "tail"
  /\ TailWords = 0
  /\ pc' = "return"
  /\ UNCHANGED <<memory, locked, address_start, num_words, buffer, i, result>>

\* The last words, the flash word filled up with erased bits.
ProgramTail ==
  /\ TailWords # 0
  /\ ProgramFlashWord(address_start + num_words - TailWords,
                      Merge(0, num_words - TailWords, TailWords, Filler))

Tail ==
  /\ pc = "tail"
  /\ ProgramTail
  /\ pc' = "return"
  /\ i' = num_words
  /\ UNCHANGED <<locked, address_start, num_words, buffer, result>>

Return ==
  /\ pc = "return"
  /\ Leave("done")
  /\ UNCHANGED memory

\* The flash word the step of pc programs.
ProgramNow == \/ pc = "head" /\ ProgramHead
              \/ pc = "body" /\ ProgramBody
              \/ pc = "tail" /\ ProgramTail

\* Mutant: an early return that forgets to lock the flash.
ProgramErrorUnlocked ==
  /\ ProgramNow
  /\ pc' = "idle"
  /\ result' = "error"
  /\ UNCHANGED <<locked, address_start, num_words, buffer, i>>

\* HAL_FLASH_Program reports an error, the flash word programmed or not.
ProgramError == ProgramNow /\ Leave("error")

\* HAL_FLASH_Program refuses the command.
ProgramRefused ==
  /\ \/ pc = "head" /\ HeadOffset # 0
     \/ pc = "body" /\ i + FLASHWORD <= num_words
     \/ pc = "tail" /\ TailWords # 0
  /\ Leave("error")
  /\ UNCHANGED memory

------------------------------------------------------------------------------
(* Earse *)

Earse(a) ==
  /\ pc = "idle"
  /\ pc' = "erase"
  /\ address_start' = a
  /\ result' = "none"
  /\ UNCHANGED <<memory, locked, num_words, buffer, i>>

\* No sector for this address: nothing was unlocked.
EarseRefused ==
  /\ pc = "erase"
  /\ GetSecotr(address_start) = HAL_ERROR
  /\ Leave("refused")
  /\ UNCHANGED memory

EarseUnlock ==
  /\ pc = "erase"
  /\ GetSecotr(address_start) # HAL_ERROR
  /\ pc' = "erasing"
  /\ locked' = FALSE
  /\ UNCHANGED <<memory, address_start, num_words, buffer, i, result>>

EarseDone ==
  /\ pc = "erasing"
  /\ EraseSector(Bank(address_start), GetSecotr(address_start))
  /\ Leave("done")

EarseError ==
  /\ pc = "erasing"
  /\ Leave("error")
  /\ UNCHANGED memory

------------------------------------------------------------------------------
\* RAM and the lock of the flash are reset, the words keep what they hold.
PowerFailure ==
  /\ pc # "idle"
  /\ Leave("error")
  /\ UNCHANGED memory

\* What a call does once it has begun.
Step ==
  \/ SkipHead \/ Head \/ Body \/ BodyDone \/ SkipTail \/ Tail \/ Return
  \/ EarseRefused \/ EarseUnlock \/ EarseDone

Fault == ProgramError \/ ProgramRefused \/ EarseError \/ PowerFailure

Next ==
  \/ WriteMisaligned
  \/ \E a \in Words, n \in 0..MaxWords : Write(a, n)
  \/ \E a \in 0..NumWords : Earse(a)   \* NumWords: any address outside the flash
  \/ Step
  \/ Fault

\* A call runs to its end: nothing in it waits.
Spec == Init /\ [][Next]_vars /\ WF_vars(Step)

------------------------------------------------------------------------------
TypeOK ==
  /\ memory \in [Words -> SUBSET Bits]
  /\ locked \in BOOLEAN
  /\ pc \in {"idle", "erase", "erasing", "head", "body", "tail", "return"}
  /\ result \in {"none", "done", "refused", "misaligned", "error"}
  /\ num_words \in 0..MaxWords
  /\ address_start \in 0..NumWords
  /\ buffer \in [0 .. num_words - 1 -> SUBSET Bits]
  /\ i \in 0..num_words

(* The flash takes no command unless a call is at work on it: every return of *)
(* Write and Earse, those on an error included, has locked it again.          *)
LockedWhenIdle == pc = "idle" => locked

(* Every flash word the driver programs begins at an aligned address, whatever *)
(* the alignment of the write: the words after a partial first flash word are  *)
(* counted from the next one.                                                  *)
ProgramsAligned ==
  pc \in {"body", "tail"} /\ i < num_words => (address_start + i) % FLASHWORD = 0

\* The steps a call has before it at most: those of its words, and those of its parts.
StepsLeft ==
  num_words - i
  + CASE pc = "head" -> 4
      [] pc = "body" -> 3
      [] pc = "tail" \/ pc = "erase" -> 2
      [] pc = "return" \/ pc = "erasing" -> 1
      [] pc = "idle" -> 0

(* A call gets nearer to its end with every step it takes, for all lengths and *)
(* alignments of its words and after every error of the HAL: no loop in it     *)
(* goes round for good, and no flash word is programmed again and again.       *)
CallsShorten == [][pc # "idle" => pc' = "idle" \/ StepsLeft' < StepsLeft]_vars

(* A call of the driver ends, and with it the time the flash is unlocked. *)
CallsReturn == pc # "idle" ~> pc = "idle"

------------------------------------------------------------------------------
(* The words the call has still to program, by their addresses. *)
Todo ==
  IF pc \in {"head", "body", "tail", "return"}
  THEN [w \in address_start + i .. address_start + num_words - 1 |-> buffer[w - address_start]]
  ELSE << >>

Memory ==
  INSTANCE FlashMemory
  WITH SectorWords <- SECTOR_WORDS,
       Erasable <- {a \in Words : (a \div SECTOR_WORDS) % SectorsPerBank # 1},
       todo <- Todo,
       target <- IF pc \in {"erase", "erasing"} THEN address_start ELSE -1

(* Write programs the words it was given, in order, where it was told, and no  *)
(* other word of the flash words it programs in part; it succeeds only with    *)
(* all of them programmed.  Earse erases the sector of its address, whole, and *)
(* nothing else; the only addresses of the flash it refuses are those of the   *)
(* sectors with the number 1, which HAL_ERROR stands for.                      *)
MemorySpec == Memory!Spec
==============================================================================
