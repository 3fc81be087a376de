--------------------------- MODULE FlashManagment ---------------------------
(***************************************************************************)
(* The flash management of the internal registry: a ring of logical blocks *)
(* over the sectors of the internal flash.  Every write of the registry    *)
(* goes to the next erased block, stamped with a growing counter; a start  *)
(* of the program looks for the block with the highest counter.  A sector  *)
(* is erased when the ring leaves it.                                      *)
(*                                                                         *)
(* A block is programmed flash word by flash word: the magic is in the     *)
(* first one, the size and the counter in the last one, so a block whose   *)
(* programming was cut short has a magic and an erased counter.  Power can *)
(* fail between any two flash operations.                                  *)
(*                                                                         *)
(* An address is the index of a logical block: m_start_address is block 0. *)
(***************************************************************************)
EXTENDS Integers

CONSTANTS
  NumSectors,       \* m_num_sector
  BlocksPerSector,  \* sector size / m_logical_block_size
  WordsPerBlock,    \* HAL_FLASH_Program calls that program one logical block
  Payloads,         \* the buffers the registry writes
  EmptyPayload,     \* the buffer of size 0
  NoPayload,        \* not a payload: the block holds no data
  Garbled,          \* not a payload: the data of a block programmed twice
  UINT32_MAX,       \* largest counter, the one an erased block reads as
  CounterBound,     \* bound: no write starts once m_counter has reached it
  PowerFaults,      \* may power fail?
  EraseFaults,      \* may HAL_FLASHEx_Erase report an error?
  EraseTears,       \* may power fail inside an erase?
  ProgramFaults     \* may HAL_FLASH_Program report an error?

ASSUME FlashAssumption ==
  /\ NumSectors \in Nat \ {0}
  /\ BlocksPerSector \in Nat \ {0, 1}
  /\ WordsPerBlock \in Nat \ {0, 1}
  /\ EmptyPayload \in Payloads
  /\ NoPayload \notin Payloads
  /\ Garbled \notin Payloads \cup {NoPayload}
  /\ UINT32_MAX \in Nat \ {0, 1}
  /\ CounterBound \in 0..UINT32_MAX
  /\ {PowerFaults, EraseFaults, EraseTears, ProgramFaults} \subseteq BOOLEAN

VARIABLES
  flash,              \* the device: what every block holds
  pc,                 \* where the only thread that uses the object is
  m_counter,          \* stamp of the next write
  m_current_address,  \* block of the last write, or of the last block found
  m_cache_buffer,     \* RAM image of the block: its payload and counter
  buffer,             \* parameter of the Write in progress
  last_address,       \* local of Write
  restart_for,        \* caller of RestartFlash
  index,              \* loop index: sector to erase, or flash word to program
  erase_failed,       \* has an erase ever failed (nobody looks), or been cut short
  write_ok            \* has the last write succeeded (its result is dropped as well)

vars == <<flash, pc, m_counter, m_current_address, m_cache_buffer, buffer,
          last_address, restart_for, index, erase_failed, write_ok>>

------------------------------------------------------------------------------
NumBlocks == NumSectors * BlocksPerSector
Blocks == 0 .. NumBlocks - 1

SectorOf(b) == b \div BlocksPerSector

Erased == [words |-> 0, counter |-> UINT32_MAX, payload |-> NoPayload]

Used(b) == flash[b].words > 0

\* Mutant: the search looks at the magic only.
ValidByMagic(b) == Used(b)

\* A block the search at start accepts: its magic and its counter are written.
Valid(b) == Used(b) /\ flash[b].counter # UINT32_MAX

\* Mutant: the comparison of the counters is turned round.
IsLastReversed(b) ==
  /\ Valid(b)
  /\ \A c \in Blocks : Valid(c) => flash[c].counter >= flash[b].counter

\* The block the search at start ends with: the first with the highest counter.
IsLast(b) ==
  /\ Valid(b)
  /\ \A c \in Blocks : Valid(c) =>
       \/ flash[c].counter < flash[b].counter
       \/ flash[c].counter = flash[b].counter /\ b <= c

\* The k-th block after b on the ring.
Ahead(b, k) == IF b + k < NumBlocks THEN b + k ELSE b + k - NumBlocks

\* Mutant: the next block is taken without looking at its magic.
FindNextBlock(b) == b = Ahead(m_current_address, 1)

\* FindGoodBlock stops at b: the first erased block after m_current_address,
\* which is itself the last one looked at.
FindGoodBlock(b) ==
  \E k \in 1..NumBlocks :
    /\ b = Ahead(m_current_address, k)
    /\ ~Used(b)
    /\ \A j \in 1..k - 1 : Used(Ahead(m_current_address, j))

\* FindGoodBlock returns false.
NoGoodBlock == \A b \in Blocks : Used(b)

EraseBlocks(S) == flash' = [b \in Blocks |-> IF b \in S THEN Erased ELSE flash[b]]

BlocksOf(s) == {b \in Blocks : SectorOf(b) = s}

\* An erase returns: done, or refused by the HAL, which no caller looks at.
Erase(s) ==
  \/ EraseBlocks(BlocksOf(s)) /\ UNCHANGED erase_failed
  \/ EraseFaults /\ erase_failed' = TRUE /\ UNCHANGED flash

\* The image of the block, and the counter after it.
WriteToCache(p, counter) ==
  /\ m_cache_buffer' = [payload |-> p, counter |-> counter]
  /\ m_counter' = counter + 1

Types ==
  [words : 0..WordsPerBlock, counter : 0..UINT32_MAX,
   payload : Payloads \cup {NoPayload, Garbled}]

TypeOK ==
  /\ flash \in [Blocks -> Types]
  /\ pc \in {"off", "restart", "idle", "eraseOld", "cached", "program"}
  /\ m_counter \in 0..UINT32_MAX
  /\ m_current_address \in Blocks
  /\ m_cache_buffer \in [payload : Payloads \cup {Garbled}, counter : 0..UINT32_MAX]
  /\ buffer \in Payloads
  /\ last_address \in Blocks
  /\ restart_for \in {"boot", "write"}
  /\ index \in Nat
  /\ erase_failed \in BOOLEAN
  /\ write_ok \in BOOLEAN

Init ==
  /\ flash = [b \in Blocks |-> Erased]
  /\ pc = "off"
  /\ m_counter = 0
  /\ m_current_address = 0
  /\ m_cache_buffer = [payload |-> EmptyPayload, counter |-> 0]
  /\ buffer = EmptyPayload
  /\ last_address = 0
  /\ restart_for = "boot"
  /\ index = 0
  /\ erase_failed = FALSE
  /\ write_ok = FALSE

------------------------------------------------------------------------------
(* The start of the program: the constructor. *)

\* Mutant: the counter is not stepped past the one that was found.
FindLastSameCounter(b) ==
  /\ pc = "off"
  /\ IsLast(b)
  /\ pc' = "idle"
  /\ m_counter' = flash[b].counter
  /\ m_current_address' = b
  /\ m_cache_buffer' = [payload |-> flash[b].payload, counter |-> flash[b].counter]
  /\ UNCHANGED <<flash, buffer, last_address, restart_for, index, erase_failed, write_ok>>

\* Some block is valid.  Reading it back fills the cache buffer.
FindLastLogicalBlock(b) ==
  /\ pc = "off"
  /\ IsLast(b)
  /\ pc' = "idle"
  /\ m_counter' = flash[b].counter + 1
  /\ m_current_address' = b
  /\ m_cache_buffer' = [payload |-> flash[b].payload, counter |-> flash[b].counter]
  /\ UNCHANGED <<flash, buffer, last_address, restart_for, index, erase_failed, write_ok>>

\* No block is valid: erase everything.
FindNoBlock ==
  /\ pc = "off"
  /\ \A b \in Blocks : ~Valid(b)
  /\ pc' = "restart"
  /\ m_counter' = UINT32_MAX
  /\ restart_for' = "boot"
  /\ index' = 0
  /\ UNCHANGED <<flash, m_current_address, m_cache_buffer, buffer,
                 last_address, erase_failed, write_ok>>

\* One turn of the loop of RestartFlash that is not the last.
RestartSector ==
  /\ pc = "restart"
  /\ index < NumSectors - 1
  /\ Erase(index)
  /\ index' = index + 1
  /\ UNCHANGED <<pc, m_counter, m_current_address, m_cache_buffer, buffer,
                 last_address, restart_for, write_ok>>

\* The last turn, and the rest of RestartFlash: back in the constructor ...
RestartForBoot ==
  /\ pc = "restart"
  /\ restart_for = "boot"
  /\ index = NumSectors - 1
  /\ Erase(index)
  /\ m_current_address' = 0
  /\ WriteToCache(EmptyPayload, 0)
  /\ pc' = "idle"
  /\ UNCHANGED <<buffer, last_address, restart_for, index, write_ok>>

\* ... or back in Write, which skips block 0 and stamps its own image.
RestartForWrite ==
  /\ pc = "restart"
  /\ restart_for = "write"
  /\ index = NumSectors - 1
  /\ Erase(index)
  /\ m_current_address' = 1
  /\ last_address' = 0
  /\ WriteToCache(buffer, 1)
  /\ pc' = "cached"
  /\ UNCHANGED <<buffer, restart_for, index, write_ok>>

------------------------------------------------------------------------------
(* Write, then WriteToFlash. *)

\* Write finds an erased block; the sector it leaves is erased before it returns.
Write(p) ==
  /\ pc = "idle"
  /\ m_counter < CounterBound
  /\ \E b \in Blocks :
       /\ FindGoodBlock(b)
       /\ m_current_address' = b
       /\ pc' = IF SectorOf(m_current_address) = SectorOf(b) THEN "cached" ELSE "eraseOld"
  /\ last_address' = m_current_address
  /\ buffer' = p
  /\ WriteToCache(p, m_counter)
  /\ write_ok' = FALSE
  /\ UNCHANGED <<flash, restart_for, index, erase_failed>>

\* Write finds the ring full and restarts it.
WriteFull(p) ==
  /\ pc = "idle"
  /\ m_counter < CounterBound
  /\ NoGoodBlock
  /\ pc' = "restart"
  /\ restart_for' = "write"
  /\ index' = 0
  /\ buffer' = p
  /\ last_address' = m_current_address
  /\ write_ok' = FALSE
  /\ UNCHANGED <<flash, m_counter, m_current_address, m_cache_buffer, erase_failed>>

\* Mutant: the old sector is left as it is.
KeepOldSector ==
  /\ pc = "eraseOld"
  /\ pc' = "cached"
  /\ UNCHANGED <<flash, m_counter, m_current_address, m_cache_buffer, buffer, last_address,
                 restart_for, index, erase_failed, write_ok>>

\* Mutant: the sector of the chosen block is erased.
EraseNewSector ==
  /\ pc = "eraseOld"
  /\ Erase(SectorOf(m_current_address))
  /\ pc' = "cached"
  /\ UNCHANGED <<m_counter, m_current_address, m_cache_buffer, buffer, last_address,
                 restart_for, index, write_ok>>

EraseOldSector ==
  /\ pc = "eraseOld"
  /\ Erase(SectorOf(last_address))
  /\ pc' = "cached"
  /\ UNCHANGED <<m_counter, m_current_address, m_cache_buffer, buffer, last_address,
                 restart_for, index, write_ok>>

WriteToFlash ==
  /\ pc = "cached"
  /\ pc' = "program"
  /\ index' = 1
  /\ UNCHANGED <<flash, m_counter, m_current_address, m_cache_buffer, buffer, last_address,
                 restart_for, erase_failed, write_ok>>

\* The block after flash word w of the image is programmed.  Programming a word
\* that is not erased can only clear bits: the data is garbled and the counter
\* any value up to both.
Programmed(old, w) ==
  LET again == w <= old.words
      last == w = WordsPerBlock
      counters == IF ~last THEN {old.counter}
                  ELSE IF again
                  THEN {c \in 0..UINT32_MAX : c <= old.counter /\ c <= m_cache_buffer.counter}
                  ELSE {m_cache_buffer.counter}
      payload == IF again \/ old.payload = Garbled THEN Garbled
                 ELSE IF last THEN m_cache_buffer.payload ELSE old.payload
  IN  {[words |-> IF again THEN old.words ELSE w, counter |-> c, payload |-> payload] :
         c \in counters}

Program ==
  \E new \in Programmed(flash[m_current_address], index) :
    flash' = [flash EXCEPT ![m_current_address] = new]

\* One call of HAL_FLASH_Program.
ProgramWord ==
  /\ pc = "program"
  /\ Program
  /\ IF index = WordsPerBlock
       THEN pc' = "idle" /\ write_ok' = TRUE /\ UNCHANGED index
       ELSE index' = index + 1 /\ UNCHANGED <<pc, write_ok>>
  /\ UNCHANGED <<m_counter, m_current_address, m_cache_buffer, buffer, last_address,
                 restart_for, erase_failed>>

\* The call fails, with the word programmed or not: the driver gives the block up, and
\* nobody learns of it.
ProgramError ==
  /\ ProgramFaults
  /\ pc = "program"
  /\ Program \/ UNCHANGED flash
  /\ pc' = "idle"
  /\ write_ok' = FALSE
  /\ UNCHANGED <<m_counter, m_current_address, m_cache_buffer, buffer, last_address,
                 restart_for, index, erase_failed>>

------------------------------------------------------------------------------
(* Power failures: RAM is lost, the device keeps what it holds. *)

PowerFailure ==
  /\ PowerFaults
  /\ pc # "off"
  /\ pc' = "off"
  /\ write_ok' = FALSE
  /\ UNCHANGED <<flash, m_counter, m_current_address, m_cache_buffer, buffer, last_address,
                 restart_for, index, erase_failed>>

\* Power fails inside an erase: some blocks of the sector are erased, some not.
PowerFailureInErase ==
  /\ PowerFaults /\ EraseTears
  /\ pc \in {"restart", "eraseOld"}
  /\ \E S \in SUBSET BlocksOf(IF pc = "restart" THEN index ELSE SectorOf(last_address)) :
       EraseBlocks(S)
  /\ erase_failed' = TRUE
  /\ pc' = "off"
  /\ write_ok' = FALSE
  /\ UNCHANGED <<m_counter, m_current_address, m_cache_buffer, buffer, last_address,
                 restart_for, index>>

------------------------------------------------------------------------------
Restart == RestartSector \/ RestartForBoot \/ RestartForWrite

Boot == FindNoBlock \/ \E b \in Blocks : FindLastLogicalBlock(b)

Next ==
  \/ Boot
  \/ Restart
  \/ \E p \in Payloads : Write(p) \/ WriteFull(p)
  \/ EraseOldSector
  \/ WriteToFlash
  \/ ProgramWord
  \/ ProgramError
  \/ PowerFailure
  \/ PowerFailureInErase

Spec == Init /\ [][Next]_vars

------------------------------------------------------------------------------
(* What a start of the program would find now. *)

Recovered ==
  IF \E b \in Blocks : IsLast(b)
  THEN flash[CHOOSE b \in Blocks : IsLast(b)].payload
  ELSE NoPayload

InWrite ==
  \/ pc \in {"eraseOld", "cached", "program"}
  \/ pc = "restart" /\ restart_for = "write"

------------------------------------------------------------------------------
(* Properties.  An erase that failed, or that power cut short, may leave stale
   blocks behind, and nothing below is claimed from then on. *)

\* Blocks in use never straddle two sectors: leaving a sector erases it before
\* the first word is programmed in the next (Write, EraseSector).
OneSectorInUse ==
  ~erase_failed =>
    \A b, c \in Blocks : Used(b) /\ Used(c) => SectorOf(b) = SectorOf(c)

\* No flash word is programmed twice: the block a write has chosen stays erased
\* up to the word WriteToFlash is at, whatever torn blocks are around it.
WriteOnce ==
  ~erase_failed =>
    /\ pc \in {"eraseOld", "cached"} => ~Used(m_current_address)
    /\ pc = "program" => flash[m_current_address].words = index - 1

\* Two valid blocks never carry the same counter, and the next write outbids
\* them all: a start that took the counter up wrongly would make the search
\* prefer old data.
StampsGrow ==
  ~erase_failed =>
    /\ \A b, c \in Blocks :
         Valid(b) /\ Valid(c) /\ flash[b].counter = flash[c].counter => b = c
    /\ pc \in {"idle", "eraseOld", "cached", "program"} =>
         \A b \in Blocks : Valid(b) => flash[b].counter < m_counter

\* With two sectors or more, Write always finds an erased block: the branch that
\* gives up all data ("Corrupted magic!, reset the flash!") is never taken.
RingNeverFull ==
  ~erase_failed /\ NumSectors > 1 => ~(pc = "restart" /\ restart_for = "write")

\* The flash implements a register that is written atomically, survives power
\* failures outside an erase, and is lost only in a write.
Stored == IF erase_failed THEN NoPayload ELSE Recovered

Submitted == IF InWrite THEN buffer ELSE NoPayload

Saved == IF erase_failed THEN FALSE ELSE write_ok

Register == INSTANCE DurableRegister WITH
  stored <- Stored, submitted <- Submitted, saved <- Saved

RegisterSpec == Register!Spec
==============================================================================
