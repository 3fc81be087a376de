----------------------- MODULE FlashManagment_proofs -----------------------
(***************************************************************************)
(* Proofs about the flash management, for every number of sectors, blocks  *)
(* and flash words, every set of payloads and every combination of faults. *)
(***************************************************************************)
EXTENDS FlashManagment, TLAPS

------------------------------------------------------------------------------
(* The inductive invariant. *)

Writing == pc \in {"eraseOld", "cached", "program"}

\* The loop index is in range, and a block whose counter was written has data.
Shape ==
  /\ pc = "restart" => index \in 0..NumSectors - 1
  /\ pc = "program" => index \in 1..WordsPerBlock
  /\ \A b \in Blocks : flash[b].counter # UINT32_MAX => flash[b].payload # NoPayload

\* A write in progress has not succeeded yet.
NotYet == pc # "idle" => write_ok = FALSE

\* The counter and the data of a block appear with its last flash word.
TornBlocksInvalid ==
  \A b \in Blocks : flash[b].words < WordsPerBlock =>
    flash[b].counter = UINT32_MAX /\ flash[b].payload = NoPayload

\* The blocks in use are in the sector of the last write, or, while that sector
\* is still to be erased, in the one the ring is leaving.
Home ==
  /\ pc = "idle" \/ pc = "cached" \/ pc = "program" \/ (pc = "restart" /\ restart_for = "write") =>
       \A b \in Blocks : Used(b) => SectorOf(b) = SectorOf(m_current_address)
  /\ pc = "eraseOld" =>
       \A b \in Blocks : Used(b) => SectorOf(b) = SectorOf(last_address)

OneSector == \A b, c \in Blocks : Used(b) /\ Used(c) => SectorOf(b) = SectorOf(c)

Once ==
  /\ pc \in {"eraseOld", "cached"} => ~Used(m_current_address)
  /\ pc = "program" => flash[m_current_address].words = index - 1

Distinct ==
  \A b, c \in Blocks :
    Valid(b) /\ Valid(c) /\ flash[b].counter = flash[c].counter => b = c

\* The stamp of the write in progress is above every stamp on the device.
Outbids ==
  /\ pc = "idle" => \A b \in Blocks : Valid(b) => flash[b].counter < m_counter
  /\ Writing =>
       /\ m_counter = m_cache_buffer.counter + 1
       /\ m_cache_buffer.payload = buffer
       /\ \A b \in Blocks : Valid(b) => flash[b].counter < m_cache_buffer.counter

\* RestartFlash has erased the sectors below its index, and started on a device
\* without valid blocks if the constructor called it.
Restarting ==
  pc = "restart" =>
    /\ \A b \in Blocks : SectorOf(b) < index => ~Used(b)
    /\ restart_for = "boot" => \A b \in Blocks : ~Valid(b)

NeverFull == NumSectors > 1 => ~(pc = "restart" /\ restart_for = "write")

Sound ==
  /\ TornBlocksInvalid
  /\ Home
  /\ OneSector
  /\ Once
  /\ Distinct
  /\ Outbids
  /\ Restarting
  /\ NeverFull

IInv == TypeOK /\ Shape /\ NotYet /\ (~erase_failed => Sound)

------------------------------------------------------------------------------
(* The geometry of the ring. *)

\* The ring has two blocks or more, and the first two exist.
LEMMA RingSize == NumBlocks \in Nat /\ NumBlocks >= 2 /\ {0, 1} \subseteq Blocks
<1>1. NumBlocks \in Nat
  BY FlashAssumption DEF NumBlocks
<1>2. NumBlocks >= 2
  <2>1. NumSectors >= 1 /\ BlocksPerSector >= 2 /\ NumSectors \in Nat /\ BlocksPerSector \in Nat
    BY FlashAssumption
  <2>2. (NumSectors - 1) * BlocksPerSector >= 0
    BY <2>1
  <2>3. NumSectors * BlocksPerSector = (NumSectors - 1) * BlocksPerSector + BlocksPerSector
    BY <2>1
  <2> QED
    BY <2>1, <2>2, <2>3 DEF NumBlocks
<1> QED
  BY <1>1, <1>2 DEF Blocks

\* The sector of a block is one of the sectors of the registry: the search of
\* IsAdressInSameSector never falls through.
LEMMA SectorInRange == \A b \in Blocks : SectorOf(b) \in 0..NumSectors - 1
<1> SUFFICES ASSUME NEW b \in Blocks PROVE SectorOf(b) \in 0..NumSectors - 1
  OBVIOUS
<1> DEFINE q == b \div BlocksPerSector
           r == b % BlocksPerSector
<1>1. NumSectors \in Nat /\ BlocksPerSector \in Nat /\ BlocksPerSector >= 2 /\ b \in Nat /\ b < NumSectors * BlocksPerSector
  BY FlashAssumption, RingSize DEF Blocks, NumBlocks
<1>2. q \in Int /\ r \in 0..BlocksPerSector - 1 /\ b = q * BlocksPerSector + r
  BY <1>1, SMT
<1> HIDE DEF q, r
<1>3. q >= 0
  <2>1. SUFFICES ASSUME q <= -1 PROVE FALSE
    BY <1>2
  <2>2. (-1 - q) * BlocksPerSector >= 0
    BY <1>1, <1>2, <2>1
  <2>3. (-1 - q) * BlocksPerSector = -BlocksPerSector - q * BlocksPerSector
    BY <1>1, <1>2
  <2> QED
    BY <1>1, <1>2, <2>2, <2>3
<1>4. q <= NumSectors - 1
  <2>1. SUFFICES ASSUME q >= NumSectors PROVE FALSE
    BY <1>1, <1>2
  <2>2. (q - NumSectors) * BlocksPerSector >= 0
    BY <1>1, <1>2, <2>1
  <2>3. (q - NumSectors) * BlocksPerSector = q * BlocksPerSector - NumSectors * BlocksPerSector
    BY <1>1, <1>2
  <2> QED
    BY <1>1, <1>2, <2>2, <2>3
<1> QED
  BY <1>1, <1>2, <1>3, <1>4 DEF SectorOf, q

\* Blocks 0 and 1 share the first sector.
LEMMA FirstBlocks == SectorOf(0) = 0 /\ SectorOf(1) = 0
<1>1. BlocksPerSector \in Nat /\ BlocksPerSector >= 2
  BY FlashAssumption
<1> QED
  BY <1>1, SMT DEF SectorOf

\* With two sectors the ring has blocks in different ones.
LEMMA TwoSectors ==
  ASSUME NumSectors > 1
  PROVE  \E b, c \in Blocks : SectorOf(b) # SectorOf(c)
<1>1. NumSectors \in Nat /\ BlocksPerSector \in Nat /\ BlocksPerSector >= 2
  BY FlashAssumption
<1>2. BlocksPerSector \in Blocks
  <2>1. (NumSectors - 2) * BlocksPerSector >= 0
    BY <1>1
  <2>2. NumSectors * BlocksPerSector = (NumSectors - 2) * BlocksPerSector + 2 * BlocksPerSector
    BY <1>1
  <2> QED
    BY <1>1, <2>1, <2>2 DEF Blocks, NumBlocks
<1>3. SectorOf(BlocksPerSector) = 1
  BY <1>1, SMT DEF SectorOf
<1> QED
  BY <1>2, <1>3, FirstBlocks, RingSize

------------------------------------------------------------------------------
(* Types. *)

LEMMA InitType == Init => TypeOK /\ Shape
<1> SUFFICES ASSUME Init PROVE TypeOK /\ Shape
  OBVIOUS
<1>1. Erased \in Types
  BY FlashAssumption DEF Erased, Types
<1>2. flash \in [Blocks -> Types]
  BY <1>1 DEF Init
<1>3. m_cache_buffer \in [payload : Payloads \cup {Garbled}, counter : 0..UINT32_MAX]
  BY FlashAssumption DEF Init
<1>4. TypeOK
  BY <1>2, <1>3, FlashAssumption, RingSize DEF Init, TypeOK
<1>5. \A b \in Blocks : flash[b].counter = UINT32_MAX
  BY DEF Init, Erased
<1> QED
  BY <1>4, <1>5 DEF Init, Shape

\* An erase keeps the type of the device.
LEMMA EraseBlocksType ==
  ASSUME TypeOK, Shape, NEW S \in SUBSET Blocks, EraseBlocks(S)
  PROVE  /\ flash' \in [Blocks -> Types]
         /\ \A b \in Blocks : flash'[b].counter # UINT32_MAX => flash'[b].payload # NoPayload
BY FlashAssumption DEF TypeOK, Shape, EraseBlocks, Erased, Types

LEMMA EraseType ==
  ASSUME TypeOK, Shape, NEW s, Erase(s)
  PROVE  /\ flash' \in [Blocks -> Types]
         /\ erase_failed' \in BOOLEAN
         /\ \A b \in Blocks : flash'[b].counter # UINT32_MAX => flash'[b].payload # NoPayload
<1>1. CASE EraseBlocks(BlocksOf(s)) /\ UNCHANGED erase_failed
  BY <1>1, EraseBlocksType DEF BlocksOf, TypeOK
<1>2. CASE EraseFaults /\ erase_failed' = TRUE /\ UNCHANGED flash
  BY <1>2 DEF TypeOK, Shape
<1> QED
  BY <1>1, <1>2 DEF Erase

LEMMA ProgramType ==
  ASSUME TypeOK, Shape, pc = "program",
         NEW new \in Programmed(flash[m_current_address], index)
  PROVE  new \in Types /\ (new.counter # UINT32_MAX => new.payload # NoPayload)
<1>1. flash[m_current_address] \in Types /\ index \in 1..WordsPerBlock
  BY DEF TypeOK, Shape
<1>2. m_cache_buffer.payload \in Payloads \cup {Garbled} /\ m_cache_buffer.counter \in 0..UINT32_MAX
  BY DEF TypeOK
<1>3. flash[m_current_address].counter # UINT32_MAX => flash[m_current_address].payload # NoPayload
  BY DEF TypeOK, Shape
<1> QED
  BY <1>1, <1>2, <1>3, FlashAssumption DEF Programmed, Types

LEMMA ProgramFlashType ==
  ASSUME TypeOK, Shape, pc = "program", Program
  PROVE  /\ flash' \in [Blocks -> Types]
         /\ \A b \in Blocks : flash'[b].counter # UINT32_MAX => flash'[b].payload # NoPayload
<1>1. PICK new \in Programmed(flash[m_current_address], index) :
        flash' = [flash EXCEPT ![m_current_address] = new]
  BY DEF Program
<1>2. new \in Types /\ (new.counter # UINT32_MAX => new.payload # NoPayload)
  BY ProgramType
<1> QED
  BY <1>1, <1>2 DEF TypeOK, Shape

LEMMA NextType == TypeOK /\ Shape /\ [Next]_vars => TypeOK' /\ Shape'
<1> SUFFICES ASSUME TypeOK, Shape, [Next]_vars PROVE TypeOK' /\ Shape'
  OBVIOUS
<1> USE FlashAssumption, RingSize
<1>1. ASSUME NEW b \in Blocks, FindLastLogicalBlock(b) PROVE TypeOK' /\ Shape'
  <2>1. flash[b] \in Types /\ flash[b].counter # UINT32_MAX /\ flash[b].payload # NoPayload
    BY <1>1 DEF TypeOK, Shape, FindLastLogicalBlock, IsLast, Valid
  <2> QED
    BY <1>1, <2>1 DEF TypeOK, Shape, FindLastLogicalBlock, Types
<1>2. CASE FindNoBlock
  BY <1>2 DEF TypeOK, Shape, FindNoBlock
<1>3. CASE RestartSector
  BY <1>3, EraseType DEF TypeOK, Shape, RestartSector
<1>4. CASE RestartForBoot
  BY <1>4, EraseType DEF TypeOK, Shape, RestartForBoot, WriteToCache
<1>5. CASE RestartForWrite
  BY <1>5, EraseType DEF TypeOK, Shape, RestartForWrite, WriteToCache
<1>6. ASSUME NEW p \in Payloads, Write(p) PROVE TypeOK' /\ Shape'
  <2>1. write_ok' \in BOOLEAN
    BY <1>6 DEF Write
  <2> QED
    BY <1>6, <2>1 DEF TypeOK, Shape, Write, WriteToCache
<1>7. ASSUME NEW p \in Payloads, WriteFull(p) PROVE TypeOK' /\ Shape'
  <2>1. write_ok' \in BOOLEAN
    BY <1>7 DEF WriteFull
  <2> QED
    BY <1>7, <2>1 DEF TypeOK, Shape, WriteFull
<1>8. CASE EraseOldSector
  BY <1>8, EraseType DEF TypeOK, Shape, EraseOldSector
<1>9. CASE WriteToFlash
  BY <1>9 DEF TypeOK, Shape, WriteToFlash
<1>10. CASE ProgramWord
  <2>3. /\ flash' \in [Blocks -> Types]
        /\ \A b \in Blocks : flash'[b].counter # UINT32_MAX => flash'[b].payload # NoPayload
    BY <1>10, ProgramFlashType DEF ProgramWord
  <2>4. /\ pc' \in {"program", "idle"} /\ write_ok' \in BOOLEAN
        /\ index' \in Nat /\ (pc' = "program" => index' \in 1..WordsPerBlock)
    <3>1. index \in 1..WordsPerBlock /\ write_ok \in BOOLEAN
      BY <1>10 DEF TypeOK, Shape, ProgramWord
    <3>2. CASE index = WordsPerBlock
      BY <1>10, <3>1, <3>2 DEF ProgramWord
    <3>3. CASE index # WordsPerBlock
      BY <1>10, <3>1, <3>3 DEF ProgramWord
    <3> QED
      BY <3>2, <3>3
  <2>5. TypeOK'
    BY <1>10, <2>3, <2>4 DEF TypeOK, ProgramWord
  <2> QED
    BY <2>3, <2>4, <2>5 DEF Shape
<1>11. CASE ProgramError
  <2>1. /\ flash' \in [Blocks -> Types]
        /\ \A b \in Blocks : flash'[b].counter # UINT32_MAX => flash'[b].payload # NoPayload
    BY <1>11, ProgramFlashType DEF ProgramError, TypeOK, Shape
  <2> QED
    BY <1>11, <2>1 DEF TypeOK, Shape, ProgramError
<1>12. CASE PowerFailure
  BY <1>12 DEF TypeOK, Shape, PowerFailure
<1>13. CASE PowerFailureInErase
  BY <1>13, EraseBlocksType DEF TypeOK, Shape, PowerFailureInErase, BlocksOf
<1>14. CASE UNCHANGED vars
  BY <1>14 DEF TypeOK, Shape, vars
<1> QED
  BY <1>1, <1>2, <1>3, <1>4, <1>5, <1>6, <1>7, <1>8, <1>9, <1>10, <1>11, <1>12, <1>13, <1>14
  DEF Next, Boot, Restart

LEMMA NextNotYet == NotYet /\ [Next]_vars => NotYet'
BY DEF NotYet, Next, Boot, Restart, FindNoBlock, FindLastLogicalBlock, RestartSector,
   RestartForBoot, RestartForWrite, Write, WriteFull, EraseOldSector, WriteToFlash,
   ProgramWord, ProgramError, PowerFailure, PowerFailureInErase, vars

\* Every variable keeps its type, for every fault the constants allow: the counter
\* stays a 32 bit number and the ring never leaves the flash.
THEOREM TypeCorrect == Spec => []TypeOK
<1>1. Init => TypeOK /\ Shape
  BY InitType
<1>2. TypeOK /\ Shape /\ [Next]_vars => TypeOK' /\ Shape'
  BY NextType
<1> QED
  BY <1>1, <1>2, PTL DEF Spec
------------------------------------------------------------------------------
(* The inductive invariant is kept. *)

\* An erase erases blocks, and leaves the others as they are.
LEMMA EraseEffect ==
  ASSUME TypeOK, NEW s, Erase(s), ~erase_failed'
  PROVE  /\ \A b \in Blocks : SectorOf(b) = s => flash'[b] = Erased
         /\ \A b \in Blocks : flash'[b] \in {flash[b], Erased}
         /\ ~erase_failed
<1>1. EraseBlocks(BlocksOf(s)) /\ ~erase_failed
  BY DEF Erase
<1>2. \A b \in Blocks : flash'[b] = IF SectorOf(b) = s THEN Erased ELSE flash[b]
  BY <1>1 DEF EraseBlocks, BlocksOf
<1> QED
  BY <1>1, <1>2

\* What holds of all blocks in use, or of all valid blocks, survives erases.
LEMMA EraseKeeps ==
  ASSUME TypeOK, Sound, \A b \in Blocks : flash'[b] \in {flash[b], Erased}
  PROVE  /\ \A b \in Blocks : Used(b)' => Used(b)
         /\ \A b \in Blocks : Valid(b)' => Valid(b) /\ flash'[b] = flash[b]
         /\ TornBlocksInvalid'
         /\ OneSector'
         /\ Distinct'
<1>1. Erased.words = 0 /\ Erased.counter = UINT32_MAX /\ Erased.payload = NoPayload
  BY DEF Erased
<1>2. \A b \in Blocks : Used(b)' => Used(b) /\ flash'[b] = flash[b]
  BY <1>1 DEF Used
<1>3. \A b \in Blocks : Valid(b)' => Valid(b) /\ flash'[b] = flash[b]
  BY <1>1, <1>2 DEF Valid
<1>4. TornBlocksInvalid'
  BY <1>1 DEF Sound, TornBlocksInvalid
<1>5. OneSector'
  BY <1>2 DEF Sound, OneSector, SectorOf
<1>6. Distinct'
  BY <1>3 DEF Sound, Distinct
<1> QED
  BY <1>2, <1>3, <1>4, <1>5, <1>6

\* Nothing that depends only on the device changes with a step that leaves it alone.
LEMMA FlashUnchanged ==
  ASSUME Sound, UNCHANGED flash
  PROVE  /\ \A b \in Blocks : (Used(b)' <=> Used(b)) /\ (Valid(b)' <=> Valid(b)) /\ flash'[b] = flash[b]
         /\ TornBlocksInvalid'
         /\ OneSector'
         /\ Distinct'
BY DEF Sound, TornBlocksInvalid, OneSector, Distinct, Used, Valid, SectorOf

LEMMA BootSound ==
  ASSUME TypeOK, Sound, Boot
  PROVE  Sound'
<1>1. CASE FindNoBlock
  <2>1. UNCHANGED flash /\ pc' = "restart" /\ restart_for' = "boot" /\ index' = 0
    BY <1>1 DEF FindNoBlock
  <2>2. Restarting'
    BY <1>1, <2>1, FlashUnchanged, SectorInRange DEF Restarting, FindNoBlock, SectorOf
  <2> QED
    BY <2>1, <2>2, FlashUnchanged DEF Sound, Home, Once, Outbids, NeverFull, Writing
<1>2. ASSUME NEW b \in Blocks, FindLastLogicalBlock(b) PROVE Sound'
  <2>1. UNCHANGED flash /\ pc' = "idle" /\ m_counter' = flash[b].counter + 1 /\ m_current_address' = b /\ IsLast(b)
    BY <1>2 DEF FindLastLogicalBlock
  <2>2. Home'
    <3>1. \A c \in Blocks : Used(c) => SectorOf(c) = SectorOf(b)
      BY <2>1 DEF IsLast, Valid, Sound, OneSector
    <3> QED
      BY <2>1, <3>1, FlashUnchanged DEF Home, SectorOf
  <2>3. Outbids'
    <3>1. flash[b].counter \in Nat /\ \A c \in Blocks : flash[c].counter \in Nat
      BY DEF TypeOK, Types
    <3>2. \A c \in Blocks : Valid(c) => flash[c].counter < flash[b].counter + 1
      BY <2>1, <3>1 DEF IsLast
    <3> QED
      BY <2>1, <3>2, FlashUnchanged DEF Outbids, Writing
  <2> QED
    BY <2>1, <2>2, <2>3, FlashUnchanged DEF Sound, Once, Restarting, NeverFull
<1> QED
  BY <1>1, <1>2 DEF Boot

\* After its last turn RestartFlash has erased every block.
LEMMA RestartErasesAll ==
  ASSUME TypeOK, Sound, pc = "restart", index = NumSectors - 1, Erase(index), ~erase_failed'
  PROVE  \A b \in Blocks : ~Used(b)'
<1> SUFFICES ASSUME NEW b \in Blocks PROVE ~Used(b)'
  OBVIOUS
<1>1. CASE SectorOf(b) = index
  BY <1>1, EraseEffect DEF Used, Erased
<1>2. CASE SectorOf(b) # index
  <2>1. SectorOf(b) < index
    BY <1>2, SectorInRange, FlashAssumption
  <2>2. ~Used(b)
    BY <2>1 DEF Sound, Restarting
  <2> QED
    BY <2>2, EraseEffect, EraseKeeps
<1> QED
  BY <1>1, <1>2

LEMMA RestartSound ==
  ASSUME TypeOK, Shape, Sound, Restart, ~erase_failed'
  PROVE  Sound'
<1>1. CASE RestartSector
  <2>1. pc = "restart" /\ pc' = "restart" /\ Erase(index) /\ index' = index + 1 /\ index \in Nat
        /\ UNCHANGED <<restart_for, m_current_address>>
    BY <1>1 DEF RestartSector, TypeOK
  <2>2. Restarting'
    <3>1. ASSUME NEW b \in Blocks, SectorOf(b) < index + 1 PROVE ~Used(b)'
      <4>1. SectorOf(b) = index \/ SectorOf(b) < index
        BY <2>1, <3>1, SectorInRange, FlashAssumption
      <4>2. CASE SectorOf(b) = index
        BY <2>1, <4>2, EraseEffect DEF Used, Erased
      <4>3. CASE SectorOf(b) < index
        BY <2>1, <4>3, EraseEffect, EraseKeeps DEF Sound, Restarting
      <4> QED
        BY <4>1, <4>2, <4>3
    <3>2. restart_for = "boot" => \A b \in Blocks : ~Valid(b)'
      BY <2>1, EraseEffect, EraseKeeps DEF Sound, Restarting
    <3> QED
      BY <2>1, <3>1, <3>2 DEF Restarting, SectorOf
  <2>3. Home'
    BY <2>1, EraseEffect, EraseKeeps DEF Sound, Home, SectorOf
  <2> QED
    BY <2>1, <2>2, <2>3, EraseEffect, EraseKeeps DEF Sound, Once, Outbids, NeverFull, Writing
<1>2. CASE RestartForBoot
  <2>1. pc = "restart" /\ pc' = "idle" /\ Erase(index) /\ index = NumSectors - 1
    BY <1>2 DEF RestartForBoot
  <2>2. \A b \in Blocks : ~Used(b)' /\ ~Valid(b)'
    BY <2>1, RestartErasesAll DEF Valid
  <2> QED
    BY <2>1, <2>2, EraseEffect, EraseKeeps
    DEF Sound, Home, Once, Outbids, Restarting, NeverFull, Writing
<1>3. CASE RestartForWrite
  <2>1. /\ pc = "restart" /\ pc' = "cached" /\ Erase(index) /\ index = NumSectors - 1
        /\ m_current_address' \in Blocks
        /\ m_counter' = m_cache_buffer'.counter + 1 /\ m_cache_buffer'.payload = buffer'
    BY <1>3, RingSize DEF RestartForWrite, WriteToCache
  <2>2. \A b \in Blocks : ~Used(b)' /\ ~Valid(b)'
    BY <2>1, RestartErasesAll DEF Valid
  <2>3. Once'
    BY <2>1, <2>2 DEF Once, Used
  <2> QED
    BY <2>1, <2>2, <2>3, EraseEffect, EraseKeeps
    DEF Sound, Home, Outbids, Restarting, NeverFull, Writing
<1> QED
  BY <1>1, <1>2, <1>3 DEF Restart

LEMMA WriteSound ==
  ASSUME TypeOK, Sound, NEW p \in Payloads, Write(p)
  PROVE  Sound'
<1>1. PICK b \in Blocks :
        /\ ~Used(b)
        /\ m_current_address' = b
        /\ pc' = IF SectorOf(m_current_address) = SectorOf(b) THEN "cached" ELSE "eraseOld"
  BY DEF Write, FindGoodBlock
<1>2. /\ pc = "idle" /\ UNCHANGED flash /\ last_address' = m_current_address
      /\ buffer' = p /\ m_cache_buffer' = [payload |-> p, counter |-> m_counter]
      /\ m_counter' = m_counter + 1
  BY DEF Write, WriteToCache
<1>3. Home'
  <2>1. \A c \in Blocks : Used(c)' => SectorOf(c) = SectorOf(m_current_address)
    BY <1>2, FlashUnchanged DEF Sound, Home
  <2> QED
    BY <1>1, <1>2, <2>1 DEF Home, SectorOf
<1>4. Once'
  BY <1>1, <1>2, FlashUnchanged DEF Once, Used
<1>5. Outbids'
  <2>1. \A c \in Blocks : Valid(c)' => flash'[c].counter < m_counter
    BY <1>2, FlashUnchanged DEF Sound, Outbids
  <2> QED
    BY <1>1, <1>2, <2>1 DEF Outbids
<1> QED
  BY <1>1, <1>2, <1>3, <1>4, <1>5, FlashUnchanged DEF Sound, Restarting, NeverFull

LEMMA WriteFullSound ==
  ASSUME TypeOK, Sound, NEW p \in Payloads, WriteFull(p)
  PROVE  Sound'
<1>1. pc = "idle" /\ pc' = "restart" /\ restart_for' = "write" /\ index' = 0
      /\ UNCHANGED <<flash, m_current_address>> /\ \A b \in Blocks : Used(b)
  BY DEF WriteFull, NoGoodBlock
<1>2. NeverFull'
  <2>1. ~(NumSectors > 1)
    BY <1>1, TwoSectors DEF Sound, OneSector
  <2> QED
    BY <2>1 DEF NeverFull
<1>3. Home'
  BY <1>1, FlashUnchanged DEF Sound, Home, SectorOf
<1>4. Restarting'
  BY <1>1, SectorInRange DEF Restarting, SectorOf
<1> QED
  BY <1>1, <1>2, <1>3, <1>4, FlashUnchanged DEF Sound, Once, Outbids, Writing

LEMMA EraseOldSectorSound ==
  ASSUME TypeOK, Sound, EraseOldSector, ~erase_failed'
  PROVE  Sound'
<1>1. /\ pc = "eraseOld" /\ pc' = "cached" /\ Erase(SectorOf(last_address))
      /\ UNCHANGED <<m_counter, m_current_address, m_cache_buffer, buffer>>
  BY DEF EraseOldSector
<1>2. \A b \in Blocks : ~Used(b)' /\ ~Valid(b)'
  <2> SUFFICES ASSUME NEW b \in Blocks PROVE ~Used(b)'
    BY DEF Valid
  <2>1. CASE SectorOf(b) = SectorOf(last_address)
    BY <1>1, <2>1, EraseEffect DEF Used, Erased
  <2>2. CASE SectorOf(b) # SectorOf(last_address)
    BY <1>1, <2>2, EraseEffect, EraseKeeps DEF Sound, Home
  <2> QED
    BY <2>1, <2>2
<1>3. Once'
  BY <1>1, <1>2 DEF Once, Used, TypeOK
<1>4. Outbids'
  BY <1>1, <1>2 DEF Sound, Outbids, Writing
<1> QED
  BY <1>1, <1>2, <1>3, <1>4, EraseEffect, EraseKeeps DEF Sound, Home, Restarting, NeverFull

\* What the word under programming makes of its block.
LEMMA ProgramEffect ==
  ASSUME TypeOK, Shape, Sound, pc = "program", Program
  PROVE  LET cur == m_current_address IN
         /\ cur \in Blocks /\ flash[cur].words = index - 1 /\ index \in 1..WordsPerBlock
         /\ \A b \in Blocks \ {cur} : flash'[b] = flash[b]
         /\ flash'[cur].words = index
         /\ index # WordsPerBlock =>
              flash'[cur].counter = UINT32_MAX /\ flash'[cur].payload = NoPayload
         /\ index = WordsPerBlock =>
              flash'[cur].counter = m_cache_buffer.counter /\ flash'[cur].payload = m_cache_buffer.payload
<1> DEFINE cur == m_current_address
<1>1. cur \in Blocks /\ flash[cur].words = index - 1 /\ index \in 1..WordsPerBlock /\ pc = "program"
  BY DEF TypeOK, Shape, Sound, Once
<1>2. PICK new \in Programmed(flash[cur], index) : flash' = [flash EXCEPT ![cur] = new]
  BY DEF Program
<1>3. flash'[cur] = new /\ \A b \in Blocks \ {cur} : flash'[b] = flash[b]
  BY <1>1, <1>2 DEF TypeOK
<1>4. flash[cur].counter = UINT32_MAX /\ flash[cur].payload = NoPayload
  BY <1>1, FlashAssumption DEF Sound, TornBlocksInvalid
<1>5. ~(index <= flash[cur].words)
  BY <1>1
<1>6. flash[cur].payload # Garbled
  BY <1>4, FlashAssumption
<1>7. /\ new.words = index
      /\ new.counter = IF index = WordsPerBlock THEN m_cache_buffer.counter ELSE UINT32_MAX
      /\ new.payload = IF index = WordsPerBlock THEN m_cache_buffer.payload ELSE NoPayload
  BY <1>4, <1>5, <1>6 DEF Programmed
<1> QED
  BY <1>1, <1>3, <1>7

\* The driver goes on with the next word, or returns: after the last word, or with an error.
LEMMA ProgramSound ==
  ASSUME TypeOK, Shape, Sound, pc = "program", Program,
         UNCHANGED <<m_counter, m_current_address, m_cache_buffer, buffer>>,
         pc' = "idle" \/ (pc' = "program" /\ index # WordsPerBlock /\ index' = index + 1)
  PROVE  Sound'
<1> DEFINE cur == m_current_address
<1>1. /\ pc = "program"
      /\ pc' = "idle" \/ (pc' = "program" /\ index # WordsPerBlock /\ index' = index + 1)
      /\ UNCHANGED <<m_counter, m_current_address, m_cache_buffer, buffer>>
  OBVIOUS
<1>2. /\ cur \in Blocks /\ flash[cur].words = index - 1 /\ index \in 1..WordsPerBlock
      /\ \A b \in Blocks \ {cur} : flash'[b] = flash[b]
      /\ flash'[cur].words = index
      /\ index # WordsPerBlock =>
           flash'[cur].counter = UINT32_MAX /\ flash'[cur].payload = NoPayload
      /\ index = WordsPerBlock =>
           flash'[cur].counter = m_cache_buffer.counter /\ flash'[cur].payload = m_cache_buffer.payload
  BY ProgramEffect
<1>3. \A b \in Blocks \ {cur} : (Used(b)' <=> Used(b)) /\ (Valid(b)' <=> Valid(b))
  BY <1>2 DEF Used, Valid
<1>4. \A b \in Blocks : b = cur /\ Valid(b)' => index = WordsPerBlock
  BY <1>2 DEF Valid
<1>5. TornBlocksInvalid'
  BY <1>2 DEF Sound, TornBlocksInvalid
<1>6. \A b \in Blocks : Used(b)' => SectorOf(b) = SectorOf(cur)
  BY <1>1, <1>3 DEF Sound, Home
<1>7. Home' /\ OneSector'
  BY <1>1, <1>6 DEF Home, OneSector, SectorOf
<1>8. Once'
  BY <1>1, <1>2 DEF Once
<1>9. \A b \in Blocks \ {cur} : Valid(b)' => flash'[b].counter < m_cache_buffer.counter
  BY <1>1, <1>2, <1>3 DEF Sound, Outbids, Writing
<1>10. m_cache_buffer.counter \in Nat
  BY DEF TypeOK
<1>11. \A b \in Blocks : flash[b].counter \in Nat /\ (b # cur => flash'[b].counter \in Nat)
  BY <1>2 DEF TypeOK, Types
<1>12. Distinct'
  <2> SUFFICES ASSUME NEW b \in Blocks, NEW c \in Blocks, Valid(b)', Valid(c)',
                      flash'[b].counter = flash'[c].counter
               PROVE  b = c
    BY DEF Distinct
  <2>1. CASE b # cur /\ c # cur
    BY <1>2, <1>3, <2>1 DEF Sound, Distinct
  <2>2. CASE (b = cur) # (c = cur)
    BY <1>2, <1>4, <1>9, <1>10, <2>2
  <2> QED
    BY <2>1, <2>2
<1>13. Outbids'
  <2>1. m_counter = m_cache_buffer.counter + 1 /\ m_cache_buffer.payload = buffer
    BY <1>1 DEF Sound, Outbids, Writing
  <2>2. CASE pc' = "idle"
    <3>1. \A b \in Blocks : Valid(b)' => flash'[b].counter < m_cache_buffer.counter + 1
      BY <1>2, <1>4, <1>9, <1>10, <1>11
    <3> QED
      BY <1>1, <2>1, <2>2, <3>1 DEF Outbids, Writing
  <2>3. CASE pc' = "program" /\ index # WordsPerBlock
    <3>1. \A b \in Blocks : Valid(b)' => flash'[b].counter < m_cache_buffer.counter
      BY <1>4, <1>9, <2>3
    <3> QED
      BY <1>1, <2>1, <2>3, <3>1 DEF Outbids, Writing
  <2> QED
    BY <1>1, <2>2, <2>3
<1> QED
  BY <1>1, <1>5, <1>7, <1>8, <1>12, <1>13 DEF Sound, Restarting, NeverFull

LEMMA ProgramWordSound ==
  ASSUME TypeOK, Shape, Sound, ProgramWord
  PROVE  Sound'
BY ProgramSound DEF ProgramWord

\* Every step keeps the part of the invariant that needs the erases to succeed.
LEMMA NextSound == IInv /\ [Next]_vars => (~erase_failed' => Sound')
<1> SUFFICES ASSUME TypeOK, Shape, ~erase_failed => Sound, [Next]_vars, ~erase_failed'
             PROVE  Sound'
  BY DEF IInv
<1>1. ~erase_failed
  BY DEF Next, Boot, Restart, FindNoBlock, FindLastLogicalBlock, RestartSector, RestartForBoot,
         RestartForWrite, Erase, Write, WriteFull, EraseOldSector, WriteToFlash, ProgramWord,
         ProgramError, PowerFailure, PowerFailureInErase, vars
<1>2. Sound
  BY <1>1
<1>3. CASE WriteToFlash
  <2>1. /\ pc = "cached" /\ pc' = "program" /\ index' = 1
        /\ UNCHANGED <<flash, m_counter, m_current_address, m_cache_buffer, buffer>>
    BY <1>3 DEF WriteToFlash
  <2>2. Once'
    BY <2>1, <1>2 DEF TypeOK, Types, Sound, Once, Used
  <2>3. Home' /\ Outbids'
    BY <2>1, <1>2, FlashUnchanged DEF Sound, Home, Outbids, Writing, SectorOf
  <2> QED
    BY <1>2, <2>1, <2>2, <2>3, FlashUnchanged DEF Sound, Restarting, NeverFull
<1>a. CASE ProgramError /\ Program
  BY <1>2, <1>a, ProgramSound DEF ProgramError
<1>4. CASE ProgramError /\ UNCHANGED flash
  <2>1. /\ pc = "program" /\ pc' = "idle"
        /\ UNCHANGED <<flash, m_counter, m_current_address, m_cache_buffer>>
    BY <1>4 DEF ProgramError
  <2>2. Home'
    BY <2>1, <1>2, FlashUnchanged DEF Sound, Home, SectorOf
  <2>3. Outbids'
    <3>1. \A b \in Blocks : flash[b].counter \in Nat
      BY DEF TypeOK, Types
    <3>2. m_cache_buffer.counter \in Nat
      BY DEF TypeOK
    <3> QED
      BY <2>1, <1>2, <3>1, <3>2, FlashUnchanged DEF Sound, Outbids, Writing
  <2> QED
    BY <1>2, <2>1, <2>2, <2>3, FlashUnchanged DEF Sound, Once, Restarting, NeverFull
<1>5. CASE PowerFailure
  BY <1>2, <1>5, FlashUnchanged
  DEF PowerFailure, Sound, Home, Once, Outbids, Writing, Restarting, NeverFull
<1>6. CASE PowerFailureInErase
  BY <1>6 DEF PowerFailureInErase
<1>7. CASE UNCHANGED vars
  BY <1>2, <1>7, FlashUnchanged
  DEF vars, Sound, Home, Once, Outbids, Writing, Restarting, NeverFull, Used, Valid, SectorOf
<1> QED
  BY <1>2, <1>3, <1>a, <1>4, <1>5, <1>6, <1>7, BootSound, RestartSound, WriteSound, WriteFullSound,
     EraseOldSectorSound, ProgramWordSound
  DEF Next, ProgramError

LEMMA InitSound == Init => Sound
<1> SUFFICES ASSUME Init PROVE Sound
  OBVIOUS
<1>1. \A b \in Blocks : flash[b] = Erased /\ ~Used(b) /\ ~Valid(b)
  BY DEF Init, Erased, Used, Valid
<1>2. pc = "off"
  BY DEF Init
<1> QED
  BY <1>1, <1>2 DEF Sound, TornBlocksInvalid, Home, OneSector, Once, Distinct, Outbids,
     Restarting, NeverFull, Writing, Erased

LEMMA InitInvariant == Init => IInv
BY InitType, InitSound DEF IInv, NotYet, Init

LEMMA NextInvariant == IInv /\ [Next]_vars => IInv'
BY NextType, NextNotYet, NextSound DEF IInv

LEMMA InvariantHolds == Spec => []IInv
BY InitInvariant, NextInvariant, PTL DEF Spec

\* The blocks in use never straddle two sectors (Write erases the sector it leaves
\* before it programs the next one), as long as no erase fails.
THEOREM SectorsErasedInTime == Spec => []OneSectorInUse
<1>1. IInv => OneSectorInUse
  BY DEF IInv, Sound, OneSector, OneSectorInUse
<1> QED
  BY <1>1, InvariantHolds, PTL

\* No flash word is programmed twice, wherever power failed before.
THEOREM WordsProgrammedOnce == Spec => []WriteOnce
<1>1. IInv => WriteOnce
  BY DEF IInv, Sound, Once, WriteOnce
<1> QED
  BY <1>1, InvariantHolds, PTL

\* The counters identify the blocks, and each write outbids the blocks before it.
THEOREM CountersGrow == Spec => []StampsGrow
<1>1. IInv => StampsGrow
  <2> SUFFICES ASSUME TypeOK, Sound PROVE StampsGrow
    BY DEF IInv, StampsGrow
  <2>1. m_cache_buffer.counter \in Nat /\ \A b \in Blocks : flash[b].counter \in Nat
    BY DEF TypeOK, Types
  <2> QED
    BY <2>1 DEF Sound, Distinct, Outbids, Writing, StampsGrow
<1> QED
  BY <1>1, InvariantHolds, PTL

\* With two sectors or more, Write always finds an erased block and never takes the
\* branch that erases everything.
THEOREM BlockAlwaysFound == Spec => []RingNeverFull
<1>1. IInv => RingNeverFull
  BY DEF IInv, Sound, NeverFull, RingNeverFull
<1> QED
  BY <1>1, InvariantHolds, PTL

------------------------------------------------------------------------------
(* The flash implements the register. *)

\* The search at start is deterministic, and Recovered is what it finds.
LEMMA RecoveredIs == TypeOK => \A b \in Blocks : IsLast(b) => Recovered = flash[b].payload
<1> SUFFICES ASSUME TypeOK, NEW b \in Blocks, IsLast(b) PROVE Recovered = flash[b].payload
  OBVIOUS
<1>1. ASSUME NEW c \in Blocks, IsLast(c) PROVE c = b
  <2>1. flash[b].counter \in Nat /\ flash[c].counter \in Nat /\ b \in Int /\ c \in Int
    BY RingSize DEF TypeOK, Types, Blocks
  <2> QED
    BY <1>1, <2>1 DEF IsLast
<1>2. (CHOOSE c \in Blocks : IsLast(c)) = b
  BY <1>1
<1> QED
  BY <1>2 DEF Recovered

LEMMA RecoveredNone == (\A b \in Blocks : ~Valid(b)) => Recovered = NoPayload
BY DEF Recovered, IsLast

\* What a start would find depends on the valid blocks only.
LEMMA RecoveredKept ==
  ASSUME TypeOK, TypeOK',
         \A b \in Blocks : (Valid(b)' <=> Valid(b)) /\ (Valid(b) => flash'[b] = flash[b])
  PROVE  Recovered' = Recovered
<1>1. \A b \in Blocks : IsLast(b)' <=> IsLast(b)
  BY DEF IsLast
<1>2. \A b \in Blocks : IsLast(b)' => Recovered' = flash'[b].payload
  <2>1. (TypeOK => \A b \in Blocks : IsLast(b) => Recovered = flash[b].payload)'
    BY RecoveredIs, PTL
  <2> QED
    BY <2>1
<1>3. CASE \E b \in Blocks : IsLast(b)
  BY <1>1, <1>2, <1>3, RecoveredIs DEF IsLast
<1>4. CASE \A b \in Blocks : ~IsLast(b)
  BY <1>1, <1>4 DEF Recovered
<1> QED
  BY <1>3, <1>4

RegisterStep == [Register!Next]_(Register!vars)

\* The steps of the register, in terms of what they do to the mapped variables.
LEMMA RegisterSteps ==
  /\ Stored' = Stored /\ Submitted' = Submitted /\ Saved' = Saved => RegisterStep
  /\ Stored' = Stored /\ Submitted' = NoPayload /\ Saved' = FALSE => RegisterStep
  /\ Stored' = Stored /\ Submitted = NoPayload /\ Submitted' \in Payloads /\ Saved' = FALSE
       => RegisterStep
  /\ Submitted # NoPayload /\ Stored' = Submitted /\ Submitted' = NoPayload /\ Saved' \in BOOLEAN
       => RegisterStep
  /\ Submitted # NoPayload /\ Stored' = NoPayload /\ Submitted' \in {Submitted, NoPayload}
       /\ Saved' = FALSE => RegisterStep
BY DEF RegisterStep, Register!Next, Register!vars, Register!Submit, Register!Commit,
   Register!CommitUnnoticed, Register!Abandon, Register!Lose

\* A step that leaves the device alone keeps what is stored.
LEMMA StoredKept ==
  ASSUME TypeOK, TypeOK', UNCHANGED <<flash, erase_failed>>
  PROVE  Stored' = Stored
<1>1. \A b \in Blocks : (Valid(b)' <=> Valid(b)) /\ flash'[b] = flash[b]
  BY DEF Valid, Used
<1> QED
  BY <1>1, RecoveredKept DEF Stored

\* Without a valid block before and after, nothing is stored.
LEMMA StoredNone == (erase_failed \/ \A b \in Blocks : ~Valid(b)) => Stored = NoPayload
BY RecoveredNone DEF Stored

LEMMA EraseStored ==
  ASSUME IInv, IInv', NEW s, Erase(s), erase_failed' \/ \A b \in Blocks : ~Valid(b)'
  PROVE  Stored' = NoPayload
<1>1. ((erase_failed \/ \A b \in Blocks : ~Valid(b)) => Stored = NoPayload)'
  BY StoredNone, PTL
<1> QED
  BY <1>1

\* A write that has not ended has not succeeded.
LEMMA SavedNext ==
  ASSUME IInv, IInv'
  PROVE  /\ pc # "idle" => Saved = FALSE
         /\ pc' # "idle" \/ write_ok' = FALSE => Saved' = FALSE
<1>1. write_ok = FALSE => Saved = FALSE
  BY DEF Saved
<1>2. write_ok' = FALSE => Saved' = FALSE
  BY DEF Saved
<1> QED
  BY <1>1, <1>2 DEF IInv, NotYet

LEMMA BootImplements ==
  ASSUME IInv, IInv', Boot
  PROVE  RegisterStep
<1>1. pc = "off" /\ UNCHANGED <<flash, erase_failed>> /\ (pc' = "idle" \/ (pc' = "restart" /\ restart_for' = "boot"))
  BY DEF Boot, FindNoBlock, FindLastLogicalBlock
<1>2. Stored' = Stored
  BY <1>1, StoredKept DEF IInv
<1>3. Submitted = NoPayload /\ Submitted' = NoPayload
  BY <1>1 DEF Submitted, InWrite
<1>4. write_ok' = FALSE
  BY DEF Boot, FindNoBlock, FindLastLogicalBlock, IInv, NotYet
<1> QED
  BY <1>2, <1>3, <1>4, SavedNext, RegisterSteps

LEMMA RestartImplements ==
  ASSUME IInv, IInv', Restart
  PROVE  RegisterStep
<1>0. Saved = FALSE /\ Saved' = FALSE
  <2>1. pc = "restart" /\ UNCHANGED write_ok
    BY DEF Restart, RestartSector, RestartForBoot, RestartForWrite
  <2>2. write_ok' = FALSE
    BY <2>1 DEF IInv, NotYet
  <2> QED
    BY <2>1, <2>2, SavedNext
<1>1. pc = "restart" /\ Erase(index) /\ UNCHANGED <<restart_for, buffer>> /\ restart_for \in {"boot", "write"}
  BY DEF Restart, RestartSector, RestartForBoot, RestartForWrite, IInv, TypeOK
<1>2. CASE restart_for = "boot"
  <2>1. Submitted = NoPayload /\ Submitted' = NoPayload
    BY <1>1, <1>2 DEF Restart, RestartSector, RestartForBoot, RestartForWrite, Submitted, InWrite
  <2>2. Stored = NoPayload
    BY <1>1, <1>2, StoredNone DEF IInv, Sound, Restarting
  <2>3. erase_failed' \/ \A b \in Blocks : ~Valid(b)'
    <3> SUFFICES ASSUME ~erase_failed' PROVE \A b \in Blocks : ~Valid(b)'
      OBVIOUS
    <3>1. ~erase_failed /\ \A b \in Blocks : flash'[b] \in {flash[b], Erased}
      BY <1>1, EraseEffect DEF IInv
    <3> QED
      BY <1>1, <1>2, <3>1, EraseKeeps DEF IInv, Sound, Restarting
  <2> QED
    BY <1>1, <2>1, <2>2, <2>3, <1>0, EraseStored, RegisterSteps
<1>3. CASE restart_for = "write"
  <2>1. Submitted = buffer /\ Submitted' = buffer /\ buffer # NoPayload
    BY <1>1, <1>3, FlashAssumption
    DEF Restart, RestartSector, RestartForBoot, RestartForWrite, Submitted, InWrite, IInv, TypeOK
  <2>2. CASE erase_failed /\ erase_failed'
    BY <2>1, <2>2, <1>0, RegisterSteps DEF Stored
  <2>3. CASE ~erase_failed /\ erase_failed'
    BY <1>1, <2>1, <2>3, <1>0, EraseStored, RegisterSteps
  <2>4. CASE ~erase_failed'
    <3>1. ~erase_failed
      BY <1>1, <2>4, EraseEffect DEF IInv
    <3>2. NumSectors = 1
      BY <1>1, <1>3, <3>1, FlashAssumption DEF IInv, Sound, NeverFull
    <3>3. index = NumSectors - 1
      BY <1>1, <3>2 DEF IInv, Shape
    <3>4. \A b \in Blocks : ~Valid(b)'
      BY <1>1, <2>4, <3>1, <3>3, RestartErasesAll DEF IInv, Valid
    <3> QED
      BY <1>1, <2>1, <3>4, <1>0, EraseStored, RegisterSteps
  <2> QED
    BY <2>2, <2>3, <2>4 DEF IInv, TypeOK
<1> QED
  BY <1>1, <1>2, <1>3

LEMMA WriteImplements ==
  ASSUME IInv, IInv', NEW p \in Payloads, Write(p) \/ WriteFull(p)
  PROVE  RegisterStep
<1>1. /\ pc = "idle" /\ UNCHANGED <<flash, erase_failed>> /\ buffer' = p
      /\ pc' \in {"cached", "eraseOld"} \/ (pc' = "restart" /\ restart_for' = "write")
  BY DEF Write, WriteFull
<1>2. Stored' = Stored
  BY <1>1, StoredKept DEF IInv
<1>3. Submitted = NoPayload /\ Submitted' = p
  BY <1>1 DEF Submitted, InWrite
<1> QED
  BY <1>1, <1>2, <1>3, SavedNext, RegisterSteps

LEMMA EraseOldSectorImplements ==
  ASSUME IInv, IInv', EraseOldSector
  PROVE  RegisterStep
<1>1. pc = "eraseOld" /\ pc' = "cached" /\ Erase(SectorOf(last_address)) /\ UNCHANGED <<last_address, buffer>>
  BY DEF EraseOldSector
<1>2. Submitted = buffer /\ Submitted' = buffer /\ buffer # NoPayload
  BY <1>1, FlashAssumption DEF Submitted, InWrite, IInv, TypeOK
<1>3. CASE ~erase_failed'
  <2>1. ~erase_failed
    BY <1>1, <1>3, EraseEffect DEF IInv
  <2>2. \A b \in Blocks : ~Valid(b)'
    <3> SUFFICES ASSUME NEW b \in Blocks PROVE ~Used(b)'
      BY DEF Valid
    <3>1. SectorOf(b) = SectorOf(last_address) => ~Used(b)'
      BY <1>1, <1>3, EraseEffect DEF IInv, Used, Erased
    <3>2. SectorOf(b) # SectorOf(last_address) => ~Used(b)
      BY <1>1, <2>1 DEF IInv, Sound, Home
    <3> QED
      BY <1>1, <1>3, <2>1, <3>1, <3>2, EraseEffect, EraseKeeps DEF IInv
  <2> QED
    BY <1>1, <1>2, <2>2, EraseStored, SavedNext, RegisterSteps
<1>4. CASE erase_failed'
  BY <1>1, <1>2, <1>4, EraseStored, SavedNext, RegisterSteps
<1> QED
  BY <1>3, <1>4

\* Before the last flash word nothing has changed.
LEMMA ProgramStored ==
  ASSUME IInv, IInv', pc = "program", Program, UNCHANGED erase_failed, index # WordsPerBlock
  PROVE  Stored' = Stored
<1> DEFINE cur == m_current_address
<1>2. CASE erase_failed
  BY <1>2 DEF Stored
<1>3. CASE ~erase_failed
  <2>1. /\ cur \in Blocks /\ flash[cur].words = index - 1 /\ index \in 1..WordsPerBlock
        /\ \A b \in Blocks \ {cur} : flash'[b] = flash[b]
        /\ flash'[cur].counter = UINT32_MAX
    BY <1>3, ProgramEffect DEF IInv
  <2>2. ~Valid(cur)
    BY <1>3, <2>1, FlashAssumption DEF IInv, Sound, TornBlocksInvalid, Valid
  <2>3. \A b \in Blocks \ {cur} : Valid(b)' <=> Valid(b)
    BY <2>1 DEF Valid, Used
  <2>4. \A b \in Blocks : b = cur => ~Valid(b)'
    BY <2>1 DEF Valid
  <2>5. Recovered' = Recovered
    BY <2>1, <2>2, <2>3, <2>4, RecoveredKept DEF IInv
  <2> QED
    BY <2>5 DEF Stored
<1> QED
  BY <1>2, <1>3

\* With it the block outbids the others, and the payload of the write is stored.
LEMMA LastWordStored ==
  ASSUME IInv, IInv', pc = "program", Program, index = WordsPerBlock, ~erase_failed,
         UNCHANGED <<erase_failed, m_current_address, m_cache_buffer, buffer>>
  PROVE  Stored' = buffer /\ flash' # flash
<1> DEFINE cur == m_current_address
<1>1. /\ cur \in Blocks /\ flash[cur].words = index - 1 /\ index \in 1..WordsPerBlock
      /\ \A b \in Blocks \ {cur} : flash'[b] = flash[b]
      /\ flash'[cur].words = index
      /\ flash'[cur].counter = m_cache_buffer.counter /\ flash'[cur].payload = m_cache_buffer.payload
  BY ProgramEffect DEF IInv
<1>2. \A b \in Blocks \ {cur} : Valid(b)' <=> Valid(b)
  BY <1>1 DEF Valid, Used
<1>3. m_cache_buffer.payload = buffer /\ m_counter = m_cache_buffer.counter + 1
      /\ m_cache_buffer.counter \in 0..UINT32_MAX /\ m_counter \in 0..UINT32_MAX
  BY DEF IInv, TypeOK, Sound, Outbids, Writing
<1>4. \A b \in Blocks \ {cur} : Valid(b)' => flash'[b].counter < flash'[cur].counter
  BY <1>1, <1>2 DEF IInv, Sound, Outbids, Writing
<1>5. \A b \in Blocks : b = cur => Valid(b)'
  BY <1>1, <1>3, FlashAssumption DEF Valid, Used
<1>6. \A b \in Blocks : b = cur => IsLast(b)'
  BY <1>1, <1>4, <1>5, RingSize DEF IsLast, Blocks
<1>7. \A b \in Blocks : IsLast(b)' => Recovered' = flash'[b].payload
  <2>1. (TypeOK => \A b \in Blocks : IsLast(b) => Recovered = flash[b].payload)'
    BY RecoveredIs, PTL
  <2> QED
    BY <2>1 DEF IInv
<1>8. Recovered' = buffer
  BY <1>1, <1>3, <1>6, <1>7
<1>9. flash'[cur] # flash[cur]
  BY <1>1
<1> QED
  BY <1>8, <1>9 DEF Stored

LEMMA ProgramWordImplements ==
  ASSUME IInv, IInv', ProgramWord
  PROVE  RegisterStep
<1>1. /\ pc = "program" /\ Program
      /\ UNCHANGED <<erase_failed, buffer, m_current_address, m_cache_buffer>>
      /\ IF index = WordsPerBlock THEN pc' = "idle" /\ write_ok' = TRUE ELSE pc' = "program"
  BY DEF ProgramWord
<1>2. Submitted = buffer /\ buffer # NoPayload /\ Submitted' = IF index = WordsPerBlock THEN NoPayload ELSE buffer
  BY <1>1, FlashAssumption DEF Submitted, InWrite, IInv, TypeOK
<1>3. CASE erase_failed
  BY <1>1, <1>2, <1>3, RegisterSteps DEF Stored, Saved
<1>4. CASE ~erase_failed /\ index # WordsPerBlock
  BY <1>1, <1>2, <1>4, ProgramStored, SavedNext, RegisterSteps
<1>5. CASE ~erase_failed /\ index = WordsPerBlock
  <2>1. Stored' = buffer
    BY <1>1, <1>5, LastWordStored
  <2> QED
    BY <1>1, <1>2, <1>5, <2>1, RegisterSteps DEF Saved
<1> QED
  BY <1>3, <1>4, <1>5

LEMMA FaultImplements ==
  ASSUME IInv, IInv', ProgramError \/ PowerFailure \/ PowerFailureInErase
  PROVE  RegisterStep
<1>1. Submitted' = NoPayload /\ Saved' = FALSE
  BY SavedNext DEF ProgramError, PowerFailure, PowerFailureInErase, Submitted, InWrite
<1>2. CASE Stored' = Stored
  BY <1>1, <1>2, RegisterSteps
<1>3. CASE (ProgramError /\ UNCHANGED flash) \/ PowerFailure
  <2>1. Stored' = Stored
    BY <1>3, StoredKept DEF ProgramError, PowerFailure, IInv
  <2> QED
    BY <1>2, <2>1
<1>4. CASE ProgramError /\ Program
  <2>1. pc = "program" /\ UNCHANGED <<erase_failed, buffer, m_current_address, m_cache_buffer>>
    BY <1>4 DEF ProgramError
  <2>2. CASE erase_failed
    BY <1>2, <2>1, <2>2 DEF Stored
  <2>3. CASE index # WordsPerBlock
    BY <1>2, <1>4, <2>1, <2>3, ProgramStored
  <2>4. CASE ~erase_failed /\ index = WordsPerBlock
    <3>1. Stored' = buffer
      BY <1>4, <2>1, <2>4, LastWordStored
    <3>2. Submitted = buffer /\ buffer # NoPayload
      BY <2>1, FlashAssumption DEF Submitted, InWrite, IInv, TypeOK
    <3> QED
      BY <1>1, <3>1, <3>2, RegisterSteps
  <2> QED
    BY <2>2, <2>3, <2>4
<1>5. CASE PowerFailureInErase
  <2>1. Stored' = NoPayload
    BY <1>5 DEF PowerFailureInErase, Stored
  <2>2. Submitted = NoPayload => Stored = NoPayload
    BY <1>5, StoredNone, FlashAssumption
    DEF PowerFailureInErase, Submitted, InWrite, IInv, TypeOK, Sound, Restarting
  <2> QED
    BY <1>1, <2>1, <2>2, RegisterSteps
<1> QED
  BY <1>3, <1>4, <1>5 DEF ProgramError

LEMMA NextImplements == IInv /\ IInv' /\ [Next]_vars => [Register!Next]_(Register!vars)
<1> SUFFICES ASSUME IInv, IInv', [Next]_vars PROVE RegisterStep
  BY DEF RegisterStep
<1>1. CASE WriteToFlash
  <2>1. Stored' = Stored
    BY <1>1, StoredKept DEF WriteToFlash, IInv
  <2>2. Submitted' = Submitted
    BY <1>1 DEF WriteToFlash, Submitted, InWrite
  <2> QED
    BY <1>1, <2>1, <2>2, SavedNext, RegisterSteps DEF WriteToFlash
<1>2. CASE UNCHANGED vars
  <2>1. Stored' = Stored
    BY <1>2, StoredKept DEF vars, IInv
  <2>2. Submitted' = Submitted /\ Saved' = Saved
    BY <1>2 DEF vars, Submitted, InWrite, Saved
  <2> QED
    BY <2>1, <2>2, RegisterSteps
<1> QED
  BY <1>1, <1>2, BootImplements, RestartImplements, WriteImplements, EraseOldSectorImplements,
     ProgramWordImplements, FaultImplements
  DEF Next

\* The flash implements the register: a write replaces the stored payload in one
\* step, when its last flash word is programmed, or not at all; a power failure
\* outside an erase changes nothing; the stored payload is lost only in a write, and no
\* older payload ever comes back while erases succeed.
THEOREM ImplementsRegister == Spec => RegisterSpec
<1>1. Init => Register!Init
  <2>1. Init => Submitted = NoPayload /\ Saved = FALSE
    BY DEF Init, Submitted, InWrite, Saved
  <2>2. Init => \A b \in Blocks : ~Valid(b)
    BY DEF Init, Valid, Erased
  <2> QED
    BY <2>1, <2>2, StoredNone DEF Register!Init
<1>2. IInv /\ IInv' /\ [Next]_vars => [Register!Next]_(Register!vars)
  BY NextImplements
<1> QED
  BY <1>1, <1>2, InvariantHolds, PTL DEF Spec, RegisterSpec, Register!Spec

==============================================================================
