----------------------- MODULE RegistryOnFlash_proofs -----------------------
(***************************************************************************)
(* The registry on the ring of blocks is the registry on an atomic         *)
(* register: the proofs about FlashManagment and about InternalRegistry,   *)
(* each for its own part of the composition, put together.                 *)
(***************************************************************************)
EXTENDS RegistryOnFlash, TLAPS

RingP == INSTANCE FlashManagment_proofs WITH
  Payloads <- Payloads \cup {Damaged}, pc <- flash_pc, EraseFaults <- FALSE, EraseTears <- FALSE

RegP == INSTANCE InternalRegistrySize_proofs WITH
  stored <- Ring!Stored, submitted <- Ring!Submitted, saved <- Ring!Saved,
  WriteErrors <- ProgramFaults

------------------------------------------------------------------------------
(* The assumptions of the two parts. *)

LEMMA RingAssumption == RingP!FlashAssumption
BY OnFlashAssumption DEF RingP!FlashAssumption, Ring!FlashAssumption

LEMMA RegAssumption == RegP!RegistryAssumption /\ RegP!PayloadAssumption
BY OnFlashAssumption
DEF RegP!RegistryAssumption, Reg!RegistryAssumption, RegP!PayloadAssumption, Reg!PayloadAssumption,
    RegP!Payloads, Reg!Payloads, RegP!Objects, Reg!Objects


------------------------------------------------------------------------------
(* The definitions of the parts are those of their proofs. *)

LEMMA SameStored == RingP!Stored = Ring!Stored
BY DEF RingP!Stored, Ring!Stored, RingP!Recovered, Ring!Recovered, RingP!IsLast, Ring!IsLast,
   RingP!Valid, Ring!Valid, RingP!Used, Ring!Used, RingP!Blocks, Ring!Blocks,
   RingP!NumBlocks, Ring!NumBlocks

LEMMA SameSubmitted == RingP!Submitted = Ring!Submitted /\ RingP!Saved = Ring!Saved
BY DEF RingP!Submitted, Ring!Submitted, RingP!InWrite, Ring!InWrite, RingP!Saved, Ring!Saved

LEMMA SameMapped ==
  /\ RingP!Stored = Ring!Stored /\ RingP!Submitted = Ring!Submitted /\ RingP!Saved = Ring!Saved
  /\ RingP!Stored' = Ring!Stored' /\ RingP!Submitted' = Ring!Submitted' /\ RingP!Saved' = Ring!Saved'
<1>1. RingP!Stored = Ring!Stored /\ RingP!Submitted = Ring!Submitted /\ RingP!Saved = Ring!Saved
  BY SameStored, SameSubmitted
<1>2. (RingP!Stored = Ring!Stored /\ RingP!Submitted = Ring!Submitted /\ RingP!Saved = Ring!Saved)'
  BY <1>1, PTL
<1> QED
  BY <1>1, <1>2

LEMMA SameInit == Ring!Init <=> RingP!Init
BY DEF Ring!Init, RingP!Init, Ring!Erased, RingP!Erased, Ring!Blocks, RingP!Blocks,
   Ring!NumBlocks, RingP!NumBlocks

LEMMA SameBoot == Ring!Boot <=> RingP!Boot
BY DEF RingP!Boot, Ring!Boot, RingP!FindNoBlock, Ring!FindNoBlock,
   RingP!FindLastLogicalBlock, Ring!FindLastLogicalBlock, RingP!IsLast, Ring!IsLast,
   RingP!Valid, Ring!Valid, RingP!Used, Ring!Used, RingP!Blocks, Ring!Blocks,
   RingP!NumBlocks, Ring!NumBlocks

LEMMA SameErase == ASSUME NEW s PROVE Ring!Erase(s) <=> RingP!Erase(s)
BY DEF Ring!Erase, RingP!Erase, Ring!EraseBlocks, RingP!EraseBlocks, Ring!BlocksOf, RingP!BlocksOf,
   Ring!SectorOf, RingP!SectorOf, Ring!Erased, RingP!Erased, Ring!Blocks, RingP!Blocks,
   Ring!NumBlocks, RingP!NumBlocks

LEMMA SameRestart == Ring!Restart <=> RingP!Restart
BY SameErase
DEF Ring!Restart, RingP!Restart, Ring!RestartSector, RingP!RestartSector,
    Ring!RestartForBoot, RingP!RestartForBoot, Ring!RestartForWrite, RingP!RestartForWrite,
    Ring!WriteToCache, RingP!WriteToCache

LEMMA SameEraseOldSector == Ring!EraseOldSector <=> RingP!EraseOldSector
BY SameErase DEF Ring!EraseOldSector, RingP!EraseOldSector, Ring!SectorOf, RingP!SectorOf

LEMMA SameWrite ==
  ASSUME NEW p
  PROVE  Ring!Write(p) \/ Ring!WriteFull(p) <=> RingP!Write(p) \/ RingP!WriteFull(p)
<1>1. Ring!Write(p) <=> RingP!Write(p)
  BY DEF Ring!Write, RingP!Write, Ring!FindGoodBlock, RingP!FindGoodBlock, Ring!Ahead, RingP!Ahead,
     Ring!Used, RingP!Used, Ring!SectorOf, RingP!SectorOf, Ring!WriteToCache, RingP!WriteToCache,
     Ring!Blocks, RingP!Blocks, Ring!NumBlocks, RingP!NumBlocks
<1>2. Ring!WriteFull(p) <=> RingP!WriteFull(p)
  BY DEF Ring!WriteFull, RingP!WriteFull, Ring!NoGoodBlock, RingP!NoGoodBlock, Ring!Used, RingP!Used,
     Ring!Blocks, RingP!Blocks, Ring!NumBlocks, RingP!NumBlocks
<1> QED
  BY <1>1, <1>2

LEMMA SameProgram ==
  /\ Ring!WriteToFlash <=> RingP!WriteToFlash
  /\ Ring!ProgramWord <=> RingP!ProgramWord
  /\ Ring!ProgramError <=> RingP!ProgramError
  /\ Ring!PowerFailure <=> RingP!PowerFailure
BY DEF Ring!WriteToFlash, RingP!WriteToFlash, Ring!ProgramWord, RingP!ProgramWord,
   Ring!Program, RingP!Program, Ring!Programmed, RingP!Programmed, Ring!ProgramError, RingP!ProgramError,
   Ring!PowerFailure, RingP!PowerFailure


LEMMA SameClientStep == ASSUME NEW c PROVE Reg!ClientStep(c) <=> RegP!ClientStep(c)
<1>1. Reg!Lock(c) <=> RegP!Lock(c)
  BY DEF Reg!Lock, RegP!Lock, Reg!clientVars, RegP!clientVars, Reg!callVars, RegP!callVars,
     Reg!bufferVars, RegP!bufferVars, Reg!flashVars, RegP!flashVars
<1>2. Reg!Unlock(c) <=> RegP!Unlock(c)
  BY DEF Reg!Unlock, RegP!Unlock, Reg!Return, RegP!Return, Reg!Unlocked, RegP!Unlocked,
     Reg!NoCall, RegP!NoCall, Reg!NoObject, RegP!NoObject, Reg!NoResult, RegP!NoResult,
     Reg!clientVars, RegP!clientVars, Reg!callVars, RegP!callVars, Reg!bufferVars,
     RegP!bufferVars, Reg!flashVars, RegP!flashVars
<1>3. Reg!WriteExisting(c) <=> RegP!WriteExisting(c)
  BY DEF Reg!WriteExisting, RegP!WriteExisting, Reg!Found, RegP!Found, Reg!FindObject,
     RegP!FindObject, Reg!clientVars, RegP!clientVars, Reg!callVars, RegP!callVars,
     Reg!bufferVars, RegP!bufferVars, Reg!flashVars, RegP!flashVars
<1>4. Reg!WriteOtherSize(c) <=> RegP!WriteOtherSize(c)
  BY DEF Reg!WriteOtherSize, RegP!WriteOtherSize, Reg!Found, RegP!Found, Reg!FindObject,
     RegP!FindObject, Reg!Return, RegP!Return, Reg!NoCall, RegP!NoCall, Reg!NoObject,
     RegP!NoObject, Reg!NoResult, RegP!NoResult, Reg!clientVars, RegP!clientVars, Reg!callVars,
     RegP!callVars, Reg!bufferVars, RegP!bufferVars, Reg!flashVars, RegP!flashVars
<1>5. Reg!WriteNoSpace(c) <=> RegP!WriteNoSpace(c)
  BY DEF Reg!WriteNoSpace, RegP!WriteNoSpace, Reg!Found, RegP!Found, Reg!FindObject,
     RegP!FindObject, Reg!Return, RegP!Return, Reg!NoCall, RegP!NoCall, Reg!NoObject,
     RegP!NoObject, Reg!NoResult, RegP!NoResult, Reg!clientVars, RegP!clientVars, Reg!callVars,
     RegP!callVars, Reg!bufferVars, RegP!bufferVars, Reg!flashVars, RegP!flashVars
<1>6. Reg!WriteNew(c) <=> RegP!WriteNew(c)
  BY DEF Reg!WriteNew, RegP!WriteNew, Reg!Found, RegP!Found, Reg!FindObject, RegP!FindObject,
     Reg!clientVars, RegP!clientVars, Reg!callVars, RegP!callVars, Reg!bufferVars,
     RegP!bufferVars, Reg!flashVars, RegP!flashVars
<1>7. Reg!CopyValue(c) <=> RegP!CopyValue(c)
  BY DEF Reg!CopyValue, RegP!CopyValue, Reg!clientVars, RegP!clientVars, Reg!callVars,
     RegP!callVars, Reg!bufferVars, RegP!bufferVars, Reg!flashVars, RegP!flashVars
<1>8. Reg!NeedUpdateFlash(c) <=> RegP!NeedUpdateFlash(c)
  BY DEF Reg!NeedUpdateFlash, RegP!NeedUpdateFlash, Reg!clientVars, RegP!clientVars,
     Reg!callVars, RegP!callVars, Reg!bufferVars, RegP!bufferVars, Reg!flashVars, RegP!flashVars
<1>9. Reg!Read(c) <=> RegP!Read(c)
  BY DEF Reg!Read, RegP!Read, Reg!Found, RegP!Found, Reg!FindObject, RegP!FindObject,
     Reg!clientVars, RegP!clientVars, Reg!callVars, RegP!callVars, Reg!bufferVars,
     RegP!bufferVars, Reg!flashVars, RegP!flashVars
<1>10. Reg!IsExist(c) <=> RegP!IsExist(c)
  BY DEF Reg!IsExist, RegP!IsExist, Reg!Found, RegP!Found, Reg!FindObject, RegP!FindObject,
     Reg!clientVars, RegP!clientVars, Reg!callVars, RegP!callVars, Reg!bufferVars,
     RegP!bufferVars, Reg!flashVars, RegP!flashVars
<1>11. Reg!DeleteFind(c) <=> RegP!DeleteFind(c)
  BY DEF Reg!DeleteFind, RegP!DeleteFind, Reg!Found, RegP!Found, Reg!FindObject,
     RegP!FindObject, Reg!clientVars, RegP!clientVars, Reg!callVars, RegP!callVars,
     Reg!bufferVars, RegP!bufferVars, Reg!flashVars, RegP!flashVars
<1>12. Reg!DeleteShift(c) <=> RegP!DeleteShift(c)
  BY DEF Reg!DeleteShift, RegP!DeleteShift, Reg!clientVars, RegP!clientVars, Reg!callVars,
     RegP!callVars, Reg!bufferVars, RegP!bufferVars, Reg!flashVars, RegP!flashVars
<1>13. Reg!DeleteEnd(c) <=> RegP!DeleteEnd(c)
  BY DEF Reg!DeleteEnd, RegP!DeleteEnd, Reg!ObjectSize, RegP!ObjectSize, Reg!clientVars,
     RegP!clientVars, Reg!callVars, RegP!callVars, Reg!bufferVars, RegP!bufferVars,
     Reg!flashVars, RegP!flashVars
<1> QED
  BY <1>1, <1>2, <1>3, <1>4, <1>5, <1>6, <1>7, <1>8, <1>9, <1>10, <1>11, <1>12, <1>13 DEF Reg!ClientStep, RegP!ClientStep

LEMMA SameTaskSteps ==
  /\ Reg!TimerExpired <=> RegP!TimerExpired
  /\ Reg!StartTask <=> RegP!StartTask
  /\ Reg!TaskStep <=> RegP!TaskStep
  /\ Reg!EraseInWrite <=> RegP!EraseInWrite
  /\ Reg!WriteToFlashFails <=> RegP!WriteToFlashFails
<1>1. Reg!TimerExpired <=> RegP!TimerExpired
  BY DEF Reg!TimerExpired, RegP!TimerExpired, Reg!Running, RegP!Running, Reg!clientVars, RegP!clientVars, Reg!callVars,
     RegP!callVars, Reg!bufferVars, RegP!bufferVars, Reg!flashVars, RegP!flashVars
<1>2. Reg!StartTask <=> RegP!StartTask
  BY DEF Reg!StartTask, RegP!StartTask, Reg!clientVars, RegP!clientVars, Reg!callVars,
     RegP!callVars, Reg!bufferVars, RegP!bufferVars, Reg!flashVars, RegP!flashVars
<1>3. Reg!TaskStep <=> RegP!TaskStep
  BY DEF Reg!TaskStep, RegP!TaskStep, Reg!Pull, RegP!Pull, Reg!CheckFlag, RegP!CheckFlag,
     Reg!LockForFlush, RegP!LockForFlush, Reg!WriteSnapshot, RegP!WriteSnapshot,
     Reg!Image, RegP!Image, Reg!Snapshot, RegP!Snapshot,
     Reg!UnlockAfterWrite, RegP!UnlockAfterWrite, Reg!WriteToFlash, RegP!WriteToFlash,
     Reg!Unlocked, RegP!Unlocked, Reg!Flash!Submit, RegP!Flash!Submit, Reg!Flash!Commit,
     RegP!Flash!Commit, Reg!clientVars, RegP!clientVars, Reg!callVars, RegP!callVars,
     Reg!bufferVars, RegP!bufferVars, Reg!flashVars, RegP!flashVars
<1>4. Reg!EraseInWrite <=> RegP!EraseInWrite
  BY DEF Reg!EraseInWrite, RegP!EraseInWrite, Reg!Flash!Lose, RegP!Flash!Lose, Reg!clientVars,
     RegP!clientVars, Reg!callVars, RegP!callVars, Reg!bufferVars, RegP!bufferVars,
     Reg!flashVars, RegP!flashVars
<1>5. Reg!WriteToFlashFails <=> RegP!WriteToFlashFails
  BY DEF Reg!WriteToFlashFails, RegP!WriteToFlashFails, Reg!Flash!Abandon, RegP!Flash!Abandon,
     Reg!Flash!CommitUnnoticed, RegP!Flash!CommitUnnoticed,
     Reg!clientVars, RegP!clientVars, Reg!callVars, RegP!callVars, Reg!bufferVars,
     RegP!bufferVars, Reg!flashVars, RegP!flashVars
<1> QED
  BY <1>1, <1>2, <1>3, <1>4, <1>5

LEMMA SameNext == [Reg!Next]_(Reg!vars) <=> [RegP!Next]_(RegP!vars)
<1>1. \A c, op, k, v : Reg!Call(c, op, k, v) <=> RegP!Call(c, op, k, v)
  BY DEF Reg!Call, RegP!Call, Reg!clientVars, RegP!clientVars, Reg!callVars, RegP!callVars,
     Reg!bufferVars, RegP!bufferVars, Reg!flashVars, RegP!flashVars
<1>2. Reg!PowerFailure <=> RegP!PowerFailure
  BY DEF Reg!PowerFailure, RegP!PowerFailure, Reg!RamLost, RegP!RamLost, Reg!Flash!Abandon,
     RegP!Flash!Abandon, Reg!Flash!Lose, RegP!Flash!Lose, Reg!NoCall, RegP!NoCall, Reg!NoObject,
     RegP!NoObject, Reg!NoResult, RegP!NoResult
<1>3. Reg!Boot <=> RegP!Boot
  BY DEF Reg!Boot, RegP!Boot, Reg!Load, RegP!Load, Reg!LoadDamaged, RegP!LoadDamaged, Reg!EmptyPayload, RegP!EmptyPayload,
     Reg!clientVars, RegP!clientVars, Reg!callVars, RegP!callVars, Reg!bufferVars,
     RegP!bufferVars, Reg!flashVars, RegP!flashVars
<1>4. Reg!vars = RegP!vars /\ (Reg!vars)' = (RegP!vars)'
  BY DEF Reg!vars, RegP!vars, Reg!clientVars, RegP!clientVars, Reg!callVars, RegP!callVars,
     Reg!bufferVars, RegP!bufferVars, Reg!flashVars, RegP!flashVars
<1> QED
  BY <1>1, <1>2, <1>3, <1>4, SameClientStep, SameTaskSteps DEF Reg!Next, RegP!Next

LEMMA SameRegInit == Reg!Init <=> RegP!Init
BY DEF Reg!Init, RegP!Init, Reg!Flash!Init, RegP!Flash!Init, Reg!NoCall, RegP!NoCall,
     Reg!NoObject, RegP!NoObject, Reg!NoResult, RegP!NoResult

------------------------------------------------------------------------------
(* The inductive invariant: those of the parts, and what links them. *)

Loaded == IF Ring!Stored = NoPayload THEN EmptyPayload ELSE Ring!Stored

\* Where the registry is says where the flash management may be, and the registry
\* finds in the cache buffer what the device holds.
Link ==
  /\ task = "off" =>
       flash_pc \in {"off", "idle"} \/ (flash_pc = "restart" /\ restart_for = "boot")
  /\ task \in {"undefined", "suspended", "pull", "check", "lock", "write"} => flash_pc = "idle"
  /\ task = "unlock" =>
       flash_pc \in {"eraseOld", "cached"} \/ (flash_pc = "restart" /\ restart_for = "write")
  /\ task = "flush" => flash_pc \in {"cached", "program"}
  /\ ~erase_failed
  /\ task = "off" /\ flash_pc = "idle" => m_cache_buffer.payload = Loaded

IInv == RegP!IInv /\ RingP!IInv /\ Link

\* The flash part of a step.
RingStep == [RingP!Next]_(RingP!vars)

RegisterStep == [RingP!Register!Next]_(RingP!Register!vars)

LEMMA SameRing ==
  ASSUME UNCHANGED ringVars
  PROVE  /\ UNCHANGED RingP!vars
         /\ UNCHANGED <<Ring!Stored, Ring!Submitted, Ring!Saved>>
         /\ UNCHANGED Loaded
<1>1. UNCHANGED RingP!vars
  BY DEF ringVars, RingP!vars
<1>2. UNCHANGED Ring!Stored
  BY DEF ringVars, Ring!Stored, Ring!Recovered, Ring!IsLast, Ring!Valid, Ring!Used, Ring!Blocks,
     Ring!NumBlocks
<1>3. UNCHANGED <<Ring!Submitted, Ring!Saved>>
  BY DEF ringVars, Ring!Submitted, Ring!InWrite, Ring!Saved
<1> QED
  BY <1>1, <1>2, <1>3 DEF Loaded

\* What is written is a payload or a damaged one.
LEMMA ImageType == ASSUME RegP!TypeOK PROVE Reg!Image \in Payloads \cup {Damaged}
BY DEF RegP!TypeOK, Reg!Image, Reg!Snapshot, Payloads, RegP!Objects, Objects

\* Every step of the composition is one of the ring, or leaves the ring alone.
LEMMA NextRing == RegP!IInv /\ [Next]_vars => RingStep
<1> SUFFICES ASSUME RegP!IInv, [Next]_vars PROVE RingStep
  OBVIOUS
<1>1. CASE UNCHANGED ringVars
  BY <1>1, SameRing DEF RingStep
<1>2. CASE BootFlash
  BY <1>2, SameBoot, SameRestart DEF BootFlash, RingStep, RingP!Next
<1>3. CASE Write
  <2>1. Ring!Write(Reg!Image) \/ Ring!WriteFull(Reg!Image)
    BY <1>3 DEF Write
  <2>2. Reg!Image \in Payloads \cup {Damaged}
    BY ImageType DEF RegP!IInv
  <2> QED
    BY <2>1, <2>2, SameWrite DEF RingStep, RingP!Next
<1>4. CASE EraseInWrite
  BY <1>4, SameEraseOldSector, SameRestart DEF EraseInWrite, RingStep, RingP!Next
<1>5. CASE WriteToFlash
  BY <1>5, SameProgram DEF WriteToFlash, RingStep, RingP!Next
<1>6. CASE PowerFailure
  BY <1>6, SameProgram DEF PowerFailure, RingStep, RingP!Next
<1> QED
  BY <1>1, <1>2, <1>3, <1>4, <1>5, <1>6
  DEF Next, vars, TaskStep, Call, ClientStep, TimerExpired, StartTask, Pull, CheckFlag,
      LockForFlush, UnlockAfterWrite, Boot

------------------------------------------------------------------------------
(* Every step of the composition is one of the registry. *)

LEMMA RegisterCases ==
  ASSUME RingP!IInv, RingP!IInv', RingStep
  PROVE  \/ UNCHANGED <<Ring!Stored, Ring!Submitted, Ring!Saved>>
         \/ /\ Ring!Submitted = NoPayload /\ Ring!Submitted' \in Payloads \cup {Damaged} /\ Ring!Saved' = FALSE
            /\ UNCHANGED Ring!Stored
         \/ Ring!Submitted # NoPayload /\ Ring!Submitted' = NoPayload /\ Ring!Stored' = Ring!Submitted
         \/ /\ Ring!Submitted' = NoPayload /\ Ring!Saved' = FALSE
            /\ UNCHANGED Ring!Stored
         \/ /\ Ring!Submitted # NoPayload /\ Ring!Submitted' \in {Ring!Submitted, NoPayload}
            /\ Ring!Saved' = FALSE /\ Ring!Stored' = NoPayload
<1>1. RegisterStep
  BY RingAssumption, RingP!NextImplements DEF RingStep, RegisterStep
<1> QED
  BY <1>1, SameMapped
  DEF RegisterStep, RingP!Register!Next, RingP!Register!vars, RingP!Register!Submit,
      RingP!Register!Commit, RingP!Register!CommitUnnoticed, RingP!Register!Abandon, RingP!Register!Lose

LEMMA NoPayloadIsNone == NoPayload \notin Payloads \cup {Damaged}
BY RingAssumption DEF RingP!FlashAssumption

\* Where the ring is says what is submitted, and whether the last write has succeeded.
LEMMA Mapped ==
  ASSUME IInv
  PROVE  /\ buffer \in Payloads \cup {Damaged}
         /\ Ring!Submitted = IF Ring!InWrite THEN buffer ELSE NoPayload
         /\ Ring!Saved = write_ok
BY DEF IInv, Link, Ring!Submitted, Ring!Saved, RingP!IInv, RingP!TypeOK

LEMMA WriteMap ==
  ASSUME IInv, RingP!IInv', Write, RingStep
  PROVE  Reg!WriteSnapshot
<1>1. Ring!Write(Reg!Image) \/ Ring!WriteFull(Reg!Image)
  BY DEF Write
<1>2. flash_pc = "idle" /\ Ring!InWrite' /\ buffer' = Reg!Image
  BY <1>1 DEF Ring!Write, Ring!WriteFull, Ring!InWrite
<1>3. Reg!Image \in Payloads \cup {Damaged}
  BY ImageType DEF IInv, RegP!IInv
<1>4. Ring!Submitted = NoPayload /\ Ring!Submitted' = Reg!Image
  BY <1>2, Mapped DEF Ring!Submitted, Ring!InWrite
<1>5. UNCHANGED Ring!Stored /\ Ring!Saved' = FALSE
  BY <1>3, <1>4, RegisterCases, NoPayloadIsNone DEF IInv
<1> QED
  BY <1>4, <1>5
  DEF Write, Reg!WriteSnapshot, Reg!Flash!Submit, clientVars, Reg!clientVars, Reg!callVars

LEMMA EraseInWriteMap ==
  ASSUME IInv, RingP!IInv', EraseInWrite, RingStep
  PROVE  Reg!EraseInWrite \/ UNCHANGED Reg!vars
<1>1. Ring!InWrite /\ Ring!InWrite' /\ UNCHANGED buffer
  BY DEF EraseInWrite, IInv, Link, Ring!EraseOldSector, Ring!Restart, Ring!RestartSector,
     Ring!RestartForBoot, Ring!RestartForWrite, Ring!InWrite
<1>2. Ring!Submitted = buffer /\ Ring!Submitted' = buffer /\ buffer # NoPayload
  BY <1>1, Mapped, NoPayloadIsNone DEF Ring!Submitted
<1>3. \/ UNCHANGED <<Ring!Stored, Ring!Submitted, Ring!Saved>>
      \/ Ring!Stored' = NoPayload /\ Ring!Saved' = FALSE
  BY <1>2, RegisterCases, Mapped, NoPayloadIsNone DEF IInv
<1> QED
  BY <1>2, <1>3
  DEF EraseInWrite, Reg!EraseInWrite, Reg!Flash!Lose, registryVars, clientVars, Reg!vars,
      Reg!clientVars, Reg!callVars, Reg!bufferVars, Reg!flashVars

\* Nothing but the last flash word changes what is stored.
LEMMA WriteToFlashMap ==
  ASSUME IInv, RingP!IInv', WriteToFlash, RingStep
  PROVE  Reg!WriteToFlash \/ Reg!WriteToFlashFails \/ UNCHANGED Reg!vars
<1> USE DEF registryVars, clientVars, Reg!vars, Reg!clientVars, Reg!callVars, Reg!bufferVars,
            Reg!flashVars
<1>0. task = "flush" /\ ~erase_failed
  BY DEF WriteToFlash, IInv, Link
<1>1. CASE Ring!WriteToFlash
  <2>1. UNCHANGED <<flash, erase_failed, buffer, write_ok>> /\ flash_pc = "cached" /\ flash_pc' = "program"
    BY <1>1 DEF Ring!WriteToFlash
  <2>2. UNCHANGED Ring!Stored
    BY <2>1, RingP!StoredKept, SameMapped, RingAssumption DEF IInv, RingP!IInv
  <2>3. UNCHANGED <<Ring!Submitted, Ring!Saved>>
    BY <2>1 DEF Ring!Submitted, Ring!InWrite, Ring!Saved
  <2> QED
    BY <1>0, <2>1, <2>2, <2>3 DEF WriteToFlash
<1>2. CASE Ring!ProgramWord /\ index # WordsPerBlock
  <2>1. UNCHANGED <<erase_failed, buffer, write_ok>> /\ flash_pc = "program" /\ flash_pc' = "program"
    BY <1>2 DEF Ring!ProgramWord
  <2>2. UNCHANGED Ring!Stored
    BY <1>2, <2>1, RingP!ProgramStored, SameProgram, SameMapped, RingAssumption
    DEF IInv, RingP!ProgramWord
  <2>3. UNCHANGED <<Ring!Submitted, Ring!Saved>>
    BY <2>1 DEF Ring!Submitted, Ring!InWrite, Ring!Saved
  <2> QED
    BY <1>0, <2>1, <2>2, <2>3 DEF WriteToFlash
<1>3. CASE Ring!ProgramWord /\ index = WordsPerBlock
  <2>1. UNCHANGED erase_failed /\ flash_pc = "program" /\ flash_pc' = "idle" /\ write_ok' = TRUE
    BY <1>3 DEF Ring!ProgramWord
  <2>2. Ring!Submitted = buffer /\ Ring!Submitted' = NoPayload /\ Ring!Saved' = TRUE
    BY <1>0, <2>1 DEF Ring!Submitted, Ring!InWrite, Ring!Saved
  <2>3. Ring!Submitted # NoPayload /\ Ring!Saved = FALSE
    BY <2>1, <2>2, Mapped, NoPayloadIsNone DEF IInv, RingP!IInv, RingP!NotYet
  <2>4. Ring!Stored' = Ring!Submitted
    BY <2>2, <2>3, RegisterCases DEF IInv
  <2> QED
    BY <1>0, <2>1, <2>2, <2>3, <2>4 DEF WriteToFlash, Reg!WriteToFlash, Reg!Flash!Commit
<1>4. CASE Ring!ProgramError
  <2>1. UNCHANGED <<erase_failed, m_current_address, m_cache_buffer, buffer>> /\ flash_pc = "program"
        /\ flash_pc' = "idle" /\ write_ok' = FALSE /\ ProgramFaults
    BY <1>4 DEF Ring!ProgramError
  <2>2. Ring!Submitted = buffer /\ Ring!Submitted # NoPayload
        /\ Ring!Submitted' = NoPayload /\ Ring!Saved' = FALSE
    BY <1>0, <2>1, Mapped, NoPayloadIsNone DEF Ring!Submitted, Ring!InWrite, Ring!Saved
  <2>3. CASE RingP!Program /\ index = WordsPerBlock
    <3>1. Ring!Stored' = Ring!Submitted
      BY <1>0, <2>1, <2>2, <2>3, RingP!LastWordStored, SameMapped, RingAssumption DEF IInv
    <3> QED
      BY <1>0, <2>1, <2>2, <3>1 DEF WriteToFlash, Reg!WriteToFlashFails, Reg!Flash!CommitUnnoticed
  <2>4. CASE UNCHANGED flash \/ (RingP!Program /\ index # WordsPerBlock)
    <3>1. UNCHANGED Ring!Stored
      BY <2>1, <2>4, RingP!StoredKept, RingP!ProgramStored, SameMapped, RingAssumption
      DEF IInv, RingP!IInv
    <3> QED
      BY <1>0, <2>1, <2>2, <3>1 DEF WriteToFlash, Reg!WriteToFlashFails, Reg!Flash!Abandon
  <2> QED
    BY <1>4, <2>3, <2>4, SameProgram DEF RingP!ProgramError
<1> QED
  BY <1>1, <1>2, <1>3, <1>4 DEF WriteToFlash

LEMMA PowerFailureMap ==
  ASSUME IInv, RingP!IInv', PowerFailure
  PROVE  Reg!PowerFailure \/ UNCHANGED Reg!vars
<1>1. UNCHANGED <<flash, erase_failed>> /\ flash_pc' = "off" /\ write_ok' = FALSE /\ PowerFaults
  BY DEF PowerFailure, Ring!PowerFailure
<1>2. UNCHANGED Ring!Stored
  BY <1>1, RingP!StoredKept, SameMapped, RingAssumption DEF IInv, RingP!IInv
<1>3. Ring!Submitted' = NoPayload /\ Ring!Saved' = FALSE
  BY <1>1 DEF Ring!Submitted, Ring!InWrite, Ring!Saved
<1>4. CASE task # "off"
  BY <1>1, <1>2, <1>3, <1>4 DEF PowerFailure, Reg!PowerFailure, Reg!Flash!Abandon
<1>5. CASE task = "off"
  <2>1. Ring!Submitted = NoPayload /\ Ring!Saved = FALSE
    BY <1>5, Mapped DEF IInv, RegP!IInv, RegP!Invariant, RegP!Places, RegP!TypeOK
  <2> QED
    BY <1>2, <1>3, <1>5, <2>1
    DEF PowerFailure, registryVars, clientVars, Reg!vars, Reg!clientVars, Reg!callVars,
        Reg!bufferVars, Reg!flashVars
<1> QED
  BY <1>4, <1>5

\* The start of the flash management is no step of the registry.
LEMMA BootFlashMap ==
  ASSUME IInv, RingP!IInv', BootFlash, RingStep
  PROVE  UNCHANGED <<Reg!vars, Ring!Stored>>
<1>1. ~Ring!InWrite /\ ~Ring!InWrite' /\ UNCHANGED write_ok
  BY DEF BootFlash, IInv, Link, Ring!Boot, Ring!FindNoBlock, Ring!FindLastLogicalBlock,
     Ring!Restart, Ring!RestartSector, Ring!RestartForBoot, Ring!RestartForWrite, Ring!InWrite
<1>2. Ring!Submitted = NoPayload /\ Ring!Submitted' = NoPayload
  BY <1>1 DEF Ring!Submitted
<1>3. Ring!Saved = FALSE
  BY Mapped DEF BootFlash, IInv, RegP!IInv, RegP!Invariant, RegP!Places, RegP!TypeOK
<1>4. UNCHANGED <<Ring!Stored, Ring!Submitted, Ring!Saved>>
  BY <1>2, <1>3, RegisterCases, NoPayloadIsNone DEF IInv
<1> QED
  BY <1>4
  DEF BootFlash, registryVars, clientVars, Reg!vars, Reg!clientVars, Reg!callVars, Reg!bufferVars,
      Reg!flashVars

LEMMA BootMap ==
  ASSUME IInv, Boot
  PROVE  Reg!Boot
<1>1. task = "off" /\ m_cache_buffer.payload = Loaded
  BY DEF Boot, Reg!Load, Reg!LoadDamaged, IInv, Link
<1>2. EmptyPayload # Damaged /\ NoPayload # Damaged
  <2>1. EmptyPayload \in Payloads
    BY DEF EmptyPayload, Payloads
  <2> QED
    BY <2>1, OnFlashAssumption DEF Reg!PayloadAssumption, Reg!Payloads, Payloads, Reg!Objects, Objects
<1>3. Loaded = Damaged <=> Ring!Stored = Damaged
  BY <1>2 DEF Loaded
<1>4. UNCHANGED Reg!flashVars
  BY SameRing DEF Boot, Reg!flashVars
<1>5. IF Loaded = Damaged THEN Reg!LoadDamaged ELSE Reg!Load(Loaded)
  BY <1>1 DEF Boot
<1>6. Loaded = IF Ring!Stored = NoPayload THEN Reg!EmptyPayload ELSE Ring!Stored
  BY DEF Loaded, EmptyPayload, Reg!EmptyPayload
<1> QED
  BY <1>3, <1>4, <1>5, <1>6 DEF Reg!Boot

\* The other steps are those of the registry.
LEMMA QuietMap ==
  ASSUME UNCHANGED ringVars, [Next]_vars
  PROVE  [Reg!Next]_(Reg!vars) \/ Boot \/ BootFlash \/ Write \/ EraseInWrite \/ WriteToFlash \/ PowerFailure
<1>1. CASE UNCHANGED vars
  BY <1>1, SameRing
  DEF vars, registryVars, clientVars, Reg!vars, Reg!clientVars, Reg!callVars, Reg!bufferVars,
      Reg!flashVars
<1>2. ASSUME NEW c \in Clients, Call(c) \/ ClientStep(c) PROVE Reg!Next
  BY <1>2 DEF Call, ClientStep, Reg!Next
<1> QED
  BY <1>1, <1>2
  DEF Next, TaskStep, TimerExpired, StartTask, Pull, CheckFlag, LockForFlush, UnlockAfterWrite,
      Reg!Next, Reg!TaskStep

LEMMA NextMap ==
  ASSUME IInv, RingP!IInv', [Next]_vars
  PROVE  [Reg!Next]_(Reg!vars)
<1>1. RingStep
  BY NextRing DEF IInv
<1>2. CASE Boot
  BY <1>2, BootMap DEF Reg!Next
<1>3. CASE BootFlash
  BY <1>1, <1>3, BootFlashMap
<1>4. CASE Write
  BY <1>1, <1>4, WriteMap DEF Reg!Next, Reg!TaskStep
<1>5. CASE EraseInWrite
  BY <1>1, <1>5, EraseInWriteMap DEF Reg!Next
<1>6. CASE WriteToFlash
  BY <1>1, <1>6, WriteToFlashMap DEF Reg!Next, Reg!TaskStep
<1>7. CASE PowerFailure
  BY <1>7, PowerFailureMap DEF Reg!Next
<1>8. CASE UNCHANGED ringVars
  BY <1>2, <1>3, <1>4, <1>5, <1>6, <1>7, <1>8, QuietMap
<1> QED
  BY <1>2, <1>3, <1>4, <1>5, <1>6, <1>7, <1>8
  DEF Next, vars, TaskStep, Call, ClientStep, TimerExpired, StartTask, Pull, CheckFlag,
      LockForFlush, UnlockAfterWrite

------------------------------------------------------------------------------
(* The link is kept. *)

\* A start of the flash management ends with what the device holds.
LEMMA BootFlashLink ==
  ASSUME IInv, RingP!IInv', BootFlash, RingStep
  PROVE  Link'
<1>0. UNCHANGED Ring!Stored
  BY BootFlashMap
<1>1. task = "off" /\ task' = "off" /\ ~erase_failed
  BY DEF BootFlash, registryVars, IInv, Link
<1>2. UNCHANGED erase_failed
  BY DEF BootFlash, Ring!Boot, Ring!FindNoBlock, Ring!FindLastLogicalBlock, Ring!Restart,
     Ring!RestartSector, Ring!RestartForBoot, Ring!RestartForWrite, Ring!Erase
<1>3. ASSUME NEW b \in Ring!Blocks, Ring!FindLastLogicalBlock(b) PROVE Link'
  <2>1. /\ RingP!IsLast(b) /\ b \in RingP!Blocks /\ flash_pc' = "idle"
        /\ m_cache_buffer'.payload = flash[b].payload
    BY <1>3
    DEF Ring!FindLastLogicalBlock, Ring!IsLast, RingP!IsLast, Ring!Valid, RingP!Valid, Ring!Used,
        RingP!Used, Ring!Blocks, RingP!Blocks, Ring!NumBlocks, RingP!NumBlocks
  <2>2. RingP!Recovered = flash[b].payload
    BY <2>1, RingP!RecoveredIs, RingAssumption DEF IInv, RingP!IInv
  <2>3. Ring!Stored = flash[b].payload
    BY <1>1, <2>2, SameMapped DEF RingP!Stored
  <2>4. Ring!Stored # NoPayload
    BY <2>1, <2>3 DEF IInv, RingP!IInv, RingP!Shape, RingP!IsLast, RingP!Valid
  <2> QED
    BY <1>0, <1>1, <1>2, <2>1, <2>3, <2>4 DEF Link, Loaded
<1>4. CASE Ring!FindNoBlock \/ Ring!RestartSector
  BY <1>1, <1>2, <1>4 DEF Link, IInv, Ring!FindNoBlock, Ring!RestartSector
<1>5. CASE Ring!RestartForBoot
  <2>1. flash_pc = "restart" /\ restart_for = "boot" /\ flash_pc' = "idle"
        /\ m_cache_buffer'.payload = EmptyPayload
    BY <1>5 DEF Ring!RestartForBoot, Ring!WriteToCache
  <2>2. RingP!Stored = NoPayload
    BY <1>1, <2>1, RingP!StoredNone, RingAssumption
    DEF IInv, RingP!IInv, RingP!Sound, RingP!Restarting
  <2> QED
    BY <1>0, <1>1, <1>2, <2>1, <2>2, SameMapped DEF Link, Loaded
<1>6. ~Ring!RestartForWrite
  BY <1>1 DEF IInv, Link, Ring!RestartForWrite
<1> QED
  BY <1>3, <1>4, <1>5, <1>6 DEF BootFlash, Ring!Boot, Ring!Restart

LEMMA WriteLink ==
  ASSUME IInv, Write \/ EraseInWrite \/ WriteToFlash
  PROVE  Link'
<1>1. CASE Write
  BY <1>1 DEF Write, IInv, Link, Ring!Write, Ring!WriteFull
<1>2. CASE EraseInWrite
  BY <1>2
  DEF EraseInWrite, IInv, Link, Ring!EraseOldSector, Ring!Restart, Ring!RestartSector,
      Ring!RestartForBoot, Ring!RestartForWrite, Ring!Erase, registryVars
<1>3. CASE WriteToFlash
  BY <1>3 DEF WriteToFlash, IInv, Link, Ring!WriteToFlash, Ring!ProgramWord, Ring!ProgramError
<1> QED
  BY <1>1, <1>2, <1>3

\* The registry moves on only when the flash management is where it may be.
LEMMA RegistryLink ==
  ASSUME IInv, UNCHANGED ringVars, [Next]_vars
  PROVE  Link' \/ BootFlash \/ Write \/ EraseInWrite \/ WriteToFlash \/ PowerFailure
<1>0. UNCHANGED <<flash_pc, restart_for, erase_failed, m_cache_buffer>> /\ UNCHANGED Loaded
  BY SameRing DEF ringVars
<1>1. CASE UNCHANGED task
  BY <1>0, <1>1 DEF IInv, Link
<1>2. CASE task' # task
  <2>1. \/ Boot \/ StartTask \/ Pull \/ CheckFlag \/ LockForFlush \/ UnlockAfterWrite
        \/ BootFlash \/ Write \/ EraseInWrite \/ WriteToFlash \/ PowerFailure
    <3>1. ASSUME NEW c \in Clients, Call(c) \/ ClientStep(c) PROVE UNCHANGED task
      <4>1. CASE Call(c)
        BY <4>1 DEF Call, Reg!Call
      <4>2. CASE ClientStep(c)
        BY <4>2
        DEF ClientStep, Reg!ClientStep, Reg!Lock, Reg!Unlock, Reg!WriteExisting, Reg!WriteOtherSize,
            Reg!WriteNoSpace, Reg!WriteNew, Reg!CopyValue, Reg!NeedUpdateFlash, Reg!Read,
            Reg!IsExist, Reg!DeleteFind, Reg!DeleteShift, Reg!DeleteEnd
      <4> QED
        BY <3>1, <4>1, <4>2
    <3> QED
      BY <1>2, <3>1 DEF Next, vars, registryVars, TaskStep, TimerExpired, Reg!TimerExpired
  <2>2. CASE Boot
    BY <1>0, <2>2 DEF Boot, Reg!Load, Reg!LoadDamaged, IInv, Link
  <2>3. CASE StartTask \/ Pull \/ CheckFlag \/ LockForFlush
    BY <1>0, <2>3
    DEF StartTask, Pull, CheckFlag, LockForFlush, Reg!StartTask, Reg!Pull, Reg!CheckFlag,
        Reg!LockForFlush, IInv, Link
  <2>4. CASE UnlockAfterWrite
    BY <1>0, <2>4 DEF UnlockAfterWrite, Reg!UnlockAfterWrite, IInv, Link
  <2> QED
    BY <2>1, <2>2, <2>3, <2>4
<1> QED
  BY <1>1, <1>2

LEMMA NextLink ==
  ASSUME IInv, RingP!IInv', [Next]_vars
  PROVE  Link'
<1>1. RingStep
  BY NextRing DEF IInv
<1>2. CASE PowerFailure
  BY <1>2 DEF PowerFailure, Ring!PowerFailure, Reg!RamLost, registryVars, IInv, Link
<1>3. CASE UNCHANGED ringVars
  BY <1>1, <1>2, <1>3, BootFlashLink, WriteLink, RegistryLink
<1> QED
  BY <1>1, <1>2, <1>3, BootFlashLink, WriteLink
  DEF Next, vars, TaskStep, Call, ClientStep, TimerExpired, StartTask, Pull, CheckFlag,
      LockForFlush, UnlockAfterWrite, Boot

------------------------------------------------------------------------------
(* The theorems. *)

LEMMA InitLink == Init => IInv /\ Reg!Init
<1> SUFFICES ASSUME Init PROVE IInv /\ Reg!Init
  OBVIOUS
<1>1. RingP!IInv
  BY RingP!InitInvariant, RingAssumption, SameInit DEF Init
<1>2. RingP!Stored = NoPayload
  <2>1. \A b \in RingP!Blocks : ~RingP!Valid(b)
    BY SameInit DEF Init, RingP!Init, RingP!Valid, RingP!Erased
  <2> QED
    BY <2>1, RingP!StoredNone, RingAssumption
<1>3. flash_pc = "off" /\ erase_failed = FALSE /\ write_ok = FALSE
  BY SameInit DEF Init, RingP!Init
<1>4. Ring!Stored = NoPayload /\ Ring!Submitted = NoPayload /\ Ring!Saved = FALSE
  BY <1>2, <1>3, SameMapped DEF Ring!Submitted, Ring!InWrite, Ring!Saved
<1>5. Reg!Init
  BY <1>4 DEF Init, Reg!Init, Reg!Flash!Init
<1>6. RegP!IInv
  BY <1>5, SameRegInit, RegP!InitInvariant, RegAssumption
<1> QED
  BY <1>1, <1>3, <1>5, <1>6 DEF IInv, Link, Init

LEMMA NextInvariant == IInv /\ [Next]_vars => IInv' /\ [Reg!Next]_(Reg!vars)
<1> SUFFICES ASSUME IInv, [Next]_vars PROVE IInv' /\ [Reg!Next]_(Reg!vars)
  OBVIOUS
<1>1. RingP!IInv'
  BY NextRing, RingP!NextInvariant, RingAssumption DEF IInv, RingStep
<1>2. [Reg!Next]_(Reg!vars)
  BY <1>1, NextMap
<1>3. RegP!IInv'
  BY <1>2, SameNext, RegP!NextInvariant, RegAssumption DEF IInv
<1>4. Link'
  BY <1>1, NextLink
<1> QED
  BY <1>1, <1>2, <1>3, <1>4 DEF IInv

\* The registry on the ring of blocks behaves as the registry on an atomic register,
\* whatever blocks are torn and whenever power fails between two flash operations.
THEOREM OnFlash == Spec => RegistrySpec
BY InitLink, NextInvariant, PTL DEF Spec, RegistrySpec, Reg!Spec

\* The dictionary of the registry, seen from both sides.
LEMMA SameContents == Reg!Contents = RegP!Contents
BY DEF Reg!Contents, RegP!Contents, Reg!Running, RegP!Running, Reg!Durable, RegP!Durable, Reg!MapOf, RegP!MapOf, Reg!Lookup,
   RegP!Lookup, Reg!FindObject, RegP!FindObject

LEMMA SameDurable == Reg!Durable = RegP!Durable /\ Reg!Flushing = RegP!Flushing
BY DEF Reg!Durable, RegP!Durable, Reg!Flushing, RegP!Flushing, Reg!MapOf, RegP!MapOf, Reg!Lookup,
   RegP!Lookup, Reg!FindObject, RegP!FindObject

LEMMA SameMap ==
  /\ Reg!Map!Init <=> RegP!Map!Init
  /\ [Reg!Map!Next]_(Reg!Map!vars) <=> [RegP!Map!Next]_(RegP!Map!vars)
<1>1. Reg!Contents' = RegP!Contents' /\ Reg!Durable' = RegP!Durable' /\ Reg!Flushing' = RegP!Flushing'
  <2>1. (Reg!Contents = RegP!Contents)' /\ (Reg!Durable = RegP!Durable /\ Reg!Flushing = RegP!Flushing)'
    BY SameContents, SameDurable, PTL
  <2> QED
    BY <2>1
<1> QED
  BY <1>1, SameContents, SameDurable
  DEF Reg!Map!Init, RegP!Map!Init, Reg!Map!Next, RegP!Map!Next, Reg!Map!vars, RegP!Map!vars,
      Reg!Map!Empty, RegP!Map!Empty, Reg!Map!Put, RegP!Map!Put, Reg!Map!Remove, RegP!Map!Remove,
      Reg!Map!BeginFlush, RegP!Map!BeginFlush, Reg!Map!EndFlush, RegP!Map!EndFlush,
      Reg!Map!FailFlush, RegP!Map!FailFlush, Reg!Map!LoseDurable, RegP!Map!LoseDurable,
      Reg!Map!PowerFailure, RegP!Map!PowerFailure

\* From the calls of the clients down to the flash words, and back after power failures:
\* the program keeps a dictionary with atomic operations, of which each flush saves one
\* instant, and only what does not fit in a block is saved damaged.
THEOREM FlashKeepsMap == Spec => Reg!MapSpec
<1>1. RegP!Spec => RegP!MapSpec
  BY RegP!RegistryIsMap, RegAssumption
<1>2. Reg!Spec => RegP!Spec
  BY SameRegInit, SameNext, PTL DEF Reg!Spec, RegP!Spec
<1>3. RegP!MapSpec => Reg!MapSpec
  BY SameMap, PTL DEF RegP!MapSpec, Reg!MapSpec, RegP!Map!Spec, Reg!Map!Spec
<1> QED
  BY <1>1, <1>2, <1>3, OnFlash, PTL DEF RegistrySpec

\* Nobody keeps the mutex, the task that erases sectors while it has it included: with
\* values of one size and room for them, whoever waits for it waits for a call or a
\* flush that is on its way to unlock it, whatever the ring is doing.
THEOREM LocksOnFlash ==
  ASSUME NEW room, RegP!Room(room), RegP!SameSizes
  PROVE  Spec => []LocksReleased
<1>1. RegP!Spec => []RegP!LocksReleased
  BY RegP!LocksAreReleased, RegAssumption
<1>2. Reg!Spec => RegP!Spec
  BY SameRegInit, SameNext, PTL DEF Reg!Spec, RegP!Spec
<1>3. RegP!LocksReleased => LocksReleased
  BY DEF RegP!LocksReleased, LocksReleased, Reg!LocksReleased
<1> QED
  BY <1>1, <1>2, <1>3, OnFlash, PTL DEF RegistrySpec

==============================================================================
