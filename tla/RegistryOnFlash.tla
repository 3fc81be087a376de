--------------------------- MODULE RegistryOnFlash ---------------------------
(***************************************************************************)
(* The internal registry on its flash management, as the program runs them *)
(* together: the constructor of the registry waits for the one of          *)
(* FlashManagment and loads the block it found, EventCheckFlash holds      *)
(* m_mutex through all the erases of Write and lets the tasks go on while  *)
(* WriteToFlash programs flash word after flash word, and a power failure  *)
(* stops both.                                                             *)
(*                                                                         *)
(* InternalRegistry has an atomic register for the flash.  Here the steps  *)
(* that touch the flash are the ones of the ring, and the theorem is that  *)
(* InternalRegistry is right about them.  The erases of the device work.   *)
(***************************************************************************)
EXTENDS Integers, Sequences

CONSTANTS
  Clients, Registry, Nobody, Keys, Values, Partial, Absent, NameSize, ValueSize,
  MaxFlashSize, NUM_MESSAGE, MaxCalls,
  NumSectors, BlocksPerSector, WordsPerBlock, Garbled, UINT32_MAX, CounterBound,
  NoPayload, Damaged, PowerFaults,
  ProgramFaults  \* may HAL_FLASH_Program report an error?

VARIABLES
  pc, call, object, result, calls, task, queue, m_mutex, m_flash_buffer,
  m_flash_buffer_size, m_need_update_flash,
  flash,
  flash_pc,      \* where the thread that uses FlashManagment is in it
  m_counter, m_current_address, m_cache_buffer, buffer, last_address, restart_for, index,
  erase_failed, write_ok

clientVars == <<call, object, result, calls>>
registryVars == <<pc, clientVars, task, queue, m_mutex, m_flash_buffer, m_flash_buffer_size,
                  m_need_update_flash>>
ringVars == <<flash, flash_pc, m_counter, m_current_address, m_cache_buffer, buffer, last_address,
              restart_for, index, erase_failed, write_ok>>
vars == <<registryVars, ringVars>>

------------------------------------------------------------------------------
Objects == [key : Keys, size : Nat, value : Values \cup {Partial}]

Payloads == [objects : Seq(Objects), size : Int]

EmptyPayload == [objects |-> <<>>, size |-> 0]

Ring == INSTANCE FlashManagment WITH
  Payloads <- Payloads \cup {Damaged}, pc <- flash_pc, EraseFaults <- FALSE, EraseTears <- FALSE

Reg == INSTANCE InternalRegistry WITH
  stored <- Ring!Stored, submitted <- Ring!Submitted, saved <- Ring!Saved,
  WriteErrors <- ProgramFaults

\* The assumptions of both.
ASSUME OnFlashAssumption ==
  /\ Ring!FlashAssumption
  /\ Reg!RegistryAssumption
  /\ Reg!PayloadAssumption

Init ==
  /\ pc = [c \in Clients |-> "off"]
  /\ call = [c \in Clients |-> Reg!NoCall]
  /\ object = [c \in Clients |-> Reg!NoObject]
  /\ result = [c \in Clients |-> Reg!NoResult]
  /\ calls = 0
  /\ task = "off"
  /\ queue = 0
  /\ m_mutex = [owner |-> Nobody, count |-> 0]
  /\ m_flash_buffer = <<>>
  /\ m_flash_buffer_size = 0
  /\ m_need_update_flash = FALSE
  /\ Ring!Init

------------------------------------------------------------------------------
(* Steps of the registry that leave the flash alone. *)

Call(c) ==
  /\ UNCHANGED ringVars
  /\ \/ \E op \in {"Write", "Read"}, k \in Keys, v \in Values : Reg!Call(c, op, k, v)
     \/ \E op \in {"IsExist", "Delete"}, k \in Keys : Reg!Call(c, op, k, Absent)

ClientStep(c) == UNCHANGED ringVars /\ Reg!ClientStep(c)

TimerExpired == UNCHANGED ringVars /\ Reg!TimerExpired

StartTask == UNCHANGED ringVars /\ Reg!StartTask

Pull == UNCHANGED ringVars /\ Reg!Pull

CheckFlag == UNCHANGED ringVars /\ Reg!CheckFlag

LockForFlush == UNCHANGED ringVars /\ Reg!LockForFlush

------------------------------------------------------------------------------
(* Steps that use it. *)

\* The member of FlashManagment is built first.
BootFlash ==
  /\ task = "off"
  /\ Ring!Boot \/ Ring!Restart
  /\ UNCHANGED registryVars

\* GetSize and Read: the block that was found, or nothing.
Boot ==
  /\ flash_pc = "idle"
  /\ IF m_cache_buffer.payload = Damaged THEN Reg!LoadDamaged ELSE Reg!Load(m_cache_buffer.payload)
  /\ UNCHANGED ringVars

\* EventCheckFlash clears the flag and calls Write ...
Write ==
  /\ task = "write"
  /\ m_need_update_flash' = FALSE
  /\ Ring!Write(Reg!Image) \/ Ring!WriteFull(Reg!Image)
  /\ task' = "unlock"
  /\ UNCHANGED <<pc, clientVars, queue, m_mutex, m_flash_buffer, m_flash_buffer_size>>

\* ... which erases before it returns ...
EraseInWrite ==
  /\ task = "unlock"
  /\ Ring!EraseOldSector \/ Ring!Restart
  /\ UNCHANGED registryVars

\* ... and the mutex is unlocked when it has returned.
UnlockAfterWrite ==
  /\ flash_pc = "cached"
  /\ UNCHANGED ringVars
  /\ Reg!UnlockAfterWrite

\* Mutant: the flag is cleared when the flash has been written.
WriteToFlashThenClear ==
  /\ task = "flush"
  /\ Ring!WriteToFlash \/ Ring!ProgramWord \/ Ring!ProgramError
  /\ task' = IF flash_pc' = "idle" THEN "pull" ELSE "flush"
  /\ m_need_update_flash' = (m_need_update_flash /\ task' # "pull")
  /\ UNCHANGED <<pc, clientVars, queue, m_mutex, m_flash_buffer, m_flash_buffer_size>>

\* WriteToFlash returns with the last flash word or with the first error.
WriteToFlash ==
  /\ task = "flush"
  /\ Ring!WriteToFlash \/ Ring!ProgramWord \/ Ring!ProgramError
  /\ task' = IF flash_pc' = "idle" THEN "pull" ELSE "flush"
  /\ UNCHANGED <<pc, clientVars, queue, m_mutex, m_flash_buffer, m_flash_buffer_size,
                 m_need_update_flash>>

\* Power fails, in the constructor of the flash management too.
PowerFailure ==
  /\ Ring!PowerFailure
  /\ IF task = "off" THEN UNCHANGED registryVars ELSE Reg!RamLost

TaskStep == Pull \/ CheckFlag \/ LockForFlush \/ Write \/ EraseInWrite \/ UnlockAfterWrite \/ WriteToFlash

Next ==
  \/ \E c \in Clients : Call(c) \/ ClientStep(c)
  \/ TimerExpired
  \/ StartTask
  \/ TaskStep
  \/ BootFlash
  \/ Boot
  \/ PowerFailure

Spec == Init /\ [][Next]_vars

\* As in InternalRegistry; the constructors run to their end.
Fairness ==
  /\ \A c \in Clients : WF_vars(ClientStep(c))
  /\ WF_vars(TimerExpired)
  /\ WF_vars(StartTask)
  /\ WF_vars(TaskStep)
  /\ WF_vars(BootFlash \/ Boot)

FairSpec == Spec /\ Fairness

------------------------------------------------------------------------------
(* Properties. *)

\* The registry on the ring is the registry on an atomic register: its flushes take
\* effect with their last flash word, what they erase is lost only while they last,
\* and a start of the program loads the payload of the last of them.
RegistrySpec == Reg!Spec

\* Whoever has the mutex of the registry gives it back, the task that erases and writes
\* included: no early return keeps it where values have one size and space is enough.
LocksReleased == Reg!LocksReleased

\* InternalRegistry.cpp:47, EventCheckFlash "check if buffer of the cache is change
\* ... and if yes, update the flash": unless power fails first, or an error of the
\* device is dropped, a change gets to the flash through all the steps of the ring.
ChangesReachFlash ==
  m_need_update_flash ~>
    \/ task = "off"
    \/ m_counter >= CounterBound
    \/ ~m_need_update_flash /\ Ring!Stored = Reg!Snapshot
==============================================================================
