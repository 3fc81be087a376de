------------------------- MODULE FlashHistory_proofs -------------------------
(***************************************************************************)
(* Old payloads come back after an erase that failed or was cut short, and *)
(* only then.  The run flash_erase_error shows the first half for an erase *)
(* that failed, the theorem of this module the second, for every geometry  *)
(* and all the other faults.                                               *)
(***************************************************************************)
EXTENDS FlashHistory, FlashManagment_proofs

------------------------------------------------------------------------------
\* What is stored is the newest payload or nothing, after any power failure.
StoresNewest == ~erase_failed => Stored \in {newest, NoPayload}

HistoryInvariant == IInv /\ StoresNewest

\* The flag of a failed erase stays.
LEMMA FailureStays ==
  ASSUME IInv, [Next]_vars, ~erase_failed'
  PROVE  ~erase_failed
<1>1. ASSUME NEW s, Erase(s) PROVE ~erase_failed
  BY <1>1 DEF Erase, IInv, TypeOK
<1>2. CASE Restart
  BY <1>1, <1>2 DEF Restart, RestartSector, RestartForBoot, RestartForWrite
<1>3. CASE EraseOldSector
  BY <1>1, <1>3 DEF EraseOldSector
<1>4. CASE PowerFailureInErase
  BY <1>4 DEF PowerFailureInErase
<1> QED
  BY <1>2, <1>3, <1>4
  DEF Next, Boot, FindNoBlock, FindLastLogicalBlock, Write, WriteFull, WriteToFlash, ProgramWord,
      ProgramError, PowerFailure, vars

\* A step that programs the last flash word commits the payload of the write, also when
\* the device reports an error for it.
LEMMA ProgramsCommits ==
  ASSUME IInv, IInv', [Next]_vars, ~erase_failed', Programs
  PROVE  Stored' = buffer
<1>1. ~erase_failed
  BY FailureStays
<1>2. ProgramWord \/ (ProgramError /\ Program)
  BY DEF Programs, Next, Boot, FindNoBlock, FindLastLogicalBlock, Restart, RestartSector, RestartForBoot,
     RestartForWrite, Write, WriteFull, EraseOldSector, WriteToFlash, ProgramError, PowerFailure,
     PowerFailureInErase, vars
<1>3. Program /\ UNCHANGED <<erase_failed, m_current_address, m_cache_buffer, buffer>>
  BY <1>2 DEF ProgramWord, ProgramError
<1> QED
  BY <1>1, <1>3, LastWordStored DEF Programs

\* Every other step keeps what is stored or loses it.
LEMMA OthersKeepOrLose ==
  ASSUME IInv, IInv', [Next]_vars, ~erase_failed', ~Programs
  PROVE  Stored' \in {Stored, NoPayload}
<1>1. ~erase_failed
  BY FailureStays
<1>2. CASE UNCHANGED flash
  <2>1. UNCHANGED erase_failed
    BY <1>1 DEF IInv, TypeOK
  <2> QED
    BY <1>2, <2>1, StoredKept DEF IInv
<1>3. CASE ProgramWord \/ (ProgramError /\ Program)
  <2>1. pc = "program" /\ Program /\ UNCHANGED erase_failed
    BY <1>3 DEF ProgramWord, ProgramError
  <2>2. CASE index # WordsPerBlock
    BY <2>1, <2>2, ProgramStored
  <2>3. CASE index = WordsPerBlock
    BY <1>2, <2>1, <2>3 DEF Programs
  <2> QED
    BY <2>2, <2>3
<1>4. CASE Restart \/ EraseOldSector
  <2>1. Submitted' = Submitted
    BY <1>4 DEF Restart, RestartSector, RestartForBoot, RestartForWrite, EraseOldSector, Submitted, InWrite
  <2> QED
    BY <2>1, NextImplements
    DEF Register!Next, Register!vars, Register!Submit, Register!Commit, Register!CommitUnnoticed,
        Register!Abandon, Register!Lose
<1>5. CASE PowerFailureInErase
  BY <1>5 DEF PowerFailureInErase
<1> QED
  BY <1>2, <1>3, <1>4, <1>5
  DEF Next, Boot, FindNoBlock, FindLastLogicalBlock, Write, WriteFull, WriteToFlash, ProgramError,
      PowerFailure, vars

LEMMA NextStoresNewest ==
  ASSUME IInv, IInv', StoresNewest, [HistoryNext]_<<vars, newest>>
  PROVE  StoresNewest'
<1> SUFFICES ASSUME ~erase_failed' PROVE Stored' \in {newest', NoPayload}
  BY DEF StoresNewest
<1>1. [Next]_vars
  BY DEF HistoryNext
<1>2. ~erase_failed /\ Stored \in {newest, NoPayload}
  BY <1>1, FailureStays DEF StoresNewest
<1>3. CASE Programs /\ HistoryNext
  BY <1>1, <1>3, ProgramsCommits DEF HistoryNext
<1>4. CASE ~Programs /\ HistoryNext
  BY <1>1, <1>2, <1>4, OthersKeepOrLose DEF HistoryNext
<1>5. CASE UNCHANGED <<vars, newest>>
  <2>1. ~Programs
    BY <1>5 DEF Programs, vars
  <2> QED
    BY <1>1, <1>2, <1>5, <2>1, OthersKeepOrLose
<1> QED
  BY <1>3, <1>4, <1>5

LEMMA HistoryHolds == HistorySpec => []HistoryInvariant
<1>1. HistoryInit => HistoryInvariant
  <2>1. Init => \A b \in Blocks : ~Valid(b)
    BY DEF Init, Valid, Erased
  <2> QED
    BY <2>1, InitInvariant, StoredNone DEF HistoryInit, HistoryInvariant, StoresNewest
<1>2. HistoryInvariant /\ [HistoryNext]_<<vars, newest>> => HistoryInvariant'
  <2> SUFFICES ASSUME HistoryInvariant, [HistoryNext]_<<vars, newest>> PROVE HistoryInvariant'
    OBVIOUS
  <2>1. [Next]_vars
    BY DEF HistoryNext
  <2>2. IInv'
    BY <2>1, NextInvariant DEF HistoryInvariant
  <2> QED
    BY <2>2, NextStoresNewest DEF HistoryInvariant
<1> QED
  BY <1>1, <1>2, PTL DEF HistorySpec

\* A start of the program loads the newest payload that was ever programmed to its
\* end, or none, as long as no erase has failed or been cut short: torn blocks,
\* power failures between flash operations, program errors and full rings bring nothing old back.
THEOREM OnlyErasesRollBack == HistorySpec => [](~erase_failed => NeverRollsBack)
<1>1. HistoryInvariant => (~erase_failed => NeverRollsBack)
  BY DEF HistoryInvariant, StoresNewest, Stored, NeverRollsBack
<1> QED
  BY <1>1, HistoryHolds, PTL
==============================================================================
