--------------------- MODULE InternalFlashDriver_proofs ---------------------
(***************************************************************************)
(* Proofs about the driver of the internal flash, for any size of a flash  *)
(* word and of a sector, any number of sectors, any words and any writes.  *)
(***************************************************************************)
EXTENDS InternalFlashDriver, TLAPS

------------------------------------------------------------------------------
(* Arithmetic of flash words and sectors. *)

LEMMA Division ==
  ASSUME NEW a \in Nat, NEW b \in Nat \ {0}
  PROVE  /\ a \div b \in Nat
         /\ a % b \in 0 .. b - 1
         /\ a = b * (a \div b) + (a % b)
  OBVIOUS

\* A quotient is known by the multiple of the divisor below the dividend.
LEMMA QuotientIs ==
  ASSUME NEW b \in Nat \ {0}, NEW q \in Nat, NEW r \in 0 .. b - 1
  PROVE  (b * q + r) \div b = q /\ (b * q + r) % b = r
  OBVIOUS

LEMMA AlignedDown ==
  ASSUME NEW a \in Nat, NEW b \in Nat \ {0}
  PROVE  (a - (a % b)) % b = 0
PROOF
<1> DEFINE q == a \div b
<1>1. q \in Nat /\ a - (a % b) = b * q + 0
  BY Division
<1> HIDE DEF q
<1>2. (b * q + 0) % b = 0
  BY <1>1, QuotientIs
<1> QED
  BY <1>1, <1>2

LEMMA NextAligned ==
  ASSUME NEW a \in Nat, NEW b \in Nat \ {0}, a % b = 0
  PROVE  (a + b) % b = 0
PROOF
<1> DEFINE q == a \div b
<1>1. a = b * q /\ q \in Nat
  BY Division
<1> HIDE DEF q
<1>2. b * (q + 1) = b * q + b
  BY <1>1
<1>3. a + b = b * (q + 1) + 0
  BY <1>1, <1>2
<1>4. (b * (q + 1) + 0) % b = 0
  BY <1>1, QuotientIs
<1> QED
  BY <1>3, <1>4

\* Less than a flash word after an aligned number.
LEMMA RemainderAfter ==
  ASSUME NEW b \in Nat \ {0}, NEW k \in Nat, k % b = 0, NEW n \in k .. k + b - 1
  PROVE  n % b = n - k
PROOF
<1> DEFINE q == k \div b
<1>1. k = b * q /\ q \in Nat
  BY Division
<1> HIDE DEF q
<1>2. n = b * q + (n - k) /\ n - k \in 0 .. b - 1
  BY <1>1
<1> DEFINE r == n - k
<1>3. n = b * q + r /\ r \in 0 .. b - 1
  BY <1>2
<1> HIDE DEF r
<1>4. (b * q + r) % b = r
  BY <1>1, <1>3, QuotientIs
<1> QED
  BY <1>3, <1>4 DEF r

LEMMA Sizes ==
  /\ FLASHWORD \in Nat \ {0}
  /\ BankWords \in Nat \ {0}
  /\ NumWords \in Nat \ {0}
PROOF
<1> USE DriverAssumption DEF DriverAssumption
<1>1. BankWords \in Nat \ {0}
  BY DEF BankWords
<1> QED
  BY <1>1 DEF NumWords

------------------------------------------------------------------------------
(* The inductive invariant. *)

Writing == pc \in {"head", "body", "tail", "return"}

\* What a call has begun with, and what is left of it when it is over.
Calls ==
  /\ pc = "idle" <=> result # "none"
  /\ pc = "idle" => locked
  /\ Writing => address_start + num_words <= NumWords
  /\ ~Writing => num_words = 0
  /\ pc = "erasing" => GetSecotr(address_start) # HAL_ERROR

\* How far Write has come: i counts whole flash words up to the last one.
Progress ==
  /\ pc = "head" => i = 0
  /\ pc \in {"body", "tail"} => i % FLASHWORD = 0
  /\ pc \in {"body", "tail"} /\ i < num_words => (address_start + i) % FLASHWORD = 0
  /\ pc = "tail" => num_words < i + FLASHWORD
  /\ pc = "return" => i = num_words

Invariant == TypeOK /\ Calls /\ Progress

LEMMA EmptyBuffer == << >> \in [0 .. 0 - 1 -> SUBSET Bits]
  OBVIOUS

LEMMA ZeroAligned == 0 % FLASHWORD = 0
  BY Sizes

LEMMA InitInvariant == Init => Invariant
PROOF
<1> SUFFICES ASSUME Init PROVE Invariant
  OBVIOUS
<1>1. TypeOK
  BY EmptyBuffer, Sizes, DriverAssumption DEF Init, TypeOK, DriverAssumption
<1>2. Calls /\ Progress
  BY DEF Init, Calls, Progress, Writing
<1> QED
  BY <1>1, <1>2 DEF Invariant

\* Every return of the driver.
LEMMA LeaveKeeps ==
  ASSUME NEW outcome \in {"done", "refused", "misaligned", "error"}, Leave(outcome),
         memory' \in [Words -> SUBSET Bits]
  PROVE  Invariant'
PROOF
<1>1. TypeOK'
  BY EmptyBuffer, Sizes, DriverAssumption DEF Leave, TypeOK, DriverAssumption, Words, NumWords, BankWords
<1>2. Calls' /\ Progress'
  BY DEF Leave, Calls, Progress, Writing
<1> QED
  BY <1>1, <1>2 DEF Invariant

\* Programming clears bits.
LEMMA ProgramKeeps ==
  ASSUME memory \in [Words -> SUBSET Bits], NEW base, NEW data, ProgramFlashWord(base, data)
  PROVE  memory' \in [Words -> SUBSET Bits]
  BY DEF ProgramFlashWord

LEMMA ProgramNowKeeps ==
  ASSUME TypeOK, ProgramHead \/ ProgramBody \/ ProgramTail
  PROVE  memory' \in [Words -> SUBSET Bits]
  BY ProgramKeeps DEF TypeOK, ProgramHead, ProgramBody, ProgramTail

LEMMA WriteKeeps ==
  ASSUME Invariant, NEW a \in Words, NEW n \in 0 .. MaxWords, Write(a, n)
  PROVE  Invariant'
PROOF
<1> USE Sizes, DriverAssumption DEF DriverAssumption
<1>1. a \in Nat /\ n \in Nat /\ a + n <= NumWords
  BY DEF Write, Words
<1>2. /\ pc = "idle" /\ pc' = "head" /\ result' = "none" /\ locked' = FALSE
      /\ address_start' = a /\ num_words' = n /\ memory' = memory /\ i' = i
      /\ buffer' \in [0 .. n - 1 -> SUBSET Bits]
  BY DEF Write
<1>3. i' = 0
  BY <1>2 DEF Invariant, TypeOK, Calls, Writing
<1>4. TypeOK'
  <2>1. address_start' \in 0 .. NumWords /\ num_words' \in 0 .. MaxWords /\ i' \in 0 .. num_words'
    BY <1>1, <1>2, <1>3
  <2>2. buffer' \in [0 .. num_words' - 1 -> SUBSET Bits]
    BY <1>2
  <2> QED
    BY <1>2, <2>1, <2>2 DEF Invariant, TypeOK, Words
<1>5. Calls' /\ Progress'
  BY <1>1, <1>2, <1>3 DEF Calls, Progress, Writing
<1> QED
  BY <1>4, <1>5 DEF Invariant

LEMMA SkipHeadKeeps ==
  ASSUME Invariant, SkipHead
  PROVE  Invariant'
PROOF
<1>1. TypeOK'
  BY DEF Invariant, TypeOK, SkipHead, Words
<1>2. Calls'
  BY DEF Invariant, Calls, Writing, SkipHead
<1>3. address_start + 0 = address_start
  BY Sizes DEF Invariant, TypeOK
<1>4. Progress'
  BY <1>3, ZeroAligned DEF Invariant, Progress, SkipHead, HeadOffset
<1> QED
  BY <1>1, <1>2, <1>4 DEF Invariant

\* The first flash word takes the words up to the next one, or all there are.
LEMMA HeadReaches ==
  ASSUME TypeOK
  PROVE  /\ HeadWords \in 0 .. num_words
         /\ HeadOffset \in 0 .. FLASHWORD - 1
         /\ HeadWords < num_words => (address_start + HeadWords) % FLASHWORD = 0
PROOF
<1> USE Sizes
<1>1. address_start \in Nat /\ num_words \in Nat
  BY DriverAssumption DEF TypeOK, DriverAssumption
<1>2. HeadOffset \in 0 .. FLASHWORD - 1
  BY <1>1, Division DEF HeadOffset
<1>3. HeadWords \in 0 .. num_words
  BY <1>1, <1>2 DEF HeadWords, Min2
<1>4. ASSUME HeadWords < num_words
      PROVE  (address_start + HeadWords) % FLASHWORD = 0
  <2>1. HeadWords = FLASHWORD - HeadOffset
    BY <1>1, <1>2, <1>4 DEF HeadWords, Min2
  <2>2. (address_start - HeadOffset) % FLASHWORD = 0
    BY <1>1, AlignedDown DEF HeadOffset
  <2>3. address_start - HeadOffset \in Nat
    BY <1>1, Division DEF HeadOffset
  <2>4. ((address_start - HeadOffset) + FLASHWORD) % FLASHWORD = 0
    BY <2>2, <2>3, NextAligned
  <2>5. (address_start - HeadOffset) + FLASHWORD = address_start + HeadWords
    BY <1>1, <1>2, <2>1
  <2> QED
    BY <2>4, <2>5
<1> QED
  BY <1>2, <1>3, <1>4

LEMMA HeadKeeps ==
  ASSUME Invariant, Head
  PROVE  Invariant'
PROOF
<1> USE Sizes, DriverAssumption DEF DriverAssumption
<1>1. address_start \in Nat /\ num_words \in Nat /\ address_start + num_words <= NumWords
  BY DEF Invariant, TypeOK, Calls, Writing, Head
<1>2. /\ pc = "head" /\ pc' = "body" /\ i' = i /\ i = 0
      /\ result' = result /\ locked' = locked
      /\ num_words' = num_words - HeadWords /\ address_start' = address_start + HeadWords
      /\ buffer' = [j \in 0 .. num_words - HeadWords - 1 |-> buffer[j + HeadWords]]
  BY DEF Invariant, Progress, Head
<1>3. HeadWords \in 0 .. num_words
      /\ (HeadWords < num_words => (address_start + HeadWords) % FLASHWORD = 0)
  BY HeadReaches DEF Invariant
<1>4. buffer' \in [0 .. num_words' - 1 -> SUBSET Bits]
  <2>1. ASSUME NEW j \in 0 .. num_words - HeadWords - 1
        PROVE  buffer[j + HeadWords] \in SUBSET Bits
    <3>1. j + HeadWords \in 0 .. num_words - 1
      BY <1>1, <1>3
    <3> QED
      BY <3>1 DEF Invariant, TypeOK
  <2> QED
    BY <1>2, <2>1
<1>5. memory' \in [Words -> SUBSET Bits]
  BY ProgramNowKeeps DEF Invariant, Head
<1>6. TypeOK'
  <2>1. num_words' \in 0 .. MaxWords /\ address_start' \in 0 .. NumWords /\ i' \in 0 .. num_words'
    BY <1>1, <1>2, <1>3 DEF Invariant, TypeOK
  <2> QED
    BY <1>2, <1>4, <1>5, <2>1 DEF Invariant, TypeOK, Words
<1>7. Calls'
  BY <1>1, <1>2, <1>3 DEF Invariant, Calls, Writing
<1>8. Progress'
  <2>1. i' < num_words' => HeadWords < num_words /\ address_start' + i' = address_start + HeadWords
    BY <1>1, <1>2, <1>3
  <2> QED
    BY <1>2, <1>3, <2>1, ZeroAligned DEF Progress
<1> QED
  BY <1>6, <1>7, <1>8 DEF Invariant

LEMMA BodyKeeps ==
  ASSUME Invariant, Body
  PROVE  Invariant'
PROOF
<1> USE Sizes, DriverAssumption DEF DriverAssumption
<1>1. /\ address_start \in Nat /\ num_words \in Nat /\ i \in Nat
      /\ i + FLASHWORD <= num_words
  BY DEF Invariant, TypeOK, Body, ProgramBody
<1>2. /\ pc = "body" /\ pc' = "body" /\ i' = i + FLASHWORD
      /\ UNCHANGED <<locked, address_start, num_words, buffer, result>>
  BY DEF Body
<1>3. memory' \in [Words -> SUBSET Bits]
  BY ProgramNowKeeps DEF Invariant, Body
<1>4. TypeOK'
  <2>1. i' \in 0 .. num_words'
    BY <1>1, <1>2
  <2> QED
    BY <1>2, <1>3, <2>1 DEF Invariant, TypeOK, Words
<1>5. Calls'
  BY <1>2 DEF Invariant, Calls, Writing
<1>6. Progress'
  <2>1. (i + FLASHWORD) % FLASHWORD = 0
    BY <1>1, <1>2, NextAligned DEF Invariant, Progress
  <2>2. (address_start + i) % FLASHWORD = 0 /\ address_start + i \in Nat
    BY <1>1, <1>2 DEF Invariant, Progress
  <2>3. ((address_start + i) + FLASHWORD) % FLASHWORD = 0
    BY <2>2, NextAligned
  <2>4. (address_start + i) + FLASHWORD = address_start' + i'
    BY <1>1, <1>2
  <2> QED
    BY <1>2, <2>1, <2>3, <2>4 DEF Progress
<1> QED
  BY <1>4, <1>5, <1>6 DEF Invariant

LEMMA BodyDoneKeeps ==
  ASSUME Invariant, BodyDone
  PROVE  Invariant'
PROOF
<1>1. TypeOK'
  BY DEF Invariant, TypeOK, BodyDone, Words
<1>2. Calls'
  BY DEF Invariant, Calls, Writing, BodyDone
<1>3. num_words < i + FLASHWORD
  BY Sizes, DriverAssumption DEF Invariant, TypeOK, BodyDone, DriverAssumption
<1>4. Progress'
  BY <1>3 DEF Invariant, Progress, BodyDone
<1> QED
  BY <1>1, <1>2, <1>4 DEF Invariant

\* The words after the last whole flash word are those of the tail.
LEMMA TailIsRest ==
  ASSUME Invariant, pc = "tail"
  PROVE  TailWords = num_words - i /\ i \in Nat /\ num_words \in i .. i + FLASHWORD - 1
PROOF
<1>1. i \in Nat /\ num_words \in Nat /\ i <= num_words
  BY Sizes, DriverAssumption DEF Invariant, TypeOK, DriverAssumption
<1>2. i % FLASHWORD = 0 /\ num_words < i + FLASHWORD
  BY DEF Invariant, Progress
<1>3. num_words \in i .. i + FLASHWORD - 1
  BY <1>1, <1>2, Sizes
<1> QED
  BY <1>1, <1>2, <1>3, Sizes, RemainderAfter DEF TailWords

LEMMA SkipTailKeeps ==
  ASSUME Invariant, SkipTail
  PROVE  Invariant'
PROOF
<1>1. TypeOK'
  BY DEF Invariant, TypeOK, SkipTail, Words
<1>2. Calls'
  BY DEF Invariant, Calls, Writing, SkipTail
<1>3. i = num_words
  BY TailIsRest DEF SkipTail
<1>4. Progress'
  BY <1>3 DEF Progress, SkipTail
<1> QED
  BY <1>1, <1>2, <1>4 DEF Invariant

LEMMA TailKeeps ==
  ASSUME Invariant, Tail
  PROVE  Invariant'
PROOF
<1>1. memory' \in [Words -> SUBSET Bits]
  BY ProgramNowKeeps DEF Invariant, Tail
<1>2. num_words \in Nat
  BY DriverAssumption DEF Invariant, TypeOK, DriverAssumption
<1>3. TypeOK'
  BY <1>1, <1>2 DEF Invariant, TypeOK, Tail, Words
<1>4. Calls' /\ Progress'
  BY DEF Invariant, Calls, Progress, Writing, Tail
<1> QED
  BY <1>3, <1>4 DEF Invariant

LEMMA EarseKeeps ==
  ASSUME Invariant, NEW a \in 0 .. NumWords, Earse(a) \/ EarseUnlock
  PROVE  Invariant'
PROOF
<1>1. TypeOK'
  BY DEF Invariant, TypeOK, Earse, EarseUnlock, Words
<1>2. Calls' /\ Progress'
  BY DEF Invariant, Calls, Progress, Writing, Earse, EarseUnlock, GetSecotr
<1> QED
  BY <1>1, <1>2 DEF Invariant

\* The steps that end a call.
LEMMA ReturnKeeps ==
  ASSUME Invariant,
         \/ Return \/ ProgramError \/ ProgramRefused \/ PowerFailure
         \/ EarseRefused \/ EarseDone \/ EarseError
  PROVE  Invariant'
PROOF
<1>1. PICK outcome \in {"done", "refused", "misaligned", "error"} : Leave(outcome)
  BY DEF Return, ProgramError, ProgramRefused, PowerFailure, EarseRefused, EarseDone, EarseError
<1>2. memory' \in [Words -> SUBSET Bits]
  <2>1. CASE Return \/ ProgramRefused \/ PowerFailure \/ EarseRefused \/ EarseError
    BY <2>1 DEF Invariant, TypeOK, Return, ProgramRefused, PowerFailure, EarseRefused, EarseError
  <2>2. CASE ProgramError
    BY <2>2, ProgramNowKeeps DEF Invariant, ProgramError, ProgramNow
  <2>3. CASE EarseDone
    BY <2>3 DEF Invariant, TypeOK, EarseDone, EraseSector
  <2> QED
    BY <2>1, <2>2, <2>3
<1> QED
  BY <1>1, <1>2, LeaveKeeps

LEMMA NextKeeps == Invariant /\ [Next]_vars => Invariant'
PROOF
<1> SUFFICES ASSUME Invariant, [Next]_vars PROVE Invariant'
  OBVIOUS
<1>1. CASE WriteMisaligned
  BY <1>1 DEF WriteMisaligned, Invariant, TypeOK, Calls, Progress, Writing, Words
<1>2. CASE \E a \in Words, n \in 0 .. MaxWords : Write(a, n)
  BY <1>2, WriteKeeps
<1>3. CASE \E a \in 0 .. NumWords : Earse(a)
  BY <1>3, EarseKeeps
<1>4. CASE Step
  <2>1. CASE SkipHead \/ Head \/ Body \/ BodyDone \/ SkipTail \/ Tail
    BY <2>1, SkipHeadKeeps, HeadKeeps, BodyKeeps, BodyDoneKeeps, SkipTailKeeps, TailKeeps
  <2>2. CASE Return \/ EarseRefused \/ EarseDone
    BY <2>2, ReturnKeeps
  <2>3. CASE EarseUnlock
    BY <2>3, EarseKeeps, Sizes
  <2> QED
    BY <1>4, <2>1, <2>2, <2>3 DEF Step
<1>5. CASE Fault
  BY <1>5, ReturnKeeps DEF Fault
<1>6. CASE UNCHANGED vars
  BY <1>6 DEF vars, Invariant, TypeOK, Calls, Progress, Writing, Words
<1> QED
  BY <1>1, <1>2, <1>3, <1>4, <1>5, <1>6 DEF Next

LEMMA AlwaysInvariant == Spec => []Invariant
  BY InitInvariant, NextKeeps, PTL DEF Spec

------------------------------------------------------------------------------
(* What is left of a write stays within the flash and within the buffer of the   *)
(* caller, wherever it begins and ends and wherever it is cut short.             *)
THEOREM DriverTypes == Spec => []TypeOK
PROOF
<1>1. Invariant => TypeOK
  BY DEF Invariant
<1> QED
  BY <1>1, AlwaysInvariant, PTL

(* Every return of the driver leaves the flash locked. *)
THEOREM FlashIsLocked == Spec => []LockedWhenIdle
PROOF
<1>1. Invariant => LockedWhenIdle
  BY DEF Invariant, Calls, LockedWhenIdle
<1> QED
  BY <1>1, AlwaysInvariant, PTL

(* For every size of a flash word, the words after a partial first flash word are *)
(* programmed at addresses the device accepts.                                    *)
THEOREM AddressesAligned == Spec => []ProgramsAligned
PROOF
<1>1. Invariant => ProgramsAligned
  BY DEF Invariant, Progress, ProgramsAligned
<1> QED
  BY <1>1, AlwaysInvariant, PTL

\* Every step of a call that does not end it leaves fewer to do.
LEMMA StepShortens ==
  ASSUME Invariant, Next, pc # "idle", pc' # "idle"
  PROVE  StepsLeft' < StepsLeft
PROOF
<1> USE Sizes, DriverAssumption
<1>1. num_words \in Nat /\ i \in Nat /\ i <= num_words
  BY DEF Invariant, TypeOK
<1>2. CASE SkipHead
  BY <1>1, <1>2 DEF SkipHead, StepsLeft
<1>3. CASE Head
  <2>1. HeadWords \in 0 .. num_words
    BY HeadReaches DEF Invariant
  <2>2. pc = "head" /\ pc' = "body" /\ i' = i /\ num_words' = num_words - HeadWords
    BY <1>3 DEF Head
  <2> QED
    BY <1>1, <2>1, <2>2 DEF StepsLeft
<1>4. CASE Body
  <2>1. pc = "body" /\ pc' = "body" /\ i' = i + FLASHWORD /\ num_words' = num_words
    BY <1>4 DEF Body
  <2> QED
    BY <1>1, <2>1 DEF StepsLeft
<1>5. CASE BodyDone
  BY <1>1, <1>5 DEF BodyDone, StepsLeft
<1>6. CASE SkipTail
  BY <1>1, <1>6 DEF SkipTail, StepsLeft
<1>7. CASE Tail
  <2>1. pc = "tail" /\ pc' = "return" /\ i' = num_words /\ num_words' = num_words
    BY <1>7 DEF Tail
  <2> QED
    BY <1>1, <2>1 DEF StepsLeft
<1>8. CASE EarseUnlock
  BY <1>1, <1>8 DEF EarseUnlock, StepsLeft
<1> QED
  BY <1>2, <1>3, <1>4, <1>5, <1>6, <1>7, <1>8
  DEF Next, Step, Fault, WriteMisaligned, Write, Earse, Return, EarseRefused, EarseDone,
      ProgramError, ProgramRefused, EarseError, PowerFailure, Leave

(* Whatever the lengths and the alignment of head and tail and whatever the HAL  *)
(* answers, a call of Write or Earse gets nearer to its return with every step:  *)
(* together with the fairness of Step this is why CallsReturn holds.             *)
THEOREM CallsGetShorter == Spec => CallsShorten
PROOF
<1>1. Invariant /\ [Next]_vars => [pc # "idle" => pc' = "idle" \/ StepsLeft' < StepsLeft]_vars
  BY StepShortens
<1> QED
  BY <1>1, AlwaysInvariant, PTL DEF Spec, CallsShorten

------------------------------------------------------------------------------
(* The refinement. *)

\* The words of the write in progress.
Owed == address_start + i .. address_start + num_words - 1

LEMMA TodoIs ==
  /\ ~Writing => Todo = << >>
  /\ Writing => Todo = [w \in Owed |-> buffer[w - address_start]]
  BY DEF Todo, Writing, Owed

\* What the calls of HAL_FLASH_Program have in common: the words of the buffer up to
\* m are programmed, and no other word changes.
LEMMA ProgramIsProgramTo ==
  ASSUME Invariant, Writing, NEW base \in Int, NEW data, NEW m \in 0 .. NumWords,
         ProgramFlashWord(base, data),
         \A w \in Words : w \in Owed /\ w < m =>
            w \in base .. base + FLASHWORD - 1
            /\ memory[w] \cap data[w - base] = memory[w] \cap buffer[w - address_start],
         \A w \in Words : w \in base .. base + FLASHWORD - 1 /\ ~(w \in Owed /\ w < m) =>
            memory[w] \cap data[w - base] = memory[w]
  PROVE  Memory!ProgramTo(m)
PROOF
<1>1. DOMAIN Todo = Owed /\ \A w \in Owed : Todo[w] = buffer[w - address_start]
  BY TodoIs
<1>2. ASSUME NEW w \in Words
      PROVE  (IF w \in base .. base + FLASHWORD - 1 THEN memory[w] \cap data[w - base] ELSE memory[w])
             = (IF w \in DOMAIN Todo /\ w < m THEN memory[w] \cap Todo[w] ELSE memory[w])
  BY <1>1
<1> QED
  BY <1>2 DEF ProgramFlashWord, Memory!ProgramTo, Memory!Words, Words

LEMMA HeadPrograms ==
  ASSUME Invariant, pc = "head", ProgramHead
  PROVE  Memory!ProgramTo(address_start + HeadWords)
PROOF
<1> USE Sizes, DriverAssumption DEF DriverAssumption
<1> DEFINE base == address_start - HeadOffset
           m == address_start + HeadWords
           rest == [j \in 0 .. FLASHWORD - 1 |-> memory[base + j]]
           data == Merge(HeadOffset, 0, HeadWords, rest)
<1>1. /\ address_start \in Nat /\ num_words \in Nat /\ i = 0
      /\ address_start + num_words <= NumWords
  BY DEF Invariant, TypeOK, Calls, Progress, Writing
<1>2. HeadWords \in 0 .. num_words /\ HeadOffset \in 0 .. FLASHWORD - 1
  BY HeadReaches DEF Invariant
<1>3. HeadOffset + HeadWords <= FLASHWORD
  BY <1>1, <1>2 DEF HeadWords, Min2
<1>4. base \in Int /\ m \in 0 .. NumWords /\ ProgramFlashWord(base, data)
  BY <1>1, <1>2 DEF ProgramHead
<1>5. ASSUME NEW w \in Words, w \in Owed, w < m
      PROVE  /\ w \in base .. base + FLASHWORD - 1
             /\ memory[w] \cap data[w - base] = memory[w] \cap buffer[w - address_start]
  <2>1. w \in address_start .. m - 1
    BY <1>1, <1>2, <1>5 DEF Owed, Words
  <2>2. w - base \in HeadOffset .. HeadOffset + HeadWords - 1 /\ w - base \in 0 .. FLASHWORD - 1
    BY <1>1, <1>2, <1>3, <2>1
  <2>3. base + (w - base) = w /\ 0 + (w - base) - HeadOffset = w - address_start
    BY <1>1, <1>2, <2>1
  <2>4. rest[w - base] = memory[w]
    BY <2>2, <2>3
  <2> HIDE DEF base, rest
  <2>5. data[w - base] = rest[w - base] \cap buffer[0 + (w - base) - HeadOffset]
    BY <2>2 DEF Merge
  <2>6. w \in base .. base + FLASHWORD - 1
    BY <1>4, <2>1, <2>2, <1>1
  <2> QED
    BY <2>3, <2>4, <2>5, <2>6
<1>6. ASSUME NEW w \in Words, w \in base .. base + FLASHWORD - 1, ~(w \in Owed /\ w < m)
      PROVE  memory[w] \cap data[w - base] = memory[w]
  <2>1. w < address_start \/ w >= m
    BY <1>1, <1>2, <1>6 DEF Owed, Words
  <2>2. /\ w - base \in 0 .. FLASHWORD - 1
        /\ w - base \notin HeadOffset .. HeadOffset + HeadWords - 1
    BY <1>1, <1>2, <1>6, <2>1
  <2>3. base + (w - base) = w
    BY <1>1, <1>2, <1>6
  <2>4. rest[w - base] = memory[w]
    BY <2>2, <2>3
  <2> HIDE DEF base, rest
  <2>5. data[w - base] = rest[w - base]
    BY <2>2 DEF Merge
  <2> QED
    BY <2>4, <2>5
<1> HIDE DEF base, m, data
<1> QED
  BY <1>4, <1>5, <1>6, ProgramIsProgramTo DEF Writing, m

\* A flash word filled from the buffer, from its word k on: Body and Tail.
LEMMA FilledPrograms ==
  ASSUME Invariant, pc \in {"body", "tail"}, NEW n \in 0 .. FLASHWORD, i + n <= num_words,
         n = FLASHWORD \/ i + n = num_words,
         ProgramFlashWord(address_start + i, Merge(0, i, n, Filler))
  PROVE  Memory!ProgramTo(address_start + i + n)
PROOF
<1> USE Sizes, DriverAssumption DEF DriverAssumption
<1> DEFINE base == address_start + i
           m == address_start + i + n
           data == Merge(0, i, n, Filler)
<1>1. /\ address_start \in Nat /\ num_words \in Nat /\ i \in Nat
      /\ address_start + num_words <= NumWords
      /\ buffer \in [0 .. num_words - 1 -> SUBSET Bits]
      /\ memory \in [Words -> SUBSET Bits]
  BY DEF Invariant, TypeOK, Calls, Writing
<1>2. base \in Int /\ m \in 0 .. NumWords
  BY <1>1
<1>3. ASSUME NEW j \in 0 .. FLASHWORD - 1
      PROVE  data[j] = IF j < n THEN Bits \cap buffer[i + j] ELSE Bits
  <2>1. i + j - 0 = i + j
    BY <1>1
  <2>2. j < n <=> j \in 0 .. 0 + n - 1
    OBVIOUS
  <2> QED
    BY <2>1, <2>2 DEF Merge, Filler
<1>4. ASSUME NEW w \in Words, w \in Owed, w < m
      PROVE  /\ w \in base .. base + FLASHWORD - 1
             /\ memory[w] \cap data[w - base] = memory[w] \cap buffer[w - address_start]
  <2>1. /\ w - base \in 0 .. FLASHWORD - 1 /\ w - base < n
        /\ i + (w - base) = w - address_start /\ w - address_start \in 0 .. num_words - 1
    BY <1>1, <1>4 DEF Owed, Words
  <2>2. data[w - base] = Bits \cap buffer[w - address_start]
    BY <1>3, <2>1
  <2>3. buffer[w - address_start] \subseteq Bits
    BY <1>1, <2>1
  <2>4. w \in base .. base + FLASHWORD - 1
    BY <1>1, <1>4, <2>1 DEF Owed, Words
  <2> QED
    BY <2>2, <2>3, <2>4
<1>5. ASSUME NEW w \in Words, w \in base .. base + FLASHWORD - 1, ~(w \in Owed /\ w < m)
      PROVE  memory[w] \cap data[w - base] = memory[w]
  <2>1. w - base \in 0 .. FLASHWORD - 1 /\ ~(w - base < n)
    BY <1>1, <1>5 DEF Owed, Words
  <2>2. data[w - base] = Bits
    BY <1>3, <2>1
  <2> QED
    BY <1>1, <2>2
<1> HIDE DEF base, m, data
<1>6. ProgramFlashWord(base, data)
  BY DEF base, data
<1> QED
  BY <1>2, <1>4, <1>5, <1>6, ProgramIsProgramTo DEF Writing, m

\* Every call of HAL_FLASH_Program programs what is owed, up to some word.
LEMMA BodyPrograms ==
  ASSUME Invariant, pc = "body", ProgramBody
  PROVE  Memory!ProgramTo(address_start + i + FLASHWORD)
  BY Sizes, FilledPrograms DEF ProgramBody

LEMMA TailPrograms ==
  ASSUME Invariant, pc = "tail", ProgramTail
  PROVE  Memory!ProgramTo(address_start + num_words)
PROOF
<1>1. TailWords = num_words - i /\ i \in Nat /\ num_words \in i .. i + FLASHWORD - 1
  BY TailIsRest
<1>2. address_start \in Nat
  BY Sizes DEF Invariant, TypeOK
<1>3. /\ TailWords \in 0 .. FLASHWORD
      /\ i + TailWords = num_words
      /\ num_words - TailWords = i
      /\ address_start + num_words - TailWords = address_start + i
      /\ address_start + i + TailWords = address_start + num_words
      /\ i + TailWords <= num_words
  BY <1>1, <1>2, Sizes
<1>4. ProgramFlashWord(address_start + i, Merge(0, i, TailWords, Filler))
  BY <1>3 DEF ProgramTail
<1> QED
  BY <1>3, <1>4, FilledPrograms

LEMMA ProgramsSome ==
  ASSUME Invariant, ProgramNow
  PROVE  \E m \in 0 .. NumWords : Memory!ProgramTo(m)
PROOF
<1> USE Sizes, DriverAssumption DEF DriverAssumption
<1>1. /\ address_start \in Nat /\ num_words \in Nat /\ i \in Nat
      /\ address_start + num_words <= NumWords
  BY DEF Invariant, TypeOK, Calls, Writing, ProgramNow
<1>2. CASE pc = "head" /\ ProgramHead
  <2>1. address_start + HeadWords \in 0 .. NumWords
    BY <1>1, HeadReaches DEF Invariant
  <2> QED
    BY <1>2, <2>1, HeadPrograms
<1>3. CASE pc = "body" /\ ProgramBody
  <2>1. address_start + i + FLASHWORD \in 0 .. NumWords
    BY <1>1, <1>3 DEF ProgramBody
  <2> QED
    BY <1>3, <2>1, BodyPrograms
<1>4. CASE pc = "tail" /\ ProgramTail
  <2>1. address_start + num_words \in 0 .. NumWords
    BY <1>1
  <2> QED
    BY <1>4, <2>1, TailPrograms
<1> QED
  BY <1>2, <1>3, <1>4 DEF ProgramNow

LEMMA ProgramsNone ==
  ASSUME Invariant, UNCHANGED memory
  PROVE  Memory!ProgramTo(0)
PROOF
<1>1. \A w \in DOMAIN Todo : w \in Nat
  <2>1. CASE Writing
    <3>1. address_start \in Nat /\ num_words \in Nat /\ i \in Nat
      BY Sizes, DriverAssumption DEF Invariant, TypeOK, DriverAssumption
    <3> QED
      BY <2>1, <3>1, TodoIs DEF Owed
  <2>2. CASE ~Writing
    BY <2>2, TodoIs
  <2> QED
    BY <2>1, <2>2
<1>2. \A w \in Words : ~(w \in DOMAIN Todo /\ w < 0)
  BY <1>1
<1> QED
  BY <1>2 DEF Invariant, TypeOK, Memory!ProgramTo, Memory!Words, Words

\* The buffer has the same words for the addresses from m on.
SameFrom(m) ==
  \A w \in Owed : w >= m => buffer'[w - address_start'] = buffer[w - address_start]

\* A step of Write that programs: what is owed below m is owed no more.
LEMMA ImplementsProgram ==
  ASSUME Invariant, Writing, Writing', NEW m \in 0 .. NumWords, Memory!ProgramTo(m),
         UNCHANGED result,
         address_start' + i' = m, m >= address_start + i,
         address_start' + num_words' - 1 = address_start + num_words - 1,
         {num_words', address_start', i'} \subseteq Nat,
         SameFrom(m)
  PROVE  Memory!Program
PROOF
<1>1. /\ address_start \in Nat /\ num_words \in Nat /\ i \in Nat
      /\ num_words' \in Nat /\ address_start' \in Nat /\ i' \in Nat
  BY Sizes, DriverAssumption DEF Invariant, TypeOK, DriverAssumption
<1>2. Owed' = {v \in Owed : v >= m}
  <2>1. Owed' = m .. address_start + num_words - 1
    <3>1. Owed' = address_start' + i' .. address_start' + num_words' - 1
      BY DEF Owed
    <3> QED
      BY <3>1
  <2>2. m \in Nat /\ Owed = address_start + i .. address_start + num_words - 1
    BY Sizes DEF Owed
  <2> QED
    BY <1>1, <2>1, <2>2
<1>3. Todo = [w \in Owed |-> buffer[w - address_start]]
  BY TodoIs
<1>4. Todo' = [w \in Owed' |-> buffer'[w - address_start']]
  BY DEF Todo, Writing, Owed
<1>5. Todo' = [w \in {v \in DOMAIN Todo : v >= m} |-> Todo[w]]
  BY <1>2, <1>3, <1>4 DEF SameFrom
<1>6. result = "none" /\ pc \notin {"erase", "erasing"} /\ pc' \notin {"erase", "erasing"}
  BY DEF Invariant, Calls, Writing
<1> QED
  BY <1>5, <1>6 DEF Memory!Program, Memory!Idle

LEMMA ImplementsHead ==
  ASSUME Invariant, Head
  PROVE  Memory!Program
PROOF
<1> DEFINE m == address_start + HeadWords
<1>1. /\ pc = "head" /\ pc' = "body" /\ i = 0 /\ i' = 0 /\ ProgramHead /\ UNCHANGED result
      /\ num_words' = num_words - HeadWords /\ address_start' = m
      /\ buffer' = [j \in 0 .. num_words - HeadWords - 1 |-> buffer[j + HeadWords]]
  BY DEF Head, Invariant, Progress
<1>2. /\ address_start \in Nat /\ num_words \in Nat /\ address_start + num_words <= NumWords
      /\ HeadWords \in 0 .. num_words
  BY <1>1, HeadReaches, Sizes, DriverAssumption
     DEF Invariant, TypeOK, Calls, Writing, DriverAssumption
<1>3. m \in 0 .. NumWords /\ m >= address_start + i /\ address_start' + i' = m
      /\ address_start' + num_words' - 1 = address_start + num_words - 1
      /\ {num_words', address_start', i'} \subseteq Nat
  BY <1>1, <1>2, Sizes
<1>4. ASSUME NEW w \in Owed, w >= m
      PROVE  buffer'[w - address_start'] = buffer[w - address_start]
  <2>1. w \in m .. address_start + num_words - 1
    BY <1>1, <1>2, <1>4 DEF Owed
  <2>2. w - m \in 0 .. num_words - HeadWords - 1 /\ (w - m) + HeadWords = w - address_start
    BY <1>2, <2>1
  <2> QED
    BY <1>1, <2>2
<1>5. Memory!ProgramTo(m)
  BY <1>1, HeadPrograms
<1> HIDE DEF m
<1> QED
  BY <1>1, <1>3, <1>4, <1>5, ImplementsProgram DEF Writing, SameFrom

LEMMA ImplementsBodyAndTail ==
  ASSUME Invariant, Body \/ Tail
  PROVE  Memory!Program
PROOF
<1>1. /\ Writing /\ Writing'
      /\ UNCHANGED <<address_start, num_words, buffer, result>>
  BY DEF Body, Tail, Writing
<1>2. /\ address_start \in Nat /\ num_words \in Nat /\ i \in Nat /\ i <= num_words
      /\ address_start + num_words <= NumWords
  BY <1>1, Sizes, DriverAssumption DEF Invariant, TypeOK, Calls, DriverAssumption
<1>3. PICK m \in 0 .. NumWords :
        m >= address_start + i /\ address_start' + i' = m /\ Memory!ProgramTo(m)
  <2>1. CASE Body
    <3>1. Memory!ProgramTo(address_start + i + FLASHWORD)
      BY <2>1, BodyPrograms DEF Body
    <3>2. i' = i + FLASHWORD /\ i + FLASHWORD <= num_words
      BY <2>1 DEF Body, ProgramBody
    <3>3. address_start + i + FLASHWORD \in 0 .. NumWords
          /\ address_start + i + FLASHWORD >= address_start + i
          /\ address_start' + i' = address_start + i + FLASHWORD
      BY <1>1, <1>2, <3>2, Sizes
    <3> QED
      BY <3>1, <3>3
  <2>2. CASE Tail
    <3>1. Memory!ProgramTo(address_start + num_words) /\ i' = num_words
      BY <2>2, TailPrograms DEF Tail
    <3>2. address_start + num_words \in 0 .. NumWords
          /\ address_start + num_words >= address_start + i
          /\ address_start' + i' = address_start + num_words
      BY <1>1, <1>2, <3>1, Sizes
    <3> QED
      BY <3>1, <3>2
  <2> QED
    BY <2>1, <2>2
<1>4. {num_words', address_start', i'} \subseteq Nat
  BY <1>1, <1>2, Sizes DEF Body, Tail
<1> QED
  BY <1>1, <1>2, <1>3, <1>4, ImplementsProgram DEF SameFrom

\* A bank and the number of a sector in it name one sector of the flash.
LEMMA SectorOfBank ==
  ASSUME NEW w \in Words
  PROVE  /\ w \in Nat
         /\ w \div SECTOR_WORDS \in Nat
         /\ (w \div SECTOR_WORDS) % SectorsPerBank \in Nat
         /\ Bank(w) = 1 => w \div SECTOR_WORDS = (w \div SECTOR_WORDS) % SectorsPerBank
         /\ Bank(w) = 2 => w \div SECTOR_WORDS
                           = SectorsPerBank + ((w \div SECTOR_WORDS) % SectorsPerBank)
         /\ Bank(w) = 1 <=> w \div SECTOR_WORDS < SectorsPerBank
PROOF
<1> USE DriverAssumption DEF DriverAssumption
<1> DEFINE q == w \div SECTOR_WORDS
           r == w % SECTOR_WORDS
<1>1. w \in Nat /\ w < 2 * BankWords
  BY Sizes DEF Words, NumWords
<1>2. q \in Nat /\ r \in 0 .. SECTOR_WORDS - 1 /\ w = SECTOR_WORDS * q + r
  BY <1>1, Division
<1> HIDE DEF q, r
<1>3. BankWords = SECTOR_WORDS * SectorsPerBank
  BY DEF BankWords
<1>4. ASSUME NEW b \in Nat
      PROVE  w < SECTOR_WORDS * b <=> q < b
  <2>1. CASE q < b
    <3>1. PICK d \in Nat : b = q + 1 + d
      <4>1. b - q - 1 \in Nat /\ b = q + 1 + (b - q - 1)
        BY <1>2, <2>1
      <4> QED
        BY <4>1
    <3>2. SECTOR_WORDS * b = SECTOR_WORDS * q + SECTOR_WORDS + SECTOR_WORDS * d
      BY <1>2, <3>1
    <3>3. SECTOR_WORDS * d \in Nat /\ SECTOR_WORDS * q \in Nat
      BY <1>2, <3>1
    <3> QED
      BY <1>2, <2>1, <3>2, <3>3
  <2>2. CASE ~(q < b)
    <3>1. PICK d \in Nat : q = b + d
      <4>1. q - b \in Nat /\ q = b + (q - b)
        BY <1>2, <2>2
      <4> QED
        BY <4>1
    <3>2. SECTOR_WORDS * q = SECTOR_WORDS * b + SECTOR_WORDS * d
      BY <3>1
    <3>3. SECTOR_WORDS * d \in Nat /\ SECTOR_WORDS * b \in Nat
      BY <3>1
    <3> QED
      BY <1>2, <2>2, <3>2, <3>3
  <2> QED
    BY <2>1, <2>2
<1>5. w < BankWords <=> q < SectorsPerBank
  BY <1>3, <1>4
<1>6. q < 2 * SectorsPerBank
  <2>1. 2 * BankWords = SECTOR_WORDS * (2 * SectorsPerBank)
    BY <1>3
  <2> QED
    BY <1>1, <1>4, <2>1
<1>7. q < SectorsPerBank => q % SectorsPerBank = q
  BY <1>2
<1>8. ~(q < SectorsPerBank) => q = SectorsPerBank + (q % SectorsPerBank)
  <2> SUFFICES ASSUME ~(q < SectorsPerBank) PROVE q = SectorsPerBank + (q % SectorsPerBank)
    OBVIOUS
  <2> DEFINE d == q - SectorsPerBank
  <2>1. d \in 0 .. SectorsPerBank - 1 /\ q = SectorsPerBank * 1 + d
    BY <1>2, <1>6
  <2> HIDE DEF d
  <2>2. (SectorsPerBank * 1 + d) % SectorsPerBank = d
    BY <2>1, QuotientIs
  <2> QED
    BY <2>1, <2>2
<1>9. q % SectorsPerBank \in Nat
  BY <1>2, Division
<1> QED
  BY <1>1, <1>2, <1>5, <1>7, <1>8, <1>9 DEF Bank, q

LEMMA ImplementsErase ==
  ASSUME Invariant, EarseDone
  PROVE  Memory!Erase
PROOF
<1>1. /\ pc = "erasing" /\ pc' = "idle" /\ result' = "done" /\ Leave("done")
      /\ EraseSector(Bank(address_start), GetSecotr(address_start))
  BY DEF EarseDone, Leave
<1>2. address_start \in Words /\ GetSecotr(address_start) # HAL_ERROR
  BY <1>1, Sizes DEF Invariant, TypeOK, Calls, GetSecotr, Words
<1>3. GetSecotr(address_start) = (address_start \div SECTOR_WORDS) % SectorsPerBank
  BY <1>2 DEF GetSecotr, HAL_ERROR
<1>4. ASSUME NEW w \in Words
      PROVE  (Bank(w) = Bank(address_start)
              /\ (w \div SECTOR_WORDS) % SectorsPerBank = GetSecotr(address_start))
             <=> w \div SECTOR_WORDS = address_start \div SECTOR_WORDS
  <2>1. Bank(w) \in {1, 2} /\ Bank(address_start) \in {1, 2}
    BY DEF Bank
  <2>2. CASE Bank(w) = Bank(address_start)
    BY <1>2, <1>3, <2>1, <2>2, SectorOfBank, DriverAssumption DEF DriverAssumption
  <2>3. CASE Bank(w) # Bank(address_start)
    BY <1>2, <2>1, <2>3, SectorOfBank
  <2> QED
    BY <2>2, <2>3
<1>5. memory' = [w \in Memory!Words |->
         IF Memory!SectorOf(w) = Memory!SectorOf(address_start) THEN Bits ELSE memory[w]]
  BY <1>1, <1>4 DEF EraseSector, Memory!Words, Memory!SectorOf, Words
<1>6. Todo = << >> /\ Todo' = << >>
  BY <1>1 DEF Todo
<1>7. (address_start \div SECTOR_WORDS) % SectorsPerBank # 1
  BY <1>2, <1>3 DEF HAL_ERROR
<1> QED
  BY <1>1, <1>2, <1>5, <1>6, <1>7 DEF Memory!Erase

\* The end of a write, with nothing owed.
LEMMA ImplementsFinish ==
  ASSUME Invariant, Return
  PROVE  Memory!Finish
PROOF
<1>1. pc = "return" /\ pc' = "idle" /\ result' = "done" /\ UNCHANGED memory
  BY DEF Return, Leave
<1>2. result = "none" /\ Writing /\ i = num_words
  BY <1>1 DEF Invariant, Calls, Progress, Writing
<1>3. Owed = {}
  BY <1>2, Sizes, DriverAssumption DEF Owed, Invariant, TypeOK, DriverAssumption
<1>4. Todo = << >> /\ DOMAIN Todo = {}
  BY <1>2, <1>3, TodoIs
<1>5. Todo' = << >>
  BY <1>1 DEF Todo
<1> QED
  BY <1>1, <1>2, <1>4, <1>5 DEF Memory!Finish, Memory!Idle

\* An error or a power failure, whatever was programmed.
LEMMA ImplementsFail ==
  ASSUME Invariant, Fault
  PROVE  Memory!Fail
PROOF
<1>1. Leave("error")
  BY DEF Fault, ProgramError, ProgramRefused, EarseError, PowerFailure
<1>2. Todo' = << >> /\ pc' = "idle" /\ result' = "error"
  BY <1>1 DEF Leave, Todo
<1>3. \E m \in 0 .. NumWords : Memory!ProgramTo(m)
  <2>1. CASE ProgramError
    BY <2>1, ProgramsSome DEF ProgramError
  <2>2. CASE ProgramRefused \/ EarseError \/ PowerFailure
    <3>1. UNCHANGED memory
      BY <2>2 DEF ProgramRefused, EarseError, PowerFailure
    <3> QED
      BY <3>1, ProgramsNone, Sizes
  <2> QED
    BY <2>1, <2>2 DEF Fault
<1> QED
  BY <1>2, <1>3 DEF Memory!Fail

LEMMA ImplementsBeginWrite ==
  ASSUME Invariant, NEW a \in Words, NEW n \in 0 .. MaxWords, Write(a, n)
  PROVE  Memory!BeginWrite
PROOF
<1> USE Sizes, DriverAssumption DEF DriverAssumption
<1>1. a \in Nat /\ n \in Nat /\ a + n <= NumWords
  BY DEF Write, Words
<1>2. /\ pc = "idle" /\ pc' = "head" /\ result' = "none"
      /\ address_start' = a /\ num_words' = n /\ memory' = memory /\ i' = i
      /\ buffer' \in [0 .. n - 1 -> SUBSET Bits]
  BY DEF Write
<1>3. i' = 0
  BY <1>2 DEF Invariant, TypeOK, Calls, Writing
<1>4. Todo' = [w \in a .. a + n - 1 |-> buffer'[w - a]]
  <2>1. Todo' = [w \in a + 0 .. a + n - 1 |-> buffer'[w - a]]
    BY <1>2, <1>3 DEF Todo
  <2>2. a + 0 = a
    BY <1>1
  <2> QED
    BY <2>1, <2>2
<1>5. ASSUME NEW w \in a .. a + n - 1
      PROVE  buffer'[w - a] \in SUBSET Bits
  <2>1. w - a \in 0 .. n - 1
    BY <1>1
  <2> QED
    BY <1>2, <2>1
<1>6. Todo' \in [a .. a + n - 1 -> SUBSET Bits]
  BY <1>4, <1>5
<1>7. a \in Memory!Words /\ n \in 0 .. NumWords
  BY <1>1 DEF Memory!Words, Words
<1>8. result # "none"
  BY <1>2 DEF Invariant, Calls
<1> QED
  BY <1>1, <1>2, <1>6, <1>7, <1>8 DEF Memory!BeginWrite, Memory!Idle

\* The steps the memory does not see.
LEMMA ImplementsStutter ==
  ASSUME Invariant, SkipHead \/ BodyDone \/ SkipTail \/ EarseUnlock \/ UNCHANGED vars
  PROVE  UNCHANGED <<memory, Todo, IF pc \in {"erase", "erasing"} THEN address_start ELSE -1, result>>
PROOF
<1>1. UNCHANGED <<memory, address_start, num_words, buffer, i, result>>
  BY DEF SkipHead, BodyDone, SkipTail, EarseUnlock, vars
<1>2. pc' \in {"erase", "erasing"} <=> pc \in {"erase", "erasing"}
  BY DEF SkipHead, BodyDone, SkipTail, EarseUnlock, vars
<1>3. pc' \in {"head", "body", "tail", "return"} <=> pc \in {"head", "body", "tail", "return"}
  BY DEF SkipHead, BodyDone, SkipTail, EarseUnlock, vars
<1> QED
  BY <1>1, <1>2, <1>3 DEF Todo

LEMMA ImplementsErases ==
  ASSUME Invariant
  PROVE  /\ \A a \in 0 .. NumWords : Earse(a) => Memory!BeginErase
         /\ EarseRefused => Memory!Refuse
PROOF
<1>1. ASSUME NEW a \in 0 .. NumWords, Earse(a) PROVE Memory!BeginErase
  <2>1. /\ pc = "idle" /\ pc' = "erase" /\ address_start' = a /\ result' = "none"
        /\ UNCHANGED memory
    BY <1>1 DEF Earse
  <2>2. Todo = << >> /\ Todo' = << >>
    BY <2>1 DEF Todo
  <2>3. result # "none" /\ a \in Nat
    BY <2>1, Sizes DEF Invariant, Calls
  <2> QED
    BY <2>1, <2>2, <2>3 DEF Memory!BeginErase, Memory!Idle
<1>2. ASSUME EarseRefused PROVE Memory!Refuse
  <2>1. /\ pc = "erase" /\ pc' = "idle" /\ result' = "refused" /\ UNCHANGED memory
    BY <1>2 DEF EarseRefused, Leave
  <2>2. Todo = << >> /\ Todo' = << >>
    BY <2>1 DEF Todo
  <2>3. address_start \in Nat
    BY Sizes DEF Invariant, TypeOK
  <2>4. address_start \in Words => (address_start \div SECTOR_WORDS) % SectorsPerBank = 1
    BY <1>2, Sizes DEF EarseRefused, GetSecotr, HAL_ERROR, Words
  <2> QED
    BY <2>1, <2>2, <2>3, <2>4 DEF Memory!Refuse
<1> QED
  BY <1>1, <1>2

(* For every geometry of the flash the driver implements the memory: words are     *)
(* programmed where they belong, in order, and nothing else is touched, also when   *)
(* the write is not aligned, and an erase is of the sector of its address.          *)
THEOREM DriverImplementsMemory == Spec => MemorySpec
PROOF
<1> DEFINE target == IF pc \in {"erase", "erasing"} THEN address_start ELSE -1
<1>1. Init => Memory!Init
  BY DEF Init, Memory!Init, Memory!Words, Words, Todo
<1>2. Invariant /\ [Next]_vars => [Memory!Next]_<<memory, Todo, target, result>>
  <2> SUFFICES ASSUME Invariant, [Next]_vars
               PROVE  Memory!Next \/ UNCHANGED <<memory, Todo, target, result>>
    OBVIOUS
  <2>1. CASE WriteMisaligned
    <3>1. /\ pc = "idle" /\ result' = "misaligned" /\ result # "none"
          /\ UNCHANGED <<memory, pc, address_start, num_words, buffer, i>>
      BY <2>1 DEF WriteMisaligned, Invariant, Calls
    <3>2. UNCHANGED Todo
      BY <3>1 DEF Todo
    <3> QED
      BY <3>1, <3>2 DEF Memory!Misaligned, Memory!Idle, Memory!Next
  <2>2. CASE \E a \in Words, n \in 0 .. MaxWords : Write(a, n)
    BY <2>2, ImplementsBeginWrite DEF Memory!Next
  <2>3. CASE \E a \in 0 .. NumWords : Earse(a)
    BY <2>3, ImplementsErases DEF Memory!Next
  <2>4. CASE SkipHead \/ BodyDone \/ SkipTail \/ EarseUnlock \/ UNCHANGED vars
    BY <2>4, ImplementsStutter
  <2>5. CASE Head \/ Body \/ Tail
    BY <2>5, ImplementsHead, ImplementsBodyAndTail DEF Memory!Next
  <2>6. CASE Return
    BY <2>6, ImplementsFinish DEF Memory!Next
  <2>7. CASE EarseRefused \/ EarseDone
    BY <2>7, ImplementsErases, ImplementsErase DEF Memory!Next
  <2>8. CASE Fault
    BY <2>8, ImplementsFail DEF Memory!Next
  <2> QED
    BY <2>1, <2>2, <2>3, <2>4, <2>5, <2>6, <2>7, <2>8 DEF Next, Step
<1> QED
  BY <1>1, <1>2, AlwaysInvariant, PTL DEF Spec, MemorySpec, Memory!Spec
==============================================================================
