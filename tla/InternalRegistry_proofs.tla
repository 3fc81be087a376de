----------------------- MODULE InternalRegistry_proofs -----------------------
(***************************************************************************)
(* Proofs about the internal registry, for every set of tasks, keys and    *)
(* values, any sizes, any number of calls and any power failures.          *)
(***************************************************************************)
EXTENDS InternalRegistry, SequenceTheorems, TLAPS

USE DEF Running

------------------------------------------------------------------------------
(* The inductive invariant. *)

\* The client is between Lock and Unlock.
Working(c) == pc[c] \notin {"off", "idle", "lock"}

\* The mutex has the owner the code relies on.  It may have one that does not know
\* (Write with another size), but never two.
Exclusive ==
  /\ \A c \in Clients : Working(c) => m_mutex.owner = c
  /\ task \in {"write", "unlock"} => m_mutex.owner = Registry

\* A call under way has its parameters.
Calls ==
  \A c \in Clients : pc[c] \notin {"off", "idle"} =>
    /\ call[c].key \in Keys
    /\ call[c].op \in Operations
    /\ call[c].op \in {"Write", "Read"} => call[c].value \in Values
    /\ pc[c] \in Operations => call[c].op = pc[c]
    /\ pc[c] \in {"copy", "append"} => call[c].op = "Write"

UniqueKeys(objects) ==
  \A i, j \in 1..Len(objects) : objects[i].key = objects[j].key => i = j

Whole(objects) == \A i \in 1..Len(objects) : objects[i].value # Partial

\* A client copies the value of the one object that may be partial.
CopyPlace(c) ==
  LET i == object[c].index IN
  /\ i \in 1..Len(m_flash_buffer)
  /\ m_flash_buffer[i].key = call[c].key
  /\ \A j \in 1..Len(m_flash_buffer) : j # i => m_flash_buffer[j].value # Partial

\* A client that deletes has a hole in the buffer: the object that goes, or one
\* that was moved down already.  Without it the buffer is in order.
HolePlace(c) ==
  LET h == object[c].index
      rest == 1..Len(m_flash_buffer) \ {h}
  IN  /\ h \in 1..Len(m_flash_buffer)
      /\ \A i, j \in rest : m_flash_buffer[i].key = m_flash_buffer[j].key => i = j
      /\ \A i \in rest : m_flash_buffer[i].key # call[c].key
      /\ \/ m_flash_buffer[h].key = call[c].key
         \/ h > 1 /\ m_flash_buffer[h] = m_flash_buffer[h - 1]

Buffer ==
  /\ (\A c \in Clients : pc[c] # "shift") => UniqueKeys(m_flash_buffer)
  /\ (\A c \in Clients : pc[c] \notin {"copy", "append"}) => Whole(m_flash_buffer)
  /\ \A c \in Clients : pc[c] \in {"copy", "append"} => CopyPlace(c)
  /\ \A c \in Clients : pc[c] = "shift" => HolePlace(c)

\* What is on the flash, and on its way there, is in order.
Snapshots ==
  \A p \in {stored, submitted} \ {NoPayload, Damaged} : UniqueKeys(p.objects) /\ Whole(p.objects)

Places ==
  /\ ~Running => \A c \in Clients : pc[c] = "off"
  /\ submitted # NoPayload <=> task \in {"unlock", "flush"}
  /\ task \in {"off", "undefined", "suspended", "unlock", "flush"} => ~saved

\* With the flag down and no change under way, the flash has the buffer or gets it.
Clean ==
  /\ Running
  /\ ~m_need_update_flash
  /\ \A c \in Clients : pc[c] \notin {"copy", "append", "dirty", "shift"}
  => /\ task \in {"unlock", "flush"} => submitted = Image
     /\ saved => stored = Image

Invariant ==
  /\ Exclusive
  /\ Calls
  /\ Buffer
  /\ Snapshots
  /\ Places
  /\ NoHalfRead
  /\ Clean

IInv == TypeOK /\ Invariant

------------------------------------------------------------------------------
(* FindObject. *)

\* Where keys are unique, FindObject finds the object with the key.
LEMMA FindUnique ==
  ASSUME NEW objects \in Seq(Objects), NEW k, UniqueKeys(objects)
  PROVE  /\ FindObject(objects, k) # 0 =>
              FindObject(objects, k) \in 1..Len(objects) /\ objects[FindObject(objects, k)].key = k
         /\ FindObject(objects, k) = 0 => \A i \in 1..Len(objects) : objects[i].key # k
         /\ \A i \in 1..Len(objects) : objects[i].key = k => FindObject(objects, k) = i
<1>0. Len(objects) \in Nat
  OBVIOUS
<1>1. ASSUME NEW i \in 1..Len(objects), objects[i].key = k
      PROVE  FindObject(objects, k) = i
  <2>1. \A j \in 1..i - 1 : objects[j].key # k
    BY <1>0, <1>1 DEF UniqueKeys
  <2>2. \A n \in 1..Len(objects) :
          objects[n].key = k /\ (\A j \in 1..n - 1 : objects[j].key # k) => n = i
    BY <1>1 DEF UniqueKeys
  <2>3. (CHOOSE n \in 1..Len(objects) :
           objects[n].key = k /\ \A j \in 1..n - 1 : objects[j].key # k) = i
    BY <1>1, <2>1, <2>2
  <2> QED
    BY <1>1, <2>3 DEF FindObject
<1>2. (\A i \in 1..Len(objects) : objects[i].key # k) => FindObject(objects, k) = 0
  BY DEF FindObject
<1> QED
  BY <1>0, <1>1, <1>2

\* A client that is between Lock and Unlock is alone there, and the task is not.
LEMMA Alone ==
  ASSUME TypeOK, Exclusive, NEW c \in Clients, Working(c)
  PROVE  /\ \A d \in Clients \ {c} : ~Working(d)
         /\ task \notin {"write", "unlock"}
BY RegistryAssumption DEF TypeOK, Exclusive

\* So it finds a buffer in order.
LEMMA InOrder ==
  ASSUME TypeOK, Exclusive, Buffer, NEW c \in Clients, pc[c] \in Operations
  PROVE  UniqueKeys(m_flash_buffer) /\ Whole(m_flash_buffer)
<1>1. Working(c)
  BY DEF Working, Operations
<1>2. \A d \in Clients : pc[d] \notin {"copy", "append", "shift"}
  BY <1>1, Alone DEF Working, Operations
<1> QED
  BY <1>2 DEF Buffer

------------------------------------------------------------------------------
(* Types. *)

\* Sequence facts at the sets of this module.
LEMMA ExceptObject ==
  ASSUME NEW s \in Seq(Objects), NEW i \in 1..Len(s), NEW v \in Values \cup {Partial}
  PROVE  LET t == [s EXCEPT ![i].value = v] IN
         /\ t \in Seq(Objects)
         /\ Len(t) = Len(s)
         /\ \A j \in 1..Len(s) : j # i => t[j] = s[j]
         /\ t[i] = [s[i] EXCEPT !.value = v]
         /\ t[i].value = v
         /\ \A j \in 1..Len(s) : t[j].key = s[j].key
<1> DEFINE e == [s[i] EXCEPT !.value = v]
<1>1. s[i] \in Objects /\ \A j \in 1..Len(s) : s[j] \in Objects
  BY ElementOfSeq
<1>2. e \in Objects /\ e.value = v /\ e.key = s[i].key
  BY <1>1 DEF Objects
<1>3. [s EXCEPT ![i].value = v] = [s EXCEPT ![i] = e]
  OBVIOUS
<1> HIDE DEF e
<1>4. /\ [s EXCEPT ![i] = e] \in Seq(Objects)
      /\ Len([s EXCEPT ![i] = e]) = Len(s)
      /\ \A j \in 1 .. Len(s) : [s EXCEPT ![i] = e][j] = IF j = i THEN e ELSE s[j]
  BY <1>2, ExceptSeq
<1>5. e = [s[i] EXCEPT !.value = v]
  BY DEF e
<1> QED
  BY <1>2, <1>3, <1>4, <1>5

LEMMA CutLast ==
  ASSUME NEW s \in Seq(Objects), Len(s) >= 1
  PROVE  /\ Len(SubSeq(s, 1, Len(s) - 1)) = Len(s) - 1
         /\ \A i \in 1..Len(s) - 1 : SubSeq(s, 1, Len(s) - 1)[i] = s[i]
<1> DEFINE n == Len(s) - 1
           t == SubSeq(s, 1, n)
<1>1. n \in Int /\ n >= 0 /\ \A i \in 1..n : s[i] \in Objects
  BY ElementOfSeq
<1> HIDE DEF n
<1>2. /\ Len(t) = IF 1 <= n THEN n - 1 + 1 ELSE 0
      /\ \A i \in 1..n - 1 + 1 : t[i] = s[1 + i - 1]
  BY <1>1, SubSeqProperties
<1> HIDE DEF t
<1>3. Len(t) = n
  BY <1>1, <1>2
<1>4. \A i \in 1..n : i \in 1..n - 1 + 1 /\ 1 + i - 1 = i
  BY <1>1
<1>5. \A i \in 1..n : t[i] = s[i]
  BY <1>2, <1>4
<1> QED
  BY <1>3, <1>5 DEF n, t

\* Where a client is, its object is in the buffer.
LEMMA ObjectInBuffer ==
  ASSUME TypeOK, Buffer, NEW c \in Clients, pc[c] \in {"copy", "append", "shift"}
  PROVE  object[c].index \in 1..Len(m_flash_buffer) /\ object[c].index \in Nat
         /\ Len(m_flash_buffer) \in Nat /\ m_flash_buffer \in Seq(Objects)
BY DEF TypeOK, Buffer, CopyPlace, HolePlace

BufferType == m_flash_buffer \in Seq(Objects) /\ m_flash_buffer_size \in Int /\ m_need_update_flash \in BOOLEAN

LEMMA NumberTypes ==
  ASSUME TypeOK
  PROVE  /\ NameSize \in [Keys -> Nat] /\ ValueSize \in [Values -> Nat]
         /\ m_flash_buffer_size \in Int
         /\ \A c \in Clients : object[c].size \in Int /\ object[c].index \in Nat
         /\ \A i \in 1..Len(m_flash_buffer) : m_flash_buffer[i] \in Objects
BY RegistryAssumption, ElementOfSeq DEF TypeOK

LEMMA BufferTypeNext ==
  ASSUME TypeOK, Invariant, Next
  PROVE  BufferType'
<1>0. BufferType
  BY DEF BufferType, TypeOK
<1>1. ASSUME NEW c \in Clients, WriteExisting(c) PROVE BufferType'
  <2>1. Found(c) \in 1..Len(m_flash_buffer)
    BY <1>1, InOrder, FindUnique DEF Invariant, WriteExisting, Found, Operations, TypeOK
  <2> QED
    BY <1>1, <1>0, <2>1, ExceptObject DEF WriteExisting, BufferType
<1>2. ASSUME NEW c \in Clients, WriteNew(c) PROVE BufferType'
  <2>1. call[c].key \in Keys /\ call[c].value \in Values
    BY <1>2 DEF WriteNew, Invariant, Calls, Operations
  <2>2. ValueSize[call[c].value] \in Nat /\ NameSize[call[c].key] \in Nat
    BY <2>1, NumberTypes
  <2>3. [key |-> call[c].key, size |-> ValueSize[call[c].value], value |-> Partial] \in Objects
    BY <2>1, <2>2 DEF Objects
  <2> QED
    BY <1>2, <1>0, <2>2, <2>3, AppendProperties DEF WriteNew, BufferType
<1>3. ASSUME NEW c \in Clients, CopyValue(c) PROVE BufferType'
  <2>1. object[c].index \in 1..Len(m_flash_buffer) /\ call[c].value \in Values
    BY <1>3, ObjectInBuffer DEF CopyValue, Invariant, Calls
  <2>2. m_flash_buffer' \in Seq(Objects)
    BY <1>3, <1>0, <2>1, ExceptObject DEF CopyValue, BufferType
  <2>3. m_flash_buffer_size' \in Int
    BY <1>3, <1>0, NumberTypes DEF CopyValue, BufferType
  <2> QED
    BY <1>3, <1>0, <2>2, <2>3 DEF CopyValue, BufferType
<1>4. ASSUME NEW c \in Clients, DeleteShift(c) PROVE BufferType'
  <2>1. object[c].index \in 1..Len(m_flash_buffer) /\ object[c].index + 1 \in 1..Len(m_flash_buffer)
    BY <1>4, ObjectInBuffer DEF DeleteShift, Invariant
  <2> QED
    BY <1>4, <1>0, <2>1, ElementOfSeq, ExceptSeq DEF DeleteShift, BufferType
<1>5. ASSUME NEW c \in Clients, DeleteEnd(c) PROVE BufferType'
  <2>1. Len(m_flash_buffer) - 1 \in 0..Len(m_flash_buffer)
    BY <1>5, ObjectInBuffer DEF DeleteEnd, Invariant
  <2>2. SubSeq(m_flash_buffer, 1, Len(m_flash_buffer) - 1) \in Seq(Objects)
    BY <1>0, <2>1, ElementOfSeq, SubSeqProperties DEF BufferType
  <2>3. ObjectSize(call[c].key, object[c].size) \in Int
    BY <1>5, NumberTypes DEF DeleteEnd, Invariant, Calls, ObjectSize
  <2> QED
    BY <1>5, <1>0, <2>2, <2>3 DEF DeleteEnd, BufferType
<1>6. PowerFailure => BufferType'
  <2> SUFFICES ASSUME PowerFailure PROVE BufferType'
    OBVIOUS
  <2>1. <<>> \in Seq(Objects)
    BY EmptySeq
  <2>2. m_flash_buffer' = <<>> /\ m_flash_buffer_size' = 0 /\ m_need_update_flash' = FALSE
    BY DEF PowerFailure, RamLost
  <2>3. m_flash_buffer_size' \in Int
    BY <2>2
  <2>4. m_need_update_flash' \in BOOLEAN
    BY <2>2, Zenon
  <2> QED
    BY <2>1, <2>2, <2>3, <2>4, Zenon DEF BufferType
<1>7. Boot => BufferType'
  <2>1. ASSUME Boot, stored = Damaged PROVE BufferType'
    BY <1>0, <2>1 DEF Boot, LoadDamaged, bufferVars, BufferType
  <2>2. ASSUME Boot, stored # Damaged PROVE BufferType'
    <3>1. CASE stored = NoPayload
      <4>1. m_flash_buffer' = <<>> /\ m_flash_buffer_size' = 0 /\ m_need_update_flash' = m_need_update_flash
        BY <2>2, <3>1 DEF Boot, Load, EmptyPayload
      <4> QED
        BY <1>0, <4>1, EmptySeq DEF BufferType
    <3>2. CASE stored # NoPayload
      <4>1. /\ m_flash_buffer' = stored.objects
            /\ m_flash_buffer_size' = stored.size
            /\ m_need_update_flash' = m_need_update_flash
        BY <2>2, <3>2 DEF Boot, Load
      <4>2. stored \in Payloads
        BY <2>2, <3>2 DEF TypeOK
      <4>3. stored.objects \in Seq(Objects) /\ stored.size \in Int
        BY <4>2 DEF Payloads
      <4> QED
        BY <1>0, <4>1, <4>3 DEF BufferType
    <3> QED
      BY <3>1, <3>2
  <2> QED
    BY <2>1, <2>2
<1>9. ASSUME NEW c \in Clients, ClientStep(c) PROVE BufferType'
  BY <1>0, <1>1, <1>2, <1>3, <1>4, <1>5, <1>9
  DEF ClientStep, Lock, Unlock, WriteOtherSize, WriteNoSpace, NeedUpdateFlash, Read, IsExist, DeleteFind,
      bufferVars, BufferType
<1>10. ASSUME NEW c \in Clients, NEW op, NEW k, NEW v, Call(c, op, k, v) PROVE BufferType'
  BY <1>0, <1>10 DEF Call, bufferVars, BufferType
<1>11. TimerExpired \/ StartTask \/ TaskStep \/ EraseInWrite \/ WriteToFlashFails => BufferType'
  BY <1>0 DEF TimerExpired, StartTask, TaskStep, EraseInWrite, WriteToFlashFails, Pull, CheckFlag,
     LockForFlush, WriteSnapshot, UnlockAfterWrite, WriteToFlash, bufferVars, BufferType
<1> QED
  BY <1>6, <1>7, <1>9, <1>10, <1>11 DEF Next

ClientType ==
  /\ pc \in [Clients -> Operations \cup
               {"off", "idle", "lock", "copy", "append", "dirty", "shift", "unlock"}]
  /\ call \in [Clients -> [op : Operations, key : Keys, value : Values \cup {Absent}] \cup {NoCall}]
  /\ object \in [Clients -> [index : Nat, size : Nat]]
  /\ result \in [Clients -> [ok : BOOLEAN, value : Values \cup {Absent, Partial}]]
  /\ calls \in 0..MaxCalls

LEMMA ClientTypeNext ==
  ASSUME TypeOK, Invariant, Next
  PROVE  ClientType'
<1>0. ClientType
  BY DEF ClientType, TypeOK
<1>a. NoObject \in [index : Nat, size : Nat]
  BY DEF NoObject
<1>b. NoResult \in [ok : BOOLEAN, value : Values \cup {Absent, Partial}]
  BY DEF NoResult
<1>c. ASSUME NEW c \in Clients, Return(c) PROVE ClientType'
  BY <1>0, <1>a, <1>b, <1>c DEF Return, ClientType
<1>1. ASSUME NEW c \in Clients, WriteExisting(c) PROVE ClientType'
  <2>1. Found(c) \in 1..Len(m_flash_buffer)
    BY <1>1, InOrder, FindUnique DEF Invariant, WriteExisting, Found, Operations, TypeOK
  <2>2. m_flash_buffer[Found(c)].size \in Nat
    BY <2>1, NumberTypes DEF Objects
  <2>3. [index |-> Found(c), size |-> m_flash_buffer[Found(c)].size] \in [index : Nat, size : Nat]
    BY <2>1, <2>2
  <2> QED
    BY <1>1, <1>0, <2>3 DEF WriteExisting, ClientType
<1>2. ASSUME NEW c \in Clients, WriteNew(c) PROVE ClientType'
  <2>1. call[c].value \in Values
    BY <1>2 DEF WriteNew, Invariant, Calls, Operations
  <2>2. Len(m_flash_buffer) + 1 \in Nat
    BY DEF TypeOK
  <2>3. ValueSize[call[c].value] \in Nat
    BY <2>1, NumberTypes
  <2>4. [index |-> Len(m_flash_buffer) + 1, size |-> ValueSize[call[c].value]] \in [index : Nat, size : Nat]
    BY <2>2, <2>3
  <2> QED
    BY <1>2, <1>0, <2>4 DEF WriteNew, ClientType
<1>3. ASSUME NEW c \in Clients, DeleteFind(c) PROVE ClientType'
  <2>1. Found(c) # 0 => Found(c) \in 1..Len(m_flash_buffer)
    BY <1>3, InOrder, FindUnique DEF Invariant, DeleteFind, Found, Operations, TypeOK
  <2>2. Found(c) # 0 =>
          [index |-> Found(c), size |-> m_flash_buffer[Found(c)].size] \in [index : Nat, size : Nat]
    BY <2>1, NumberTypes DEF Objects
  <2> QED
    BY <1>3, <1>0, <2>2 DEF DeleteFind, ClientType
<1>4. ASSUME NEW c \in Clients, Read(c) PROVE ClientType'
  <2> DEFINE i == Found(c)
             fits == i # 0 /\ m_flash_buffer[i].size = ValueSize[call[c].value]
  <2>1. i # 0 => i \in 1..Len(m_flash_buffer)
    BY <1>4, InOrder, FindUnique DEF Invariant, Read, Found, Operations, TypeOK
  <2>2. i # 0 => m_flash_buffer[i].value \in Values \cup {Partial}
    BY <2>1, NumberTypes DEF Objects
  <2>3. [ok |-> i # 0, value |-> IF fits THEN m_flash_buffer[i].value ELSE Absent]
          \in [ok : BOOLEAN, value : Values \cup {Absent, Partial}]
    BY <2>2
  <2> QED
    BY <1>4, <1>0, <2>3 DEF Read, ClientType
<1>5. ASSUME NEW c \in Clients, IsExist(c) PROVE ClientType'
  <2>1. [ok |-> Found(c) # 0, value |-> Absent]
          \in [ok : BOOLEAN, value : Values \cup {Absent, Partial}]
    OBVIOUS
  <2> QED
    BY <1>5, <1>0, <2>1 DEF IsExist, ClientType
<1>6. ASSUME NEW c \in Clients, DeleteShift(c) PROVE ClientType'
  <2>1. object' = [object EXCEPT ![c] = [object[c] EXCEPT !.index = @ + 1]]
    BY <1>6 DEF DeleteShift
  <2>2. [object[c] EXCEPT !.index = @ + 1] \in [index : Nat, size : Nat]
    BY <1>0 DEF ClientType
  <2> QED
    BY <1>6, <1>0, <2>1, <2>2 DEF DeleteShift, ClientType
<1>7. ASSUME NEW c \in Clients, Lock(c) PROVE ClientType'
  <2>1. call[c].op \in Operations
    BY <1>7 DEF Lock, Invariant, Calls
  <2> QED
    BY <1>7, <1>0, <2>1 DEF Lock, ClientType, clientVars, callVars
<1>8. ASSUME NEW c \in Clients, CopyValue(c) \/ NeedUpdateFlash(c) \/ DeleteEnd(c) PROVE ClientType'
  BY <1>8, <1>0 DEF CopyValue, NeedUpdateFlash, DeleteEnd, ClientType, clientVars, callVars
<1>9. ASSUME NEW c \in Clients, ClientStep(c) PROVE ClientType'
  BY <1>c, <1>1, <1>2, <1>3, <1>4, <1>5, <1>6, <1>7, <1>8, <1>9
  DEF ClientStep, Unlock, WriteOtherSize, WriteNoSpace
<1>10. ASSUME NEW c \in Clients, NEW op \in Operations, NEW k \in Keys, NEW v \in Values \cup {Absent},
              Call(c, op, k, v)
       PROVE  ClientType'
  BY <1>0, <1>10, RegistryAssumption DEF Call, ClientType
<1>11. PowerFailure => ClientType'
  BY <1>a, <1>b, RegistryAssumption DEF PowerFailure, RamLost, ClientType
<1>12. Boot => ClientType'
  BY <1>0 DEF Boot, Load, LoadDamaged, bufferVars, clientVars, callVars, EmptyPayload, ClientType, clientVars, callVars
<1>13. TimerExpired \/ StartTask \/ TaskStep \/ EraseInWrite \/ WriteToFlashFails => ClientType'
  BY <1>0 DEF TimerExpired, StartTask, TaskStep, EraseInWrite, WriteToFlashFails, Pull, CheckFlag,
     LockForFlush, WriteSnapshot, UnlockAfterWrite, WriteToFlash, clientVars, callVars, ClientType
<1> QED
  BY <1>9, <1>10, <1>11, <1>12, <1>13 DEF Next, Operations

TaskType ==
  /\ task \in {"off", "undefined", "suspended", "pull", "check", "lock", "write", "unlock", "flush"}
  /\ queue \in 0..NUM_MESSAGE
  /\ m_mutex \in [owner : Clients \cup {Registry, Nobody}, count : Nat]

LEMMA TaskTypeNext ==
  ASSUME TypeOK, Next
  PROVE  TaskType'
<1>0. TaskType /\ NUM_MESSAGE \in Nat
  BY RegistryAssumption DEF TaskType, TypeOK
<1>1. Unlocked \in [owner : Clients \cup {Registry, Nobody}, count : Nat]
  BY <1>0 DEF Unlocked, TaskType
<1>2. ASSUME NEW c \in Clients, ClientStep(c) PROVE TaskType'
  BY <1>0, <1>1, <1>2 DEF ClientStep, Lock, Unlock, WriteExisting, WriteOtherSize, WriteNoSpace, WriteNew,
     CopyValue, NeedUpdateFlash, Read, IsExist, DeleteFind, DeleteShift, DeleteEnd, TaskType
<1>3. ASSUME NEW c \in Clients, NEW op, NEW k, NEW v, Call(c, op, k, v) PROVE TaskType'
  BY <1>0, <1>3 DEF Call, TaskType
<1>4. TimerExpired \/ StartTask \/ EraseInWrite \/ WriteToFlashFails \/ Boot => TaskType'
  BY <1>0 DEF TimerExpired, StartTask, EraseInWrite, WriteToFlashFails, Boot, Load, LoadDamaged, bufferVars, clientVars, callVars, EmptyPayload, TaskType
<1>5. TaskStep => TaskType'
  BY <1>0, <1>1 DEF TaskStep, Pull, CheckFlag, LockForFlush, WriteSnapshot, UnlockAfterWrite, WriteToFlash, TaskType
<1>6. PowerFailure => TaskType'
  BY <1>0 DEF PowerFailure, RamLost, TaskType
<1> QED
  BY <1>2, <1>3, <1>4, <1>5, <1>6 DEF Next

FlashType ==
  /\ {stored, submitted} \subseteq Payloads \cup {Damaged, NoPayload}
  /\ saved \in BOOLEAN

\* A flush never saves "no registry".
LEMMA ImageType ==
  ASSUME TypeOK
  PROVE  Image \in Payloads \cup {Damaged}
BY DEF TypeOK, Payloads, Image, Snapshot

LEMMA FlashTypeNext ==
  ASSUME TypeOK, Next
  PROVE  FlashType'
<1>0. FlashType
  BY DEF FlashType, TypeOK
<1>1. ASSUME NEW c \in Clients, ClientStep(c) PROVE FlashType'
  BY <1>0, <1>1 DEF ClientStep, Lock, Unlock, WriteExisting, WriteOtherSize, WriteNoSpace, WriteNew,
     CopyValue, NeedUpdateFlash, Read, IsExist, DeleteFind, DeleteShift, DeleteEnd, FlashType, flashVars
<1>2. ASSUME NEW c \in Clients, NEW op, NEW k, NEW v, Call(c, op, k, v) PROVE FlashType'
  BY <1>0, <1>2 DEF Call, FlashType, flashVars
<1>3. Image \in Payloads \cup {Damaged}
  BY ImageType
<1>4. TaskStep => FlashType'
  BY <1>0, <1>3 DEF TaskStep, Pull, CheckFlag, LockForFlush, WriteSnapshot, UnlockAfterWrite, WriteToFlash,
     Flash!Submit, Flash!Commit, FlashType, flashVars
<1>5. TimerExpired \/ StartTask \/ EraseInWrite \/ WriteToFlashFails \/ PowerFailure \/ Boot => FlashType'
  BY <1>0 DEF TimerExpired, StartTask, EraseInWrite, WriteToFlashFails, PowerFailure, RamLost, Boot, Load, LoadDamaged, bufferVars, clientVars, callVars, EmptyPayload,
     Flash!Lose, Flash!Abandon, Flash!CommitUnnoticed, FlashType, flashVars
<1> QED
  BY <1>1, <1>2, <1>4, <1>5 DEF Next

LEMMA NextType == TypeOK /\ Invariant /\ [Next]_vars => TypeOK'
<1> SUFFICES ASSUME TypeOK, Invariant, [Next]_vars PROVE TypeOK'
  OBVIOUS
<1>1. CASE Next
  BY <1>1, BufferTypeNext, ClientTypeNext, TaskTypeNext, FlashTypeNext
  DEF BufferType, ClientType, TaskType, FlashType, TypeOK
<1>2. CASE UNCHANGED vars
  BY <1>2 DEF vars, clientVars, callVars, bufferVars, flashVars, TypeOK
<1> QED
  BY <1>1, <1>2

------------------------------------------------------------------------------
(* The invariant is kept. *)

\* The step of a client moves no other client.
LEMMA OthersStay ==
  ASSUME TypeOK, Invariant, NEW c \in Clients, ClientStep(c)
  PROVE  /\ \A d \in Clients \ {c} : pc'[d] = pc[d] /\ call'[d] = call[d] /\ object'[d] = object[d]
         /\ pc[c] \notin {"off", "idle"} /\ pc'[c] # "off"
         /\ UNCHANGED <<task, flashVars>>
<1>1. CASE Lock(c)
  <2>1. pc'[c] = call[c].op /\ call[c].op # "off"
    BY <1>1 DEF Lock, TypeOK, Invariant, Calls, Operations
  <2> QED
    BY <1>1, <2>1 DEF Lock, TypeOK, clientVars, callVars
<1>2. CASE Unlock(c) \/ WriteOtherSize(c) \/ WriteNoSpace(c)
  BY <1>2 DEF Unlock, WriteOtherSize, WriteNoSpace, Return, TypeOK
<1>3. CASE WriteExisting(c) \/ WriteNew(c) \/ DeleteFind(c) \/ DeleteShift(c)
  BY <1>3 DEF WriteExisting, WriteNew, DeleteFind, DeleteShift, TypeOK
<1>4. CASE CopyValue(c) \/ NeedUpdateFlash(c) \/ DeleteEnd(c)
  BY <1>4 DEF CopyValue, NeedUpdateFlash, DeleteEnd, clientVars, callVars, TypeOK
<1>5. CASE Read(c) \/ IsExist(c)
  BY <1>5 DEF Read, IsExist, TypeOK
<1> QED
  BY <1>1, <1>2, <1>3, <1>4, <1>5 DEF ClientStep

LEMMA ExclusiveNext ==
  ASSUME TypeOK, Invariant, Next
  PROVE  Exclusive'
<1>0. Exclusive /\ m_mutex \in [owner : Clients \cup {Registry, Nobody}, count : Nat]
      /\ pc \in [Clients -> Operations \cup
               {"off", "idle", "lock", "copy", "append", "dirty", "shift", "unlock"}]
  BY DEF Invariant, TypeOK
<1>1. ASSUME NEW c \in Clients, Lock(c) PROVE Exclusive'
  <2>1. task \notin {"write", "unlock"} /\ \A d \in Clients \ {c} : ~Working(d)
    BY <1>0, <1>1, RegistryAssumption DEF Lock, Exclusive
  <2>2. m_mutex'.owner = c /\ task' = task /\ \A d \in Clients \ {c} : pc'[d] = pc[d]
    BY <1>0, <1>1 DEF Lock
  <2> QED
    BY <2>1, <2>2 DEF Exclusive, Working
<1>2. ASSUME NEW c \in Clients, Working(c), \A d \in Clients \ {c} : pc'[d] = pc[d],
             ~Working(c)' \/ m_mutex' = m_mutex, task' = task
      PROVE  Exclusive'
  <2>1. task \notin {"write", "unlock"} /\ \A d \in Clients \ {c} : ~Working(d)
    BY <1>0, <1>2, Alone
  <2> QED
    BY <1>0, <1>2, <2>1 DEF Exclusive, Working
<1>3. ASSUME NEW c \in Clients, ClientStep(c), ~Lock(c) PROVE Exclusive'
  <2>1. Working(c)
    BY <1>3 DEF ClientStep, Unlock, WriteExisting, WriteOtherSize, WriteNoSpace, WriteNew,
       CopyValue, NeedUpdateFlash, Read, IsExist, DeleteFind, DeleteShift, DeleteEnd, Working
  <2>2. ~Working(c)' \/ m_mutex' = m_mutex
    BY <1>0, <1>3 DEF ClientStep, Unlock, WriteExisting, WriteOtherSize, WriteNoSpace, WriteNew, Return,
       CopyValue, NeedUpdateFlash, Read, IsExist, DeleteFind, DeleteShift, DeleteEnd, Working
  <2> QED
    BY <1>2, <1>3, <2>1, <2>2, OthersStay
<1>4. ASSUME NEW c \in Clients, NEW op, NEW k, NEW v, Call(c, op, k, v) PROVE Exclusive'
  BY <1>0, <1>4 DEF Call, Exclusive, Working
<1>5. LockForFlush => Exclusive'
  <2>1. LockForFlush => \A c \in Clients : ~Working(c)
    BY <1>0, RegistryAssumption DEF LockForFlush, Exclusive
  <2> QED
    BY <2>1 DEF LockForFlush, Exclusive, Working
<1>6. UnlockAfterWrite => Exclusive'
  <2>1. UnlockAfterWrite => \A c \in Clients : ~Working(c)
    BY <1>0, RegistryAssumption DEF UnlockAfterWrite, Exclusive
  <2> QED
    BY <2>1 DEF UnlockAfterWrite, Exclusive, Working
<1>7. PowerFailure \/ Boot => Exclusive'
  <2>1. PowerFailure \/ (Boot /\ stored # Damaged) => Exclusive'
    BY DEF PowerFailure, RamLost, Boot, Load, Exclusive, Working
  <2>2. Boot /\ stored = Damaged => Exclusive'
    BY <1>0 DEF Boot, LoadDamaged, Exclusive, Working
  <2> QED
    BY <2>1, <2>2
<1>8. Pull \/ CheckFlag \/ WriteSnapshot \/ WriteToFlash \/ TimerExpired \/ StartTask \/ EraseInWrite
        \/ WriteToFlashFails => Exclusive'
  BY <1>0 DEF Pull, CheckFlag, WriteSnapshot, WriteToFlash, TimerExpired, StartTask, EraseInWrite,
     WriteToFlashFails, Exclusive, Working
<1> QED
  BY <1>1, <1>3, <1>4, <1>5, <1>6, <1>7, <1>8 DEF Next, TaskStep

LEMMA CallsNext ==
  ASSUME TypeOK, Invariant, Next
  PROVE  Calls'
<1>0. Calls
  BY DEF Invariant
<1>1. ASSUME NEW c \in Clients, ClientStep(c) PROVE Calls'
  <2>1. \A d \in Clients \ {c} : pc'[d] = pc[d] /\ call'[d] = call[d]
    BY <1>1, OthersStay
  <2>2. /\ call[c].key \in Keys
        /\ call[c].op \in Operations
        /\ call[c].op \in {"Write", "Read"} => call[c].value \in Values
        /\ pc[c] \in Operations => call[c].op = pc[c]
        /\ pc[c] \in {"copy", "append"} => call[c].op = "Write"
    BY <1>0, <1>1, OthersStay DEF Calls
  <2>3. \/ pc'[c] = "idle"
        \/ call'[c] = call[c] /\ pc'[c] = call[c].op
        \/ call'[c] = call[c] /\ pc'[c] \in {"dirty", "shift", "unlock"}
        \/ call'[c] = call[c] /\ pc'[c] \in {"copy", "append"} /\ pc[c] = "Write"
    <3> USE DEF TypeOK
    <3>1. CASE Lock(c)
      BY <1>1, <3>1 DEF Lock, clientVars, callVars
    <3>2. CASE Unlock(c) \/ WriteOtherSize(c) \/ WriteNoSpace(c)
      BY <1>1, <3>2 DEF Unlock, WriteOtherSize, WriteNoSpace, Return
    <3>3. CASE WriteExisting(c) \/ WriteNew(c)
      BY <1>1, <3>3 DEF WriteExisting, WriteNew
    <3>4. CASE CopyValue(c) \/ NeedUpdateFlash(c) \/ Read(c) \/ IsExist(c) \/ DeleteFind(c) \/ DeleteShift(c) \/ DeleteEnd(c)
      BY <1>1, <3>4 DEF CopyValue, NeedUpdateFlash, Read, IsExist, DeleteFind, DeleteShift, DeleteEnd,
         clientVars, callVars
    <3> QED
      BY <1>1, <3>1, <3>2, <3>3, <3>4 DEF ClientStep
  <2>4. pc'[c] \notin {"off", "idle"} =>
          /\ call'[c].key \in Keys
          /\ call'[c].op \in Operations
          /\ call'[c].op \in {"Write", "Read"} => call'[c].value \in Values
          /\ pc'[c] \in Operations => call'[c].op = pc'[c]
          /\ pc'[c] \in {"copy", "append"} => call'[c].op = "Write"
    BY <2>2, <2>3 DEF Operations
  <2> QED
    BY <1>0, <2>1, <2>4 DEF Calls
<1>2. ASSUME NEW c \in Clients, NEW op \in Operations, NEW k \in Keys, NEW v,
             op \in {"Write", "Read"} => v \in Values, Call(c, op, k, v)
      PROVE  Calls'
  BY <1>0, <1>2 DEF Call, Calls, TypeOK, Operations
<1>3. PowerFailure \/ Boot => Calls'
  <2>1. PowerFailure \/ (Boot /\ stored # Damaged) => Calls'
    BY DEF PowerFailure, RamLost, Boot, Load, Calls
  <2>2. Boot /\ stored = Damaged => Calls'
    BY <1>0 DEF Boot, LoadDamaged, clientVars, callVars, Calls
  <2> QED
    BY <2>1, <2>2
<1>4. TaskStep \/ TimerExpired \/ StartTask \/ EraseInWrite \/ WriteToFlashFails => Calls'
  BY <1>0 DEF TaskStep, Pull, CheckFlag, LockForFlush, WriteSnapshot, UnlockAfterWrite, WriteToFlash,
     TimerExpired, StartTask, EraseInWrite, WriteToFlashFails, Calls, clientVars, callVars
<1>5. CASE \E c \in Clients, op \in {"Write", "Read"}, k \in Keys, v \in Values : Call(c, op, k, v)
  BY <1>2, <1>5 DEF Operations
<1>6. CASE \E c \in Clients, op \in {"IsExist", "Delete"}, k \in Keys : Call(c, op, k, Absent)
  BY <1>2, <1>6 DEF Operations
<1> QED
  BY <1>1, <1>3, <1>4, <1>5, <1>6 DEF Next

\* The buffer stays in order if it stays the same and no client starts or ends a change.
LEMMA BufferKept ==
  ASSUME Buffer, m_flash_buffer' = m_flash_buffer,
         \A d \in Clients :
           \/ pc'[d] = pc[d] /\ call'[d] = call[d] /\ object'[d] = object[d]
           \/ pc[d] \notin {"copy", "append", "shift"} /\ pc'[d] \notin {"copy", "append", "shift"}
  PROVE  Buffer'
BY DEF Buffer, CopyPlace, HolePlace, UniqueKeys, Whole

LEMMA WriteExistingBuffer ==
  ASSUME TypeOK, Invariant, NEW c \in Clients, WriteExisting(c)
  PROVE  Buffer'
<1> DEFINE b == m_flash_buffer
           i == Found(c)
<1>1. b \in Seq(Objects) /\ UniqueKeys(b) /\ Whole(b)
  BY InOrder DEF Invariant, WriteExisting, Operations, TypeOK
<1>2. i \in 1..Len(b) /\ b[i].key = call[c].key
  BY <1>1, FindUnique DEF WriteExisting, Found
<1>3. b' = [b EXCEPT ![i].value = Partial]
  BY DEF WriteExisting
<1>4. /\ Len(b') = Len(b)
      /\ \A j \in 1..Len(b) : j # i => b'[j] = b[j]
      /\ \A j \in 1..Len(b) : b'[j].key = b[j].key
  BY <1>1, <1>2, <1>3, ExceptObject
<1>5. \A d \in Clients \ {c} : pc'[d] \notin {"copy", "append", "shift"}
  BY Alone, OthersStay DEF Invariant, WriteExisting, Working, ClientStep
<1>6. pc'[c] = "copy" /\ call'[c] = call[c] /\ object'[c].index = i
  BY DEF WriteExisting, TypeOK
<1> HIDE DEF i
<1>7. UniqueKeys(b')
  BY <1>1, <1>4 DEF UniqueKeys
<1>8. CopyPlace(c)'
  BY <1>1, <1>2, <1>4, <1>6 DEF CopyPlace, Whole
<1> QED
  BY <1>5, <1>6, <1>7, <1>8 DEF Buffer

LEMMA WriteNewBuffer ==
  ASSUME TypeOK, Invariant, NEW c \in Clients, WriteNew(c)
  PROVE  Buffer'
<1> DEFINE b == m_flash_buffer
           n == [key |-> call[c].key, size |-> ValueSize[call[c].value], value |-> Partial]
<1>1. b \in Seq(Objects) /\ Len(b) \in Nat /\ UniqueKeys(b) /\ Whole(b)
  BY InOrder DEF Invariant, WriteNew, Operations, TypeOK
<1>2. \A j \in 1..Len(b) : b[j].key # call[c].key
  BY <1>1, FindUnique DEF WriteNew, Found
<1>3. n \in Objects
  <2>1. call[c].key \in Keys /\ call[c].value \in Values
    BY DEF WriteNew, Invariant, Calls, Operations
  <2> QED
    BY <2>1, NumberTypes DEF Objects
<1>4. b' = Append(b, n)
  BY DEF WriteNew
<1>5. n.key = call[c].key
  OBVIOUS
<1> HIDE DEF n
<1>6. /\ Len(b') = Len(b) + 1
      /\ \A j \in 1..Len(b) : b'[j] = b[j]
      /\ b'[Len(b) + 1] = n
  BY <1>1, <1>3, <1>4, AppendProperties
<1>7. \A d \in Clients \ {c} : pc'[d] \notin {"copy", "append", "shift"}
  BY Alone, OthersStay DEF Invariant, WriteNew, Working, ClientStep
<1>8. pc'[c] = "append" /\ call'[c] = call[c] /\ object'[c].index = Len(b) + 1
  BY DEF WriteNew, TypeOK
<1>9. UniqueKeys(b')
  BY <1>1, <1>2, <1>5, <1>6 DEF UniqueKeys
<1>10. CopyPlace(c)'
  BY <1>1, <1>5, <1>6, <1>8 DEF CopyPlace, Whole
<1> QED
  BY <1>7, <1>8, <1>9, <1>10 DEF Buffer

LEMMA CopyValueBuffer ==
  ASSUME TypeOK, Invariant, NEW c \in Clients, CopyValue(c)
  PROVE  Buffer'
<1> DEFINE b == m_flash_buffer
           i == object[c].index
<1>1. CopyPlace(c) /\ call[c].value \in Values /\ b \in Seq(Objects) /\ pc[c] \in {"copy", "append"}
  BY DEF CopyValue, Invariant, Calls, Buffer, TypeOK
<1>2. \A d \in Clients \ {c} : pc'[d] \notin {"copy", "append", "shift"} /\ ~Working(d)
  BY <1>1, Alone, OthersStay DEF Invariant, Working, ClientStep
<1>3. UniqueKeys(b)
  BY <1>1, <1>2 DEF Invariant, Buffer, Working
<1>4. b' = [b EXCEPT ![i].value = call[c].value]
  BY DEF CopyValue
<1>5. i \in 1..Len(b)
  BY <1>1 DEF CopyPlace
<1> HIDE DEF i
<1>6. /\ Len(b') = Len(b)
      /\ \A j \in 1..Len(b) : j # i => b'[j] = b[j]
      /\ b'[i].value = call[c].value
      /\ \A j \in 1..Len(b) : b'[j].key = b[j].key
  BY <1>1, <1>4, <1>5, ExceptObject
<1>7. UniqueKeys(b')
  BY <1>3, <1>6 DEF UniqueKeys
<1>8. Whole(b')
  BY <1>1, <1>6, RegistryAssumption DEF CopyPlace, Whole, i
<1>9. pc'[c] = "dirty"
  BY DEF CopyValue, TypeOK
<1> QED
  BY <1>2, <1>7, <1>8, <1>9 DEF Buffer

LEMMA DeleteFindBuffer ==
  ASSUME TypeOK, Invariant, NEW c \in Clients, DeleteFind(c)
  PROVE  Buffer'
<1> DEFINE b == m_flash_buffer
           i == Found(c)
<1>1. b \in Seq(Objects) /\ UniqueKeys(b) /\ Whole(b) /\ b' = b
  BY InOrder DEF Invariant, DeleteFind, Operations, TypeOK, bufferVars
<1>2. \A d \in Clients \ {c} : pc'[d] \notin {"copy", "append", "shift"}
  BY Alone, OthersStay DEF Invariant, DeleteFind, Working, ClientStep
<1>3. CASE i = 0
  <2>1. pc'[c] = "unlock"
    BY <1>3 DEF DeleteFind, TypeOK
  <2> QED
    BY <1>1, <1>2, <2>1 DEF Buffer
<1>4. CASE i # 0
  <2>1. i \in 1..Len(b) /\ b[i].key = call[c].key
    BY <1>1, <1>4, FindUnique DEF Found
  <2>2. pc'[c] = "shift" /\ call'[c] = call[c] /\ object'[c].index = i
    BY <1>4 DEF DeleteFind, TypeOK
  <2> HIDE DEF i
  <2>3. HolePlace(c)'
    BY <1>1, <2>1, <2>2 DEF HolePlace, UniqueKeys
  <2> QED
    BY <1>1, <1>2, <2>2, <2>3 DEF Buffer
<1> QED
  BY <1>3, <1>4

LEMMA DeleteShiftBuffer ==
  ASSUME TypeOK, Invariant, NEW c \in Clients, DeleteShift(c)
  PROVE  Buffer'
<1> DEFINE b == m_flash_buffer
           h == object[c].index
<1>1. HolePlace(c) /\ b \in Seq(Objects) /\ Len(b) \in Nat /\ pc[c] = "shift" /\ h < Len(b)
  BY DEF DeleteShift, Invariant, Buffer, TypeOK
<1>2. \A d \in Clients \ {c} : pc'[d] \notin {"copy", "append", "shift"} /\ ~Working(d)
  BY <1>1, Alone, OthersStay DEF Invariant, Working, ClientStep
<1>3. Whole(b)
  BY <1>1, <1>2 DEF Invariant, Buffer, Working
<1>4. h \in 1..Len(b) /\ h + 1 \in 1..Len(b)
  BY <1>1 DEF HolePlace
<1>5. b' = [b EXCEPT ![h] = b[h + 1]]
  BY DEF DeleteShift
<1>6. pc'[c] = "shift" /\ call'[c] = call[c] /\ object'[c].index = h + 1
  BY <1>1 DEF DeleteShift, TypeOK
<1>7. b[h + 1] \in Objects
  BY <1>1, <1>4, ElementOfSeq
<1>8. Len(b') = Len(b) /\ \A j \in 1..Len(b) : b'[j] = IF j = h THEN b[h + 1] ELSE b[j]
  BY <1>1, <1>4, <1>5, <1>7, ExceptSeq
<1>9. Whole(b')
  BY <1>3, <1>4, <1>8 DEF Whole
<1>10. HolePlace(c)'
  <2>1. \A i, j \in 1..Len(b) \ {h} : b[i].key = b[j].key => i = j
    BY <1>1 DEF HolePlace
  <2>2. \A i \in 1..Len(b) \ {h} : b[i].key # call[c].key
    BY <1>1 DEF HolePlace
  <2> HIDE DEF h
  <2>3. \A i, j \in 1..Len(b') \ {h + 1} : b'[i].key = b'[j].key => i = j
    BY <1>1, <1>4, <1>8, <2>1
  <2>4. \A i \in 1..Len(b') \ {h + 1} : b'[i].key # call[c].key
    BY <1>1, <1>4, <1>8, <2>2
  <2>5. h + 1 > 1 /\ b'[h + 1] = b'[(h + 1) - 1]
    BY <1>1, <1>4, <1>8
  <2> QED
    BY <1>4, <1>6, <1>8, <2>3, <2>4, <2>5 DEF HolePlace
<1> QED
  BY <1>2, <1>6, <1>9, <1>10 DEF Buffer

LEMMA DeleteEndBuffer ==
  ASSUME TypeOK, Invariant, NEW c \in Clients, DeleteEnd(c)
  PROVE  Buffer'
<1> DEFINE b == m_flash_buffer
           h == object[c].index
<1>1. HolePlace(c) /\ b \in Seq(Objects) /\ Len(b) \in Nat /\ pc[c] = "shift" /\ h >= Len(b)
  BY DEF DeleteEnd, Invariant, Buffer, TypeOK
<1>2. \A d \in Clients \ {c} : pc'[d] \notin {"copy", "append", "shift"} /\ ~Working(d)
  BY <1>1, Alone, OthersStay DEF Invariant, Working, ClientStep
<1>3. Whole(b)
  BY <1>1, <1>2 DEF Invariant, Buffer, Working
<1>4. h = Len(b) /\ Len(b) >= 1
  BY <1>1 DEF HolePlace
<1>5. b' = SubSeq(b, 1, Len(b) - 1)
  BY DEF DeleteEnd
<1>7. Len(b') = Len(b) - 1 /\ \A i \in 1..Len(b) - 1 : b'[i] = b[i]
  BY <1>1, <1>4, <1>5, CutLast
<1>8. UniqueKeys(b')
  BY <1>1, <1>4, <1>7 DEF UniqueKeys, HolePlace
<1>9. Whole(b')
  BY <1>1, <1>3, <1>7 DEF Whole
<1>10. pc'[c] = "unlock"
  BY DEF DeleteEnd, TypeOK
<1> QED
  BY <1>2, <1>8, <1>9, <1>10 DEF Buffer

LEMMA BufferNext ==
  ASSUME TypeOK, Invariant, Next
  PROVE  Buffer'
<1>0. Buffer
  BY DEF Invariant
<1>1. ASSUME NEW c \in Clients, ClientStep(c) PROVE Buffer'
  <2>1. CASE Lock(c) \/ Unlock(c) \/ WriteOtherSize(c) \/ WriteNoSpace(c) \/ NeedUpdateFlash(c) \/ Read(c) \/ IsExist(c)
    <3>1. m_flash_buffer' = m_flash_buffer
      BY <2>1 DEF Lock, Unlock, WriteOtherSize, WriteNoSpace, NeedUpdateFlash, Read, IsExist, bufferVars
    <3>2. pc[c] \notin {"copy", "append", "shift"}
      BY <2>1 DEF Lock, Unlock, WriteOtherSize, WriteNoSpace, NeedUpdateFlash, Read, IsExist
    <3>3. Lock(c) => pc'[c] \in Operations
      BY DEF Lock, Invariant, Calls, TypeOK
    <3>4. pc'[c] \notin {"copy", "append", "shift"}
      BY <2>1, <3>3 DEF Unlock, WriteOtherSize, WriteNoSpace, Return, NeedUpdateFlash, Read, IsExist, TypeOK, Operations
    <3> QED
      BY <1>0, <1>1, <3>1, <3>2, <3>4, OthersStay, BufferKept
  <2> QED
    BY <1>1, <2>1, WriteExistingBuffer, WriteNewBuffer, CopyValueBuffer, DeleteFindBuffer,
       DeleteShiftBuffer, DeleteEndBuffer DEF ClientStep
<1>2. ASSUME NEW c \in Clients, NEW op, NEW k, NEW v, Call(c, op, k, v) PROVE Buffer'
  BY <1>0, <1>2, BufferKept DEF Call, TypeOK, bufferVars
<1>3. PowerFailure => Buffer'
  <2> SUFFICES ASSUME PowerFailure PROVE Buffer'
    OBVIOUS
  <2>1. Len(m_flash_buffer') = 0 /\ \A d \in Clients : pc'[d] = "off"
    BY DEF PowerFailure, RamLost
  <2>2. UniqueKeys(m_flash_buffer') /\ Whole(m_flash_buffer')
    BY <2>1 DEF UniqueKeys, Whole
  <2> QED
    BY <2>1, <2>2 DEF Buffer
<1>4. Boot => Buffer'
  <2>0. CASE Boot /\ stored = Damaged
    BY <1>0, <2>0, BufferKept DEF Boot, LoadDamaged, bufferVars, clientVars, callVars
  <2> SUFFICES ASSUME Boot, stored # Damaged PROVE Buffer'
    BY <2>0
  <2>1. \A d \in Clients : pc'[d] = "idle"
    BY DEF Boot, Load
  <2>2. UniqueKeys(m_flash_buffer') /\ Whole(m_flash_buffer')
    <3>1. CASE stored = NoPayload
      <4>1. Len(m_flash_buffer') = 0
        BY <3>1 DEF Boot, Load, EmptyPayload
      <4> QED
        BY <4>1 DEF UniqueKeys, Whole
    <3>2. CASE stored # NoPayload
      BY <3>2 DEF Boot, Load, Invariant, Snapshots
    <3> QED
      BY <3>1, <3>2
  <2> QED
    BY <2>1, <2>2 DEF Buffer
<1>5. TaskStep \/ TimerExpired \/ StartTask \/ EraseInWrite \/ WriteToFlashFails => Buffer'
  BY <1>0, BufferKept DEF TaskStep, Pull, CheckFlag, LockForFlush, WriteSnapshot, UnlockAfterWrite, WriteToFlash,
     TimerExpired, StartTask, EraseInWrite, WriteToFlashFails, clientVars, callVars, bufferVars
<1> QED
  BY <1>1, <1>2, <1>3, <1>4, <1>5 DEF Next

LEMMA SnapshotsNext ==
  ASSUME TypeOK, Invariant, Next
  PROVE  Snapshots'
<1>0. Snapshots
  BY DEF Invariant
<1>1. ASSUME NEW c \in Clients, ClientStep(c) PROVE Snapshots'
  BY <1>0, <1>1, OthersStay DEF Snapshots, flashVars
<1>2. WriteSnapshot => Snapshots'
  <2> SUFFICES ASSUME WriteSnapshot PROVE Snapshots'
    OBVIOUS
  <2>1. \A c \in Clients : ~Working(c)
    BY RegistryAssumption DEF WriteSnapshot, Invariant, Exclusive
  <2>2. UniqueKeys(m_flash_buffer) /\ Whole(m_flash_buffer)
    BY <2>1 DEF Invariant, Buffer, Working
  <2> QED
    BY <1>0, <2>2 DEF WriteSnapshot, Flash!Submit, Image, Snapshot, Snapshots
<1>3. Pull \/ CheckFlag \/ LockForFlush \/ UnlockAfterWrite \/ TimerExpired \/ StartTask \/ Boot => Snapshots'
  BY <1>0 DEF Pull, CheckFlag, LockForFlush, UnlockAfterWrite, TimerExpired, StartTask, Boot, Load, LoadDamaged, bufferVars, clientVars, callVars, EmptyPayload, Snapshots, flashVars
<1>4. WriteToFlash \/ WriteToFlashFails \/ EraseInWrite \/ PowerFailure => Snapshots'
  BY <1>0 DEF WriteToFlash, WriteToFlashFails, EraseInWrite, PowerFailure, RamLost, Flash!Commit, Flash!CommitUnnoticed, Flash!Abandon, Flash!Lose,
     Snapshots
<1>5. ASSUME NEW c \in Clients, NEW op, NEW k, NEW v, Call(c, op, k, v) PROVE Snapshots'
  BY <1>0, <1>5 DEF Call, Snapshots, flashVars
<1> QED
  BY <1>1, <1>2, <1>3, <1>4, <1>5 DEF Next, TaskStep

LEMMA PlacesNext ==
  ASSUME TypeOK, Invariant, Next
  PROVE  Places'
<1>0. Places
  BY DEF Invariant
<1>1. ASSUME NEW c \in Clients, ClientStep(c) PROVE Places'
  <2>1. pc[c] # "off" /\ UNCHANGED <<task, flashVars>>
    BY <1>1, OthersStay
  <2>2. Running
    BY <1>0, <2>1 DEF Places
  <2> QED
    BY <1>0, <2>1, <2>2 DEF Places, flashVars
<1>2. WriteSnapshot => Places'
  <2>1. Image # NoPayload
    BY ImageType, PayloadAssumption
  <2> QED
    BY <1>0, <2>1 DEF WriteSnapshot, Flash!Submit, Places
<1>3. Pull \/ CheckFlag \/ LockForFlush \/ UnlockAfterWrite \/ TimerExpired \/ StartTask => Places'
  BY <1>0 DEF Pull, CheckFlag, LockForFlush, UnlockAfterWrite, TimerExpired, StartTask, Places, flashVars
<1>4. WriteToFlash \/ WriteToFlashFails \/ EraseInWrite => Places'
  BY <1>0 DEF WriteToFlash, WriteToFlashFails, EraseInWrite, Flash!Commit, Flash!CommitUnnoticed, Flash!Abandon, Flash!Lose, Places
<1>5. PowerFailure \/ Boot => Places'
  BY <1>0 DEF PowerFailure, RamLost, Boot, Load, LoadDamaged, bufferVars, clientVars, callVars, EmptyPayload, Flash!Abandon, Flash!Lose, Places, flashVars
<1>6. ASSUME NEW c \in Clients, NEW op, NEW k, NEW v, Call(c, op, k, v) PROVE Places'
  BY <1>0, <1>6 DEF Call, Places, flashVars
<1> QED
  BY <1>1, <1>2, <1>3, <1>4, <1>5, <1>6 DEF Next, TaskStep

LEMMA NoHalfReadNext ==
  ASSUME TypeOK, Invariant, Next
  PROVE  NoHalfRead'
<1>0. NoHalfRead /\ result \in [Clients -> [ok : BOOLEAN, value : Values \cup {Absent, Partial}]]
  BY DEF Invariant, TypeOK
<1>a. Absent # Partial
  BY RegistryAssumption
<1>1. ASSUME NEW c \in Clients, Read(c) PROVE NoHalfRead'
  <2> DEFINE i == Found(c)
             fits == i # 0 /\ m_flash_buffer[i].size = ValueSize[call[c].value]
             v == IF fits THEN m_flash_buffer[i].value ELSE Absent
  <2>1. UniqueKeys(m_flash_buffer) /\ Whole(m_flash_buffer) /\ m_flash_buffer \in Seq(Objects)
    BY <1>1, InOrder DEF Invariant, Read, Operations, TypeOK
  <2>2. i # 0 => m_flash_buffer[i].value # Partial
    BY <2>1, FindUnique DEF Found, Whole
  <2>3. v # Partial
    BY <1>a, <2>2
  <2>4. result' = [result EXCEPT ![c] = [ok |-> i # 0, value |-> v]]
    BY <1>1 DEF Read
  <2> HIDE DEF v, i
  <2> QED
    BY <1>0, <2>3, <2>4 DEF NoHalfRead
<1>2. ASSUME NEW c \in Clients, Return(c) \/ IsExist(c) PROVE NoHalfRead'
  BY <1>0, <1>a, <1>2 DEF Return, IsExist, NoResult, NoHalfRead
<1>3. ASSUME NEW c \in Clients, ClientStep(c), ~Read(c), ~IsExist(c), ~Return(c) PROVE NoHalfRead'
  BY <1>0, <1>3 DEF ClientStep, Lock, Unlock, WriteExisting, WriteOtherSize, WriteNoSpace, WriteNew, CopyValue,
     NeedUpdateFlash, DeleteFind, DeleteShift, DeleteEnd, NoHalfRead, clientVars, callVars
<1>4. ASSUME NEW c \in Clients, NEW op, NEW k, NEW v, Call(c, op, k, v) PROVE NoHalfRead'
  BY <1>0, <1>4 DEF Call, NoHalfRead
<1>5. TaskStep \/ TimerExpired \/ StartTask \/ EraseInWrite \/ WriteToFlashFails \/ Boot => NoHalfRead'
  BY <1>0 DEF TaskStep, Pull, CheckFlag, LockForFlush, WriteSnapshot, UnlockAfterWrite, WriteToFlash,
     TimerExpired, StartTask, EraseInWrite, WriteToFlashFails, Boot, Load, LoadDamaged, bufferVars, clientVars, callVars, EmptyPayload, NoHalfRead, clientVars, callVars
<1>6. PowerFailure => NoHalfRead'
  BY <1>a DEF PowerFailure, RamLost, NoHalfRead, NoResult
<1> QED
  BY <1>1, <1>2, <1>3, <1>4, <1>5, <1>6 DEF Next

\* The buffer is kept, and a change that is under way stays so.
LEMMA CleanKept ==
  ASSUME Clean, UNCHANGED <<bufferVars, flashVars>>, Running' => Running,
         task' \in {"unlock", "flush"} => task \in {"unlock", "flush"},
         \A d \in Clients : pc[d] \in {"copy", "append", "dirty", "shift"} => pc'[d] = pc[d]
  PROVE  Clean'
BY DEF Clean, Image, Snapshot, bufferVars, flashVars

LEMMA CleanNext ==
  ASSUME TypeOK, Invariant, Next
  PROVE  Clean'
<1>0. Clean
  BY DEF Invariant
<1>1. ASSUME NEW c \in Clients, ClientStep(c) PROVE Clean'
  <2>1. \A d \in Clients \ {c} : pc'[d] = pc[d]
    BY <1>1, OthersStay
  <2>2. UNCHANGED <<task, flashVars>>
    BY <1>1, OthersStay
  <2>3. CASE Lock(c) \/ Unlock(c) \/ WriteOtherSize(c) \/ WriteNoSpace(c) \/ Read(c) \/ IsExist(c) \/ DeleteFind(c)
    <3>1. bufferVars' = bufferVars
      BY <2>3 DEF Lock, Unlock, WriteOtherSize, WriteNoSpace, Read, IsExist, DeleteFind
    <3>2. pc[c] \notin {"copy", "append", "dirty", "shift"}
      BY <2>3 DEF Lock, Unlock, WriteOtherSize, WriteNoSpace, Read, IsExist, DeleteFind
    <3> QED
      BY <1>0, <2>1, <2>2, <3>1, <3>2, CleanKept
  <2>4. CASE WriteExisting(c) \/ WriteNew(c) \/ CopyValue(c) \/ DeleteShift(c)
    <3>1. pc'[c] \in {"copy", "append", "dirty", "shift"}
      BY <2>4 DEF WriteExisting, WriteNew, CopyValue, DeleteShift, TypeOK
    <3> QED
      BY <3>1 DEF Clean
  <2>5. CASE NeedUpdateFlash(c) \/ DeleteEnd(c)
    BY <2>5 DEF NeedUpdateFlash, DeleteEnd, Clean
  <2> QED
    BY <1>1, <2>3, <2>4, <2>5 DEF ClientStep
<1>2. ASSUME NEW c \in Clients, NEW op, NEW k, NEW v, Call(c, op, k, v) PROVE Clean'
  BY <1>0, <1>2, CleanKept DEF Call, TypeOK
<1>3. WriteSnapshot => Clean'
  BY DEF WriteSnapshot, Flash!Submit, Clean, Image, Snapshot
<1>4. WriteToFlash => Clean'
  BY <1>0 DEF WriteToFlash, Flash!Commit, Clean, Image, Snapshot, bufferVars
<1>5. Pull \/ CheckFlag \/ LockForFlush \/ UnlockAfterWrite \/ TimerExpired \/ StartTask => Clean'
  BY <1>0, CleanKept DEF Pull, CheckFlag, LockForFlush, UnlockAfterWrite, TimerExpired, StartTask
<1>6. EraseInWrite \/ WriteToFlashFails => Clean'
  BY <1>0 DEF EraseInWrite, WriteToFlashFails, Flash!CommitUnnoticed, Flash!Abandon, Flash!Lose, Clean, Image, Snapshot, bufferVars
<1>7. PowerFailure => Clean'
  BY DEF PowerFailure, RamLost, Clean
<1>8. Boot => Clean'
  BY DEF Boot, Load, LoadDamaged, bufferVars, clientVars, callVars, EmptyPayload, Clean, Invariant, Places, flashVars
<1> QED
  BY <1>1, <1>2, <1>3, <1>4, <1>5, <1>6, <1>7, <1>8 DEF Next, TaskStep

------------------------------------------------------------------------------
(* The theorems. *)

LEMMA InitInvariant == Init => IInv
<1> SUFFICES ASSUME Init PROVE IInv
  OBVIOUS
<1>1. m_flash_buffer \in Seq(Objects) /\ Len(m_flash_buffer) = 0
  BY EmptySeq DEF Init
<1>2. NoObject \in [index : Nat, size : Nat] /\ NoResult \in [ok : BOOLEAN, value : Values \cup {Absent, Partial}]
  BY DEF NoObject, NoResult
<1>3. pc = [c \in Clients |-> "off"] /\ result = [c \in Clients |-> NoResult]
  BY DEF Init
<1>4. TypeOK
  <2>1. BufferType
    <3>1. m_need_update_flash \in BOOLEAN
      BY Zenon DEF Init
    <3>2. m_flash_buffer_size \in Int
      BY DEF Init
    <3> QED
      BY <1>1, <3>1, <3>2, Zenon DEF BufferType
  <2>2. ClientType
    BY <1>2, RegistryAssumption DEF Init, ClientType
  <2>3. TaskType
    BY RegistryAssumption DEF Init, TaskType
  <2>4. FlashType
    BY DEF Init, Flash!Init, FlashType
  <2> QED
    BY <2>1, <2>2, <2>3, <2>4 DEF TypeOK, BufferType, ClientType, TaskType, FlashType
<1>5. Exclusive /\ Calls
  BY <1>3 DEF Init, Exclusive, Calls, Working
<1>6. Buffer
  BY <1>1, <1>3 DEF Buffer, UniqueKeys, Whole
<1>7. Snapshots /\ Places /\ Clean
  BY <1>3 DEF Init, Flash!Init, Snapshots, Places, Clean
<1>8. NoHalfRead
  BY <1>3, RegistryAssumption DEF NoHalfRead, NoResult
<1> QED
  BY <1>4, <1>5, <1>6, <1>7, <1>8 DEF IInv, Invariant

LEMMA NextInvariant == IInv /\ [Next]_vars => IInv'
<1> SUFFICES ASSUME IInv, [Next]_vars PROVE IInv'
  OBVIOUS
<1>0. TypeOK /\ Invariant
  BY DEF IInv
<1>1. TypeOK'
  BY <1>0, NextType
<1>2. CASE Next
  BY <1>0, <1>1, <1>2, ExclusiveNext, CallsNext, BufferNext, SnapshotsNext, PlacesNext, NoHalfReadNext, CleanNext
  DEF IInv, Invariant
<1>3. CASE UNCHANGED vars
  <2>1. Exclusive' /\ Calls' /\ Snapshots' /\ Places' /\ NoHalfRead'
    BY <1>0, <1>3 DEF Invariant, vars, clientVars, callVars, flashVars, Exclusive, Working, Calls, Snapshots,
       Places, NoHalfRead
  <2>2. Buffer'
    BY <1>0, <1>3, BufferKept DEF Invariant, vars, clientVars, callVars, bufferVars
  <2>3. Clean'
    BY <1>0, <1>3, CleanKept DEF Invariant, vars
  <2> QED
    BY <1>1, <2>1, <2>2, <2>3 DEF IInv, Invariant
<1> QED
  BY <1>2, <1>3

LEMMA Always == Spec => []IInv
BY InitInvariant, NextInvariant, PTL DEF Spec

\* The registry keeps to its types: calls read and change objects only, the queue stays
\* within its capacity, and what goes to the flash is a sequence of objects and a size.
THEOREM RegistryTypes == Spec => []TypeOK
<1>1. IInv => TypeOK
  BY DEF IInv
<1> QED
  BY <1>1, Always, PTL

\* No read returns a value another task is copying, however many tasks call.
THEOREM ReadsAreWhole == Spec => []NoHalfRead
<1>1. IInv => NoHalfRead
  BY DEF IInv, Invariant
<1> QED
  BY <1>1, Always, PTL

\* No change is forgotten: when a flush has succeeded and the flag is down, the flash
\* holds the buffer, although the flag is read and cleared while other tasks write.
THEOREM ChangesAreSaved == Spec => []CleanMeansDurable
<1>1. IInv => CleanMeansDurable
  BY DEF IInv, Invariant, Clean, CleanMeansDurable, Image, Running
<1> QED
  BY <1>1, Always, PTL

------------------------------------------------------------------------------
(* The registry implements the persistent dictionary. *)

\* What the registry shows its clients, by where they are.
View ==
  IF ~Running THEN Contents = Durable
  ELSE /\ (\A c \in Clients : pc[c] \notin {"copy", "append", "shift"}) => Contents = MapOf(m_flash_buffer)
       /\ \A c \in Clients : pc[c] \in {"copy", "append"} =>
            Contents = [MapOf(m_flash_buffer) EXCEPT ![call[c].key] = call[c].value]
       /\ \A c \in Clients : pc[c] = "shift" =>
            Contents = [MapOf(m_flash_buffer) EXCEPT ![call[c].key] = Absent]

LEMMA HasView == IInv => View
<1> SUFFICES ASSUME IInv PROVE View
  OBVIOUS
<1>0. TypeOK /\ Exclusive /\ Calls
  BY DEF IInv, Invariant
<1>1. ~Running => Contents = Durable
  BY DEF Contents
<1>2. ASSUME Running, \A c \in Clients : pc[c] \notin {"copy", "append", "shift"}
      PROVE  Contents = MapOf(m_flash_buffer)
  BY <1>2 DEF Contents, MapOf
<1>3. ASSUME Running, NEW c \in Clients, pc[c] \in {"copy", "append"}
      PROVE  Contents = [MapOf(m_flash_buffer) EXCEPT ![call[c].key] = call[c].value]
  <2>1. \A d \in Clients : pc[d] \in {"copy", "append", "shift"} => d = c
    BY <1>0, <1>3, Alone DEF Working
  <2>2. ASSUME NEW k \in Keys, k = call[c].key PROVE Contents[k] = call[c].value
    <3>1. \A d \in Clients : pc[d] \in {"copy", "append"} /\ call[d].key = k <=> d = c
      BY <1>3, <2>1, <2>2
    <3>2. (CHOOSE d \in Clients : pc[d] \in {"copy", "append"} /\ call[d].key = k) = c
      BY <3>1
    <3> QED
      BY <1>3, <3>1, <3>2 DEF Contents
  <2>3. ASSUME NEW k \in Keys, k # call[c].key PROVE Contents[k] = Lookup(m_flash_buffer, k)
    BY <1>3, <2>1, <2>3 DEF Contents
  <2>4. Contents = [k \in Keys |-> Contents[k]]
    BY <1>3 DEF Contents
  <2> HIDE DEF Contents
  <2> QED
    BY <2>2, <2>3, <2>4 DEF MapOf
<1>4. ASSUME Running, NEW c \in Clients, pc[c] = "shift"
      PROVE  Contents = [MapOf(m_flash_buffer) EXCEPT ![call[c].key] = Absent]
  <2>1. \A d \in Clients : pc[d] \in {"copy", "append", "shift"} => d = c
    BY <1>0, <1>4, Alone DEF Working
  <2>2. ASSUME NEW k \in Keys PROVE Contents[k] = IF k = call[c].key THEN Absent ELSE Lookup(m_flash_buffer, k)
    BY <1>4, <2>1 DEF Contents
  <2>3. Contents = [k \in Keys |-> Contents[k]]
    BY <1>4 DEF Contents
  <2> QED
    BY <2>2, <2>3 DEF MapOf
<1> QED
  BY <1>1, <1>2, <1>3, <1>4 DEF View

\* In a dictionary with unique keys the value of the object with the key is the value of the key.
LEMMA LookupUnique ==
  ASSUME NEW objects \in Seq(Objects), UniqueKeys(objects), NEW k
  PROVE  /\ \A i \in 1..Len(objects) : objects[i].key = k => Lookup(objects, k) = objects[i].value
         /\ (\A i \in 1..Len(objects) : objects[i].key # k) => Lookup(objects, k) = Absent
<1>1. ASSUME NEW i \in 1..Len(objects), objects[i].key = k PROVE Lookup(objects, k) = objects[i].value
  <2>1. FindObject(objects, k) = i
    BY <1>1, FindUnique
  <2>2. i # 0
    OBVIOUS
  <2> QED
    BY <2>1, <2>2 DEF Lookup
<1>2. ASSUME \A i \in 1..Len(objects) : objects[i].key # k PROVE Lookup(objects, k) = Absent
  BY <1>2 DEF Lookup, FindObject
<1> QED
  BY <1>1, <1>2

\* With a hole, the objects outside it decide: the copy of the object before the hole comes second.
LEMMA LookupHole ==
  ASSUME TypeOK, NEW c \in Clients, HolePlace(c), NEW k, k # call[c].key
  PROVE  LET rest == 1..Len(m_flash_buffer) \ {object[c].index} IN
         /\ \A i \in rest : m_flash_buffer[i].key = k => Lookup(m_flash_buffer, k) = m_flash_buffer[i].value
         /\ (\A i \in rest : m_flash_buffer[i].key # k) => Lookup(m_flash_buffer, k) = Absent
<1> DEFINE b == m_flash_buffer
           h == object[c].index
           rest == 1..Len(b) \ {h}
<1>0. /\ h \in 1..Len(b) /\ Len(b) \in Nat
      /\ \A i, j \in rest : b[i].key = b[j].key => i = j
      /\ b[h].key = call[c].key \/ (h > 1 /\ b[h] = b[h - 1])
  <2>1. b \in Seq(Objects)
    BY DEF TypeOK
  <2> QED
    BY <2>1 DEF HolePlace
<1> HIDE DEF h
<1>1. ASSUME NEW i \in rest, b[i].key = k PROVE Lookup(b, k) = b[i].value
  <2>1. \A j \in 1..Len(b) : b[j].key = k => j = i \/ (j = h /\ i = h - 1)
    <3>1. b[h].key = k => h - 1 \in rest /\ b[h - 1].key = k
      BY <1>0
    <3>2. b[h].key = k => i = h - 1
      BY <1>0, <1>1, <3>1
    <3> QED
      BY <1>0, <1>1, <3>2
  <2>2. \A j \in 1..i - 1 : b[j].key # k
    BY <1>0, <2>1
  <2>3. \A n \in 1..Len(b) : b[n].key = k /\ (\A j \in 1..n - 1 : b[j].key # k) => n = i
    BY <1>0, <1>1, <2>1
  <2>4. (CHOOSE n \in 1..Len(b) : b[n].key = k /\ \A j \in 1..n - 1 : b[j].key # k) = i
    BY <1>1, <2>2, <2>3
  <2>5. FindObject(b, k) = i
    BY <1>1, <2>4 DEF FindObject
  <2>6. i # 0
    OBVIOUS
  <2> QED
    BY <2>5, <2>6 DEF Lookup
<1>2. ASSUME \A i \in rest : b[i].key # k PROVE Lookup(b, k) = Absent
  <2>1. h > 1 => h - 1 \in rest
    BY <1>0
  <2>2. b[h].key # k
    BY <1>0, <1>2, <2>1
  <2>3. \A i \in 1..Len(b) : b[i].key # k
    BY <1>2, <2>2
  <2> QED
    BY <2>3 DEF Lookup, FindObject
<1> QED
  BY <1>1, <1>2 DEF h

\* The same as a state formula, for the state after a step.
HoleView ==
  \A c \in Clients : \A k : TypeOK /\ HolePlace(c) /\ k # call[c].key =>
    /\ \A i \in 1..Len(m_flash_buffer) \ {object[c].index} :
         m_flash_buffer[i].key = k => Lookup(m_flash_buffer, k) = m_flash_buffer[i].value
    /\ (\A i \in 1..Len(m_flash_buffer) \ {object[c].index} : m_flash_buffer[i].key # k) =>
         Lookup(m_flash_buffer, k) = Absent

LEMMA HasHoleView == HoleView
BY LookupHole DEF HoleView

\* The dictionary in a payload in order.
LEMMA MapOfType ==
  ASSUME NEW objects \in Seq(Objects), UniqueKeys(objects)
  PROVE  MapOf(objects) \in [Keys -> Values \cup {Absent, Partial}]
<1>1. ASSUME NEW k \in Keys PROVE Lookup(objects, k) \in Values \cup {Absent, Partial}
  <2>1. \A i \in 1..Len(objects) : objects[i].value \in Values \cup {Absent, Partial}
    <3>1. \A i \in 1..Len(objects) : objects[i] \in Objects
      BY ElementOfSeq
    <3> QED
      BY <3>1 DEF Objects
  <2> QED
    BY <2>1, LookupUnique
<1> QED
  BY <1>1 DEF MapOf

LEMMA EmptyMap == MapOf(<<>>) = Map!Empty
<1>1. \A k \in Keys : Lookup(<<>>, k) = Absent
  BY DEF Lookup, FindObject
<1> QED
  BY <1>1 DEF MapOf, Map!Empty

\* A flush that is under way has a dictionary.
LEMMA FlushingMap ==
  ASSUME IInv, submitted # NoPayload
  PROVE  Flushing # NoPayload
<1>1. CASE submitted = Damaged
  BY <1>1, PayloadAssumption DEF Flushing
<1>2. CASE submitted # Damaged
  <2>1. submitted \in Payloads /\ UniqueKeys(submitted.objects)
    BY <1>2 DEF IInv, TypeOK, Invariant, Snapshots
  <2>2. submitted.objects \in Seq(Objects)
    BY <2>1 DEF Payloads
  <2>3. MapOf(submitted.objects) # NoPayload
    BY <2>1, <2>2, MapOfType, PayloadAssumption
  <2> QED
    BY <1>2, <2>3 DEF Flushing
<1> QED
  BY <1>1, <1>2

\* Once it is stored, a start loads it.
LEMMA FlushedIsDurable ==
  ASSUME submitted # NoPayload, stored' = submitted
  PROVE  Durable' = Flushing
BY DEF Durable, Flushing

LEMMA NothingStored ==
  /\ stored = NoPayload => Durable = Map!Empty
  /\ stored' = NoPayload => Durable' = Map!Empty
BY EmptyMap, PayloadAssumption DEF Durable

\* While the buffer stays and no change starts or ends, so does the dictionary.
LEMMA ContentsKept ==
  ASSUME View, View', Running, Running', m_flash_buffer' = m_flash_buffer,
         \A d \in Clients :
           \/ pc'[d] = pc[d] /\ call'[d] = call[d]
           \/ pc[d] \notin {"copy", "append", "shift"} /\ pc'[d] \notin {"copy", "append", "shift"}
  PROVE  Contents' = Contents
<1>1. CASE \A d \in Clients : pc[d] \notin {"copy", "append", "shift"}
  <2>1. Contents = MapOf(m_flash_buffer)
    BY <1>1 DEF View
  <2>2. \A d \in Clients : pc'[d] \notin {"copy", "append", "shift"}
    BY <1>1
  <2>3. Contents' = MapOf(m_flash_buffer')
    BY <2>2 DEF View
  <2> QED
    BY <2>1, <2>3
<1>2. CASE \E d \in Clients : pc[d] \in {"copy", "append"}
  <2>1. PICK d \in Clients : pc[d] \in {"copy", "append"}
    BY <1>2
  <2>2. pc'[d] = pc[d] /\ call'[d] = call[d]
    BY <2>1
  <2>3. Contents = [MapOf(m_flash_buffer) EXCEPT ![call[d].key] = call[d].value]
    BY <2>1 DEF View
  <2>4. Contents' = [MapOf(m_flash_buffer') EXCEPT ![call'[d].key] = call'[d].value]
    BY <2>1, <2>2 DEF View
  <2> QED
    BY <2>2, <2>3, <2>4
<1>3. CASE \E d \in Clients : pc[d] = "shift"
  <2>1. PICK d \in Clients : pc[d] = "shift"
    BY <1>3
  <2>2. pc'[d] = pc[d] /\ call'[d] = call[d]
    BY <2>1
  <2>3. Contents = [MapOf(m_flash_buffer) EXCEPT ![call[d].key] = Absent]
    BY <2>1 DEF View
  <2>4. Contents' = [MapOf(m_flash_buffer') EXCEPT ![call'[d].key] = Absent]
    BY <2>1, <2>2 DEF View
  <2> QED
    BY <2>2, <2>3, <2>4
<1> QED
  BY <1>1, <1>2, <1>3

\* A client that finds its way to the buffer finds the plain dictionary.
LEMMA ViewQuiet ==
  ASSUME TypeOK, Invariant, View, NEW c \in Clients, ClientStep(c), Working(c),
         pc[c] \notin {"copy", "append", "shift"}
  PROVE  Contents = MapOf(m_flash_buffer)
<1>1. Running
  BY OthersStay DEF Invariant, Places
<1>2. \A d \in Clients : pc[d] \notin {"copy", "append", "shift"}
  BY Alone DEF Invariant, Working
<1> QED
  BY <1>1, <1>2 DEF View

\* Both ways a write starts: from now on its value is the one of the key.
LEMMA StartWrite ==
  ASSUME IInv, IInv', NEW c \in Clients, WriteExisting(c) \/ WriteNew(c)
  PROVE  Contents # Damaged /\ \E k \in Keys, v \in Values : Contents' = [Contents EXCEPT ![k] = v]
<1> DEFINE b == m_flash_buffer
           key == call[c].key
           value == call[c].value
           i == Found(c)
<1>0. TypeOK /\ Invariant /\ View /\ View'
  <2>1. View'
    BY HasView, PTL
  <2> QED
    BY <2>1, HasView DEF IInv
<1>1. ClientStep(c) /\ pc[c] = "Write" /\ Working(c) /\ Running /\ task' = task
  <2>1. ClientStep(c) /\ pc[c] = "Write"
    BY DEF ClientStep, WriteExisting, WriteNew
  <2> QED
    BY <1>0, <2>1, OthersStay DEF Invariant, Places, Working
<1>2. Contents = MapOf(b)
  BY <1>0, <1>1, ViewQuiet
<1>3. pc'[c] \in {"copy", "append"} /\ call' = call
  BY <1>0 DEF WriteExisting, WriteNew, TypeOK
<1>4. Contents' = [MapOf(b') EXCEPT ![key] = value]
  BY <1>0, <1>1, <1>3 DEF View
<1>5. b \in Seq(Objects) /\ Len(b) \in Nat /\ UniqueKeys(b)
  BY <1>0, <1>1, InOrder DEF Invariant, Operations, TypeOK
<1>6. b' \in Seq(Objects) /\ UniqueKeys(b')
  <2>1. TypeOK' /\ Buffer'
    BY DEF IInv, Invariant
  <2>2. \A d \in Clients \ {c} : pc'[d] # "shift"
    BY <1>0, <1>1, Alone, OthersStay DEF Invariant, Working
  <2> QED
    BY <1>3, <2>1, <2>2 DEF TypeOK, Buffer
<1>7. ASSUME NEW k \in Keys, k # key PROVE Lookup(b', k) = Lookup(b, k)
  <2>1. CASE WriteExisting(c)
    <3>1. b' = [b EXCEPT ![i].value = Partial] /\ i \in 1..Len(b) /\ b[i].key = key
      BY <1>5, <2>1, FindUnique DEF WriteExisting, Found
    <3> HIDE DEF i
    <3>2. /\ Len(b') = Len(b)
          /\ \A j \in 1..Len(b) : j # i => b'[j] = b[j]
          /\ \A j \in 1..Len(b) : b'[j].key = b[j].key
      BY <1>5, <3>1, ExceptObject
    <3>3. CASE \E j \in 1..Len(b) : b[j].key = k
      <4>1. PICK j \in 1..Len(b) : b[j].key = k
        BY <3>3
      <4>2. j \in 1..Len(b') /\ b'[j].key = k /\ b'[j].value = b[j].value
        BY <1>7, <3>1, <3>2, <4>1
      <4>3. Lookup(b, k) = b[j].value
        BY <1>5, <4>1, LookupUnique
      <4>4. Lookup(b', k) = b'[j].value
        BY <1>6, <4>2, LookupUnique
      <4> QED
        BY <4>2, <4>3, <4>4
    <3>4. CASE \A j \in 1..Len(b) : b[j].key # k
      <4>1. \A j \in 1..Len(b') : b'[j].key # k
        BY <3>2, <3>4
      <4> QED
        BY <1>5, <1>6, <3>4, <4>1, LookupUnique
    <3> QED
      BY <3>3, <3>4
  <2>2. CASE WriteNew(c)
    <3> DEFINE n == [key |-> key, size |-> ValueSize[value], value |-> Partial]
    <3>1. n \in Objects /\ n.key = key
      <4>1. key \in Keys /\ value \in Values
        BY <1>0, <1>1 DEF Invariant, Calls, Operations
      <4> QED
        BY <1>0, <4>1, NumberTypes DEF Objects
    <3>2. b' = Append(b, n)
      BY <2>2 DEF WriteNew
    <3> HIDE DEF n
    <3>3. /\ Len(b') = Len(b) + 1
          /\ \A j \in 1..Len(b) : b'[j] = b[j]
          /\ b'[Len(b) + 1] = n
      BY <1>5, <3>1, <3>2, AppendProperties
    <3>4. CASE \E j \in 1..Len(b) : b[j].key = k
      <4>1. PICK j \in 1..Len(b) : b[j].key = k
        BY <3>4
      <4>2. j \in 1..Len(b') /\ b'[j] = b[j]
        BY <1>5, <3>3, <4>1
      <4>3. Lookup(b, k) = b[j].value
        BY <1>5, <4>1, LookupUnique
      <4>4. Lookup(b', k) = b'[j].value
        BY <1>6, <4>1, <4>2, LookupUnique
      <4> QED
        BY <4>2, <4>3, <4>4
    <3>5. CASE \A j \in 1..Len(b) : b[j].key # k
      <4>1. \A j \in 1..Len(b') : b'[j].key # k
        BY <1>5, <1>7, <3>1, <3>3, <3>5
      <4> QED
        BY <1>5, <1>6, <3>5, <4>1, LookupUnique
    <3> QED
      BY <3>4, <3>5
  <2> QED
    BY <2>1, <2>2
<1>8. key \in Keys /\ value \in Values
  BY <1>0, <1>1 DEF Invariant, Calls, Operations
<1> HIDE DEF key, value
<1>9. [MapOf(b') EXCEPT ![key] = value] = [MapOf(b) EXCEPT ![key] = value]
  BY <1>7 DEF MapOf
<1>10. Contents # Damaged
  BY <1>2, <1>5, MapOfType, PayloadAssumption
<1> QED
  BY <1>2, <1>4, <1>8, <1>9, <1>10

\* The end of the copy is no change.
LEMMA EndWrite ==
  ASSUME IInv, IInv', NEW c \in Clients, CopyValue(c)
  PROVE  Contents' = Contents
<1> DEFINE b == m_flash_buffer
           i == object[c].index
           key == call[c].key
           value == call[c].value
<1>0. TypeOK /\ Invariant /\ View /\ View' /\ TypeOK' /\ Buffer'
  <2>1. View'
    BY HasView, PTL
  <2> QED
    BY <2>1, HasView DEF IInv, Invariant
<1>1. ClientStep(c) /\ pc[c] \in {"copy", "append"} /\ Working(c)
  BY DEF ClientStep, CopyValue, Working
<1>2. Running /\ task' = task /\ \A d \in Clients \ {c} : ~Working(d) /\ pc'[d] = pc[d]
  BY <1>0, <1>1, OthersStay, Alone DEF Invariant, Places
<1>3. pc'[c] = "dirty"
  BY <1>0 DEF CopyValue, TypeOK
<1>4. \A d \in Clients : pc'[d] \notin {"copy", "append", "shift"}
  BY <1>2, <1>3 DEF Working
<1>5. Contents' = MapOf(b')
  BY <1>0, <1>2, <1>4 DEF View
<1>6. Contents = [MapOf(b) EXCEPT ![key] = value]
  BY <1>0, <1>1, <1>2 DEF View
<1>7. b \in Seq(Objects) /\ UniqueKeys(b) /\ b' \in Seq(Objects) /\ UniqueKeys(b')
  BY <1>0, <1>1, <1>2, <1>4 DEF Invariant, Buffer, TypeOK, Working
<1>8. i \in 1..Len(b) /\ b[i].key = key /\ value \in Values /\ b' = [b EXCEPT ![i].value = value]
  BY <1>0, <1>1 DEF Invariant, Calls, Buffer, CopyPlace, CopyValue
<1> HIDE DEF i, key, value
<1>9. /\ Len(b') = Len(b)
      /\ \A j \in 1..Len(b) : j # i => b'[j] = b[j]
      /\ b'[i].value = value
      /\ \A j \in 1..Len(b) : b'[j].key = b[j].key
  BY <1>7, <1>8, ExceptObject
<1>10. Lookup(b', key) = value
  <2>1. i \in 1..Len(b') /\ b'[i].key = key /\ b'[i].value = value
    BY <1>8, <1>9
  <2> QED
    BY <1>7, <2>1, LookupUnique
<1>11. ASSUME NEW k \in Keys, k # key PROVE Lookup(b', k) = Lookup(b, k)
  <2>1. CASE \E j \in 1..Len(b) : b[j].key = k
    <3>1. PICK j \in 1..Len(b) : b[j].key = k
      BY <2>1
    <3>2. j \in 1..Len(b') /\ b'[j].key = k /\ b'[j].value = b[j].value
      BY <1>8, <1>9, <1>11, <3>1
    <3>3. Lookup(b, k) = b[j].value
      BY <1>7, <3>1, LookupUnique
    <3>4. Lookup(b', k) = b'[j].value
      BY <1>7, <3>2, LookupUnique
    <3> QED
      BY <3>2, <3>3, <3>4
  <2>2. CASE \A j \in 1..Len(b) : b[j].key # k
    <3>1. \A j \in 1..Len(b') : b'[j].key # k
      BY <1>9, <2>2
    <3> QED
      BY <1>7, <2>2, <3>1, LookupUnique
  <2> QED
    BY <2>1, <2>2
<1>12. [MapOf(b) EXCEPT ![key] = value] = MapOf(b')
  BY <1>10, <1>11 DEF MapOf
<1> QED
  BY <1>5, <1>6, <1>12

\* Delete finds its object, which is gone from now on.
LEMMA StartDelete ==
  ASSUME IInv, IInv', NEW c \in Clients, DeleteFind(c)
  PROVE  \/ Contents' = Contents
         \/ Contents # Damaged /\ \E k \in Keys : Contents' = [Contents EXCEPT ![k] = Absent]
<1>0. TypeOK /\ Invariant /\ View /\ View'
  <2>1. View'
    BY HasView, PTL
  <2> QED
    BY <2>1, HasView DEF IInv
<1>1. ClientStep(c) /\ pc[c] = "Delete" /\ Working(c) /\ Running /\ task' = task
  <2>1. ClientStep(c) /\ pc[c] = "Delete"
    BY DEF ClientStep, DeleteFind
  <2> QED
    BY <1>0, <2>1, OthersStay DEF Invariant, Places, Working
<1>2. Contents = MapOf(m_flash_buffer)
  BY <1>0, <1>1, ViewQuiet
<1>3. m_flash_buffer' = m_flash_buffer /\ call' = call
  BY DEF DeleteFind, bufferVars
<1>4. call[c].key \in Keys
  BY <1>0, <1>1 DEF Invariant, Calls
<1>5. CASE Found(c) = 0
  <2>1. pc'[c] = "unlock"
    BY <1>0, <1>5 DEF DeleteFind, TypeOK
  <2>2. \A d \in Clients \ {c} : pc'[d] = pc[d] /\ call'[d] = call[d]
    BY <1>0, <1>1, OthersStay
  <2> QED
    BY <1>0, <1>1, <1>3, <2>1, <2>2, ContentsKept
<1>6. CASE Found(c) # 0
  <2>1. pc'[c] = "shift"
    BY <1>0, <1>6 DEF DeleteFind, TypeOK
  <2>2. Contents' = [MapOf(m_flash_buffer') EXCEPT ![call'[c].key] = Absent]
    BY <1>0, <1>1, <2>1 DEF View
  <2>3. Contents # Damaged
    <3>1. m_flash_buffer \in Seq(Objects) /\ UniqueKeys(m_flash_buffer)
      BY <1>0, <1>1, InOrder DEF Invariant, Operations, TypeOK
    <3> QED
      BY <1>2, <3>1, MapOfType, PayloadAssumption
  <2> QED
    BY <1>2, <1>3, <1>4, <2>2, <2>3
<1> QED
  BY <1>5, <1>6

\* Moving an object into the hole is no change.
LEMMA ShiftDelete ==
  ASSUME IInv, IInv', NEW c \in Clients, DeleteShift(c)
  PROVE  Contents' = Contents
<1> DEFINE b == m_flash_buffer
           h == object[c].index
           key == call[c].key
<1>0. TypeOK /\ Invariant /\ View /\ View' /\ TypeOK' /\ Buffer'
  <2>1. View'
    BY HasView, PTL
  <2> QED
    BY <2>1, HasView DEF IInv, Invariant
<1>1. ClientStep(c) /\ pc[c] = "shift" /\ Running /\ task' = task
  <2>1. ClientStep(c) /\ pc[c] = "shift"
    BY DEF ClientStep, DeleteShift
  <2> QED
    BY <1>0, <2>1, OthersStay DEF Invariant, Places
<1>2. pc'[c] = "shift" /\ call' = call /\ object'[c].index = h + 1
  BY <1>0, <1>1 DEF DeleteShift, TypeOK
<1>3. HolePlace(c) /\ HolePlace(c)'
  BY <1>0, <1>1, <1>2 DEF Invariant, Buffer
<1>4. Contents = [MapOf(b) EXCEPT ![key] = Absent] /\ Contents' = [MapOf(b') EXCEPT ![key] = Absent]
  BY <1>0, <1>1, <1>2 DEF View
<1>5. h \in 1..Len(b) /\ h < Len(b) /\ Len(b) \in Nat /\ b \in Seq(Objects) /\ b' = [b EXCEPT ![h] = b[h + 1]]
  BY <1>0, <1>3 DEF DeleteShift, HolePlace, TypeOK
<1>6. Len(b') = Len(b) /\ \A j \in 1..Len(b) : b'[j] = IF j = h THEN b[h + 1] ELSE b[j]
  <2>1. b[h + 1] \in Objects
    BY <1>5, ElementOfSeq
  <2> QED
    BY <1>5, <2>1, ExceptSeq
<1>7. ASSUME NEW k \in Keys, k # key PROVE Lookup(b', k) = Lookup(b, k)
  <2> DEFINE rest == 1..Len(b) \ {h}
             next == 1..Len(b') \ {h + 1}
  <2>1. /\ \A i \in rest : b[i].key = k => Lookup(b, k) = b[i].value
        /\ (\A i \in rest : b[i].key # k) => Lookup(b, k) = Absent
    BY <1>0, <1>3, <1>7, LookupHole
  <2>2. /\ \A i \in next : b'[i].key = k => Lookup(b', k) = b'[i].value
        /\ (\A i \in next : b'[i].key # k) => Lookup(b', k) = Absent
    <3>1. HoleView'
      BY HasHoleView, PTL
    <3> QED
      BY <1>0, <1>2, <1>3, <1>7, <3>1 DEF HoleView
  <2> HIDE DEF h
  <2>3. ASSUME NEW i \in rest PROVE \E j \in next : b'[j] = b[i]
    <3>1. CASE i = h + 1
      BY <1>5, <1>6, <3>1
    <3>2. CASE i # h + 1
      BY <1>5, <1>6, <3>2
    <3> QED
      BY <3>1, <3>2
  <2>4. ASSUME NEW j \in next PROVE \E i \in rest : b'[j] = b[i]
    <3>1. CASE j = h
      BY <1>5, <1>6, <3>1
    <3>2. CASE j # h
      BY <1>5, <1>6, <3>2
    <3> QED
      BY <3>1, <3>2
  <2> HIDE DEF rest, next
  <2> QED
    BY <2>1, <2>2, <2>3, <2>4
<1> HIDE DEF key
<1>8. [MapOf(b') EXCEPT ![key] = Absent] = [MapOf(b) EXCEPT ![key] = Absent]
  BY <1>7 DEF MapOf
<1> QED
  BY <1>4, <1>8

\* Nor is cutting the hole off.
LEMMA EndDelete ==
  ASSUME IInv, IInv', NEW c \in Clients, DeleteEnd(c)
  PROVE  Contents' = Contents
<1> DEFINE b == m_flash_buffer
           h == object[c].index
           key == call[c].key
<1>0. TypeOK /\ Invariant /\ View /\ View' /\ TypeOK' /\ Buffer'
  <2>1. View'
    BY HasView, PTL
  <2> QED
    BY <2>1, HasView DEF IInv, Invariant
<1>1. ClientStep(c) /\ pc[c] = "shift" /\ Working(c)
  BY DEF ClientStep, DeleteEnd, Working
<1>2. Running /\ task' = task /\ \A d \in Clients \ {c} : ~Working(d) /\ pc'[d] = pc[d]
  BY <1>0, <1>1, OthersStay, Alone DEF Invariant, Places
<1>3. pc'[c] = "unlock"
  BY <1>0 DEF DeleteEnd, TypeOK
<1>4. \A d \in Clients : pc'[d] \notin {"copy", "append", "shift"}
  BY <1>2, <1>3 DEF Working
<1>5. Contents' = MapOf(b') /\ Contents = [MapOf(b) EXCEPT ![key] = Absent]
  BY <1>0, <1>1, <1>2, <1>4 DEF View
<1>6. HolePlace(c) /\ b' \in Seq(Objects) /\ UniqueKeys(b')
  BY <1>0, <1>1, <1>4 DEF Invariant, Buffer, TypeOK
<1>7. h = Len(b) /\ Len(b) \in Nat /\ Len(b) >= 1 /\ b \in Seq(Objects) /\ b' = SubSeq(b, 1, Len(b) - 1)
  BY <1>0, <1>6 DEF DeleteEnd, HolePlace, TypeOK
<1>8. Len(b') = Len(b) - 1 /\ \A i \in 1..Len(b) - 1 : b'[i] = b[i]
  BY <1>7, CutLast
<1>9. 1..Len(b) \ {h} = 1..Len(b')
  BY <1>7, <1>8
<1>10. Lookup(b', key) = Absent
  <2>1. \A i \in 1..Len(b') : b'[i].key # key
    BY <1>6, <1>7, <1>8, <1>9 DEF HolePlace
  <2> QED
    BY <1>6, <2>1, LookupUnique
<1>11. ASSUME NEW k \in Keys, k # key PROVE Lookup(b', k) = Lookup(b, k)
  <2>1. /\ \A i \in 1..Len(b') : b[i].key = k => Lookup(b, k) = b[i].value
        /\ (\A i \in 1..Len(b') : b[i].key # k) => Lookup(b, k) = Absent
    BY <1>0, <1>6, <1>9, <1>11, LookupHole
  <2>2. \A i \in 1..Len(b') : b'[i] = b[i]
    BY <1>8
  <2>3. /\ \A i \in 1..Len(b') : b'[i].key = k => Lookup(b', k) = b'[i].value
        /\ (\A i \in 1..Len(b') : b'[i].key # k) => Lookup(b', k) = Absent
    BY <1>6, LookupUnique
  <2> QED
    BY <2>1, <2>2, <2>3
<1> HIDE DEF key
<1>12. MapOf(b') = [MapOf(b) EXCEPT ![key] = Absent]
  BY <1>10, <1>11 DEF MapOf
<1> QED
  BY <1>5, <1>12

\* A step of a client is a Put, a Remove or nothing.
LEMMA ClientMap ==
  ASSUME IInv, IInv', NEW c \in Clients, ClientStep(c)
  PROVE  [Map!Next]_(Map!vars)
<1>0. TypeOK /\ Invariant /\ View /\ View'
  <2>1. View'
    BY HasView, PTL
  <2> QED
    BY <2>1, HasView DEF IInv
<1>1. Running /\ task' = task /\ stored' = stored /\ submitted' = submitted
  BY <1>0, OthersStay DEF Invariant, Places, flashVars
<1>2. Flushing' = Flushing /\ Durable' = Durable
  BY <1>1 DEF Flushing, Durable
<1>3. ASSUME NEW k \in Keys, NEW v \in Values, Contents # Damaged, Contents' = [Contents EXCEPT ![k] = v]
      PROVE  Map!Next
  BY <1>2, <1>3 DEF Map!Next, Map!Put
<1>4. ASSUME NEW k \in Keys, Contents # Damaged, Contents' = [Contents EXCEPT ![k] = Absent]
      PROVE  Map!Next
  BY <1>2, <1>4 DEF Map!Next, Map!Remove
<1>5. Contents' = Contents => UNCHANGED Map!vars
  BY <1>2 DEF Map!vars
<1>6. CASE Lock(c) \/ Unlock(c) \/ WriteOtherSize(c) \/ WriteNoSpace(c) \/ NeedUpdateFlash(c) \/ Read(c) \/ IsExist(c)
  <2>1. m_flash_buffer' = m_flash_buffer
    BY <1>6 DEF Lock, Unlock, WriteOtherSize, WriteNoSpace, NeedUpdateFlash, Read, IsExist, bufferVars
  <2>2. pc[c] \notin {"copy", "append", "shift"}
    BY <1>6 DEF Lock, Unlock, WriteOtherSize, WriteNoSpace, NeedUpdateFlash, Read, IsExist
  <2>3. Lock(c) => pc'[c] \in Operations
    BY <1>0 DEF Lock, Invariant, Calls, TypeOK
  <2>4. pc'[c] \notin {"copy", "append", "shift"}
    BY <1>0, <1>6, <2>3 DEF Unlock, WriteOtherSize, WriteNoSpace, Return, NeedUpdateFlash, Read, IsExist, TypeOK, Operations
  <2>5. Contents' = Contents
    BY <1>0, <1>1, <2>1, <2>2, <2>4, OthersStay, ContentsKept
  <2> QED
    BY <1>5, <2>5
<1>7. CASE WriteExisting(c) \/ WriteNew(c)
  BY <1>3, <1>7, StartWrite
<1>8. CASE CopyValue(c)
  BY <1>5, <1>8, EndWrite
<1>9. CASE DeleteFind(c)
  BY <1>4, <1>5, <1>9, StartDelete
<1>10. CASE DeleteShift(c) \/ DeleteEnd(c)
  BY <1>5, <1>10, ShiftDelete, EndDelete
<1> QED
  BY <1>6, <1>7, <1>8, <1>9, <1>10 DEF ClientStep

\* Power fails: the contents are what the flash holds, or nothing.
LEMMA PowerMap ==
  ASSUME IInv, PowerFailure
  PROVE  Map!Next
<1>1. Contents' = Durable'
  BY DEF PowerFailure, RamLost, Contents
<1>2. Flushing' = NoPayload
  BY DEF PowerFailure, RamLost, Flushing, Flash!Abandon, Flash!Lose
<1>3. CASE Flash!Abandon
  <2>1. Durable' = Durable
    BY <1>3 DEF Flash!Abandon, Durable
  <2> QED
    BY <1>1, <1>2, <2>1 DEF Map!Next, Map!PowerFailure
<1>4. CASE Flash!Lose
  <2>1. Flushing # NoPayload
    BY <1>4, FlushingMap DEF Flash!Lose
  <2>2. Durable' = Map!Empty
    BY <1>4, NothingStored DEF Flash!Lose
  <2> QED
    BY <1>1, <1>2, <2>1, <2>2 DEF Map!Next, Map!PowerFailure
<1> QED
  BY <1>3, <1>4 DEF PowerFailure, RamLost

\* Every step of the registry is a step of the dictionary, or none.
LEMMA StepMap == IInv /\ IInv' /\ [Next]_vars => [Map!Next]_(Map!vars)
<1> SUFFICES ASSUME IInv, IInv', [Next]_vars PROVE [Map!Next]_(Map!vars)
  OBVIOUS
<1>0. TypeOK /\ Invariant /\ View /\ View'
  <2>1. View'
    BY HasView, PTL
  <2> QED
    BY <2>1, HasView DEF IInv
\* Steps that change nothing the dictionary shows.
<1>1. ASSUME Running, Running', UNCHANGED <<pc, call, m_flash_buffer>> PROVE Contents' = Contents
  BY <1>0, <1>1, ContentsKept
<1>2. stored' = stored => Durable' = Durable
  BY DEF Durable
<1>3. submitted' = submitted => Flushing' = Flushing
  BY DEF Flushing
<1>4. ASSUME NEW c \in Clients, NEW op, NEW k, NEW v, Call(c, op, k, v) PROVE UNCHANGED Map!vars
  <2>1. Running /\ task' = task /\ UNCHANGED <<m_flash_buffer, stored, submitted>>
    BY <1>0, <1>4 DEF Call, Invariant, Places, bufferVars, flashVars
  <2>2. \A d \in Clients :
           \/ pc'[d] = pc[d] /\ call'[d] = call[d]
           \/ pc[d] \notin {"copy", "append", "shift"} /\ pc'[d] \notin {"copy", "append", "shift"}
    BY <1>0, <1>4 DEF Call, TypeOK
  <2>3. Contents' = Contents
    BY <1>0, <2>1, <2>2, ContentsKept
  <2> QED
    BY <1>2, <1>3, <2>1, <2>3 DEF Map!vars
<1>5. CASE Pull \/ CheckFlag \/ LockForFlush \/ UnlockAfterWrite \/ TimerExpired \/ StartTask
  <2>1. Running /\ Running' /\ UNCHANGED <<pc, call, m_flash_buffer, stored, submitted>>
    BY <1>5 DEF Pull, CheckFlag, LockForFlush, UnlockAfterWrite, TimerExpired, StartTask, clientVars, callVars,
       bufferVars, flashVars
  <2> QED
    BY <1>1, <1>2, <1>3, <2>1 DEF Map!vars
<1>6. CASE WriteSnapshot
  <2>1. \A c \in Clients : ~Working(c)
    BY <1>0, <1>6, RegistryAssumption DEF WriteSnapshot, Invariant, Exclusive
  <2>2. Contents = MapOf(m_flash_buffer)
    BY <1>0, <1>6, <2>1 DEF View, WriteSnapshot, Working
  <2>3. Contents' = Contents /\ Durable' = Durable
    BY <1>1, <1>2, <1>6 DEF WriteSnapshot, Flash!Submit, clientVars, callVars
  <2>4. Flushing = NoPayload
    BY <1>6 DEF WriteSnapshot, Flash!Submit, Flushing
  <2>5. submitted' = Image
    BY <1>6 DEF WriteSnapshot, Flash!Submit
  <2>7. Flushing' = IF m_flash_buffer_size <= MaxFlashSize THEN Contents ELSE Damaged
    <3>1. CASE m_flash_buffer_size <= MaxFlashSize
      <4>1. submitted' = Snapshot /\ submitted'.objects = m_flash_buffer
        BY <2>5, <3>1 DEF Image, Snapshot
      <4>2. Snapshot \in Payloads
        BY <1>0 DEF TypeOK, Payloads, Snapshot
      <4> QED
        BY <2>2, <3>1, <4>1, <4>2, PayloadAssumption DEF Flushing
    <3>2. CASE ~(m_flash_buffer_size <= MaxFlashSize)
      BY <2>5, <3>2 DEF Image, Flushing
    <3> QED
      BY <3>1, <3>2
  <2> QED
    BY <2>3, <2>4, <2>7 DEF Map!Next, Map!BeginFlush
<1>7. CASE WriteToFlash
  <2>1. Contents' = Contents
    BY <1>1, <1>7 DEF WriteToFlash, clientVars, callVars, bufferVars
  <2>2. submitted # NoPayload /\ stored' = submitted /\ submitted' = NoPayload
    BY <1>7 DEF WriteToFlash, Flash!Commit
  <2>3. Flushing # NoPayload
    BY <2>2, FlushingMap
  <2>4. Durable' = Flushing /\ Flushing' = NoPayload
    BY <2>2, FlushedIsDurable DEF Flushing
  <2> QED
    BY <2>1, <2>3, <2>4 DEF Map!Next, Map!EndFlush
<1>8. CASE WriteToFlashFails
  <2>1. Contents' = Contents
    BY <1>1, <1>8 DEF WriteToFlashFails, clientVars, callVars, bufferVars
  <2>2. submitted # NoPayload
    BY <1>0, <1>8 DEF WriteToFlashFails, Invariant, Places
  <2>3. Flushing # NoPayload
    BY <2>2, FlushingMap
  <2>4. Flushing' = NoPayload
    BY <1>8 DEF WriteToFlashFails, Flash!Abandon, Flash!CommitUnnoticed, Flushing
  <2>5. CASE Flash!Abandon
    BY <1>2, <2>1, <2>3, <2>4, <2>5 DEF Flash!Abandon, Map!Next, Map!FailFlush
  <2>6. CASE Flash!CommitUnnoticed
    <3>1. Durable' = Flushing
      BY <2>6, FlushedIsDurable DEF Flash!CommitUnnoticed
    <3> QED
      BY <2>1, <2>3, <2>4, <3>1 DEF Map!Next, Map!EndFlush
  <2> QED
    BY <1>8, <2>5, <2>6 DEF WriteToFlashFails
<1>9. CASE EraseInWrite
  <2>1. Contents' = Contents /\ Flushing' = Flushing
    BY <1>1, <1>3, <1>9 DEF EraseInWrite, clientVars, callVars, bufferVars
  <2>2. Flushing # NoPayload
    BY <1>9, FlushingMap DEF EraseInWrite, Flash!Lose
  <2>3. Durable' = Map!Empty
    BY <1>9, NothingStored DEF EraseInWrite, Flash!Lose
  <2> QED
    BY <2>1, <2>2, <2>3 DEF Map!Next, Map!LoseDurable
<1>10. CASE Boot
  <2>1. UNCHANGED <<stored, submitted>> /\ ~Running
    BY <1>10 DEF Boot, Load, LoadDamaged, flashVars
  <2>2. CASE stored = Damaged
    <3>1. ~Running'
      BY <1>10, <2>2 DEF Boot, LoadDamaged
    <3>2. Contents' = Contents
      BY <1>2, <2>1, <3>1 DEF Contents
    <3> QED
      BY <1>2, <1>3, <2>1, <3>2 DEF Map!vars
  <2>3. CASE stored # Damaged
    <3>1. Running' /\ pc' = [c \in Clients |-> "idle"]
      BY <1>10, <2>3 DEF Boot, Load
    <3>2. Contents' = MapOf(m_flash_buffer')
      BY <1>0, <3>1 DEF View
    <3>3. m_flash_buffer' = IF stored = NoPayload THEN <<>> ELSE stored.objects
      BY <1>10, <2>3 DEF Boot, Load, EmptyPayload
    <3>4. Contents = Durable /\ MapOf(m_flash_buffer') = Durable
      BY <2>1, <2>3, <3>3 DEF Contents, Durable
    <3> QED
      BY <1>2, <1>3, <2>1, <3>2, <3>4 DEF Map!vars
  <2> QED
    BY <2>2, <2>3
<1>11. CASE UNCHANGED vars
  <2>1. Contents' = Contents /\ Durable' = Durable /\ Flushing' = Flushing
    BY <1>11 DEF vars, clientVars, callVars, bufferVars, flashVars, Contents, Durable, Flushing
  <2> QED
    BY <2>1 DEF Map!vars
<1> QED
  BY <1>4, <1>5, <1>6, <1>7, <1>8, <1>9, <1>10, <1>11, ClientMap, PowerMap DEF Next, TaskStep

LEMMA InitMap == Init => Map!Init
<1> SUFFICES ASSUME Init PROVE Map!Init
  OBVIOUS
<1>1. Durable = Map!Empty
  BY NothingStored DEF Init, Flash!Init
<1>2. Contents = Durable
  BY DEF Init, Contents
<1>3. Flushing = NoPayload
  BY DEF Init, Flash!Init, Flushing
<1> QED
  BY <1>1, <1>2, <1>3 DEF Map!Init

\* The registry is a dictionary with atomic operations, of which a flush saves one
\* instant and a power failure brings back the last that was saved: whatever calls,
\* flushes and power failures interleave, and with any number of tasks.
THEOREM RegistryIsMap == Spec => MapSpec
BY InitMap, StepMap, Always, PTL DEF Spec, MapSpec, Map!Spec
==============================================================================
