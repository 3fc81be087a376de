--------------------------- MODULE InternalRegistry ---------------------------
(***************************************************************************)
(* The internal registry: a dictionary that any task may read and write,   *)
(* kept as a sequence of objects in a RAM buffer under m_mutex, and a task *)
(* of its own that a timer wakes up to save the buffer when it changed.    *)
(*                                                                         *)
(* The flash below it is the DurableRegister that FlashManagment           *)
(* implements.  An object is copied in two steps, so that a thread that    *)
(* looks at the buffer in the middle of a memcpy sees the value Partial.   *)
(***************************************************************************)
EXTENDS Integers, Sequences

CONSTANTS
  Clients,       \* the tasks that use the registry
  Registry,      \* the task of the registry
  Nobody,        \* no thread
  Keys,          \* names of objects
  Values,        \* values a client may write
  Partial,       \* a value that is only partly copied
  Absent,        \* no value
  NameSize,      \* bytes of a name, a function on Keys
  ValueSize,     \* bytes of a value, a function on Values
  MaxFlashSize,  \* GetMaxFlashSize
  NUM_MESSAGE,   \* capacity of the queue of the task
  NoPayload,     \* the flash holds no registry
  Damaged,       \* a block whose end header covers the end of the objects
  MaxCalls,      \* bound: calls the clients make after each start of the program
  PowerFaults,   \* may power fail?
  WriteErrors    \* may the flash driver report an error?

ASSUME RegistryAssumption ==
  /\ Registry \notin Clients
  /\ Nobody \notin Clients \cup {Registry}
  /\ Partial \notin Values \cup {Absent}
  /\ Absent \notin Values
  /\ NameSize \in [Keys -> Nat \ {0}]
  /\ ValueSize \in [Values -> Nat \ {0}]
  /\ MaxFlashSize \in Nat
  /\ NUM_MESSAGE \in Nat \ {0}
  /\ MaxCalls \in Nat
  /\ {PowerFaults, WriteErrors} \subseteq BOOLEAN

VARIABLES
  pc,                   \* where each client is in its call
  call,                 \* the call of each client: operation, key and value
  object,               \* local of each client: position and value size of the object it works on
  result,               \* what the last Read or IsExist of each client returned
  calls,                \* calls made since the start of the program
  task,                 \* where the task of the registry is
  queue,                \* timer events in its queue
  m_mutex,              \* owner and count
  m_flash_buffer,       \* the objects
  m_flash_buffer_size,  \* bytes in use
  m_need_update_flash,  \* changed since the last flush
  stored, submitted, saved   \* the flash, see DurableRegister

callVars == <<call, object, result>>
clientVars == <<callVars, calls>>
bufferVars == <<m_flash_buffer, m_flash_buffer_size, m_need_update_flash>>
flashVars == <<stored, submitted, saved>>
vars == <<pc, clientVars, task, queue, m_mutex, bufferVars, flashVars>>

------------------------------------------------------------------------------
Objects == [key : Keys, size : Nat, value : Values \cup {Partial}]

\* What goes to the flash: the buffer, and its size.
Payloads == [objects : Seq(Objects), size : Int]

EmptyPayload == [objects |-> <<>>, size |-> 0]

\* "No registry" and a damaged block are neither payloads nor the dictionaries in them.
ASSUME PayloadAssumption ==
  /\ NoPayload # Damaged
  /\ {NoPayload, Damaged} \cap (Payloads \cup [Keys -> Values \cup {Absent, Partial}]) = {}

Flash == INSTANCE DurableRegister WITH Payloads <- Payloads \cup {Damaged}

Operations == {"Write", "Read", "IsExist", "Delete"}

\* The bytes of an object: two sizes, the name and the value.
ObjectSize(k, size) == 1 + NameSize[k] + 1 + size

\* GetObjectByIndex: each object ends where the next one begins, the last at the size
\* of the buffer.
BytesOf(objects) ==
  LET end[i \in 0..Len(objects)] ==
        IF i = 0 THEN 0 ELSE end[i - 1] + ObjectSize(objects[i].key, objects[i].size)
  IN  end[Len(objects)]

\* FindObject: the first object with the key, 0 if there is none.
FindObject(objects, k) ==
  IF \E i \in 1..Len(objects) : objects[i].key = k
  THEN CHOOSE i \in 1..Len(objects) :
         objects[i].key = k /\ \A j \in 1..i - 1 : objects[j].key # k
  ELSE 0

Lookup(objects, k) ==
  LET i == FindObject(objects, k) IN IF i = 0 THEN Absent ELSE objects[i].value

NoCall == [op |-> "none", key |-> Absent, value |-> Absent]

NoObject == [index |-> 0, size |-> 0]

NoResult == [ok |-> FALSE, value |-> Absent]

TypeOK ==
  /\ pc \in [Clients -> Operations \cup
               {"off", "idle", "lock", "copy", "append", "dirty", "shift", "unlock"}]
  /\ call \in [Clients -> [op : Operations, key : Keys, value : Values \cup {Absent}] \cup {NoCall}]
  /\ object \in [Clients -> [index : Nat, size : Nat]]
  /\ result \in [Clients -> [ok : BOOLEAN, value : Values \cup {Absent, Partial}]]
  /\ calls \in 0..MaxCalls
  /\ task \in {"off", "undefined", "suspended", "pull", "check", "lock", "write", "unlock", "flush"}
  /\ queue \in 0..NUM_MESSAGE
  /\ m_mutex \in [owner : Clients \cup {Registry, Nobody}, count : Nat]
  /\ m_flash_buffer \in Seq(Objects)
  /\ m_flash_buffer_size \in Int
  /\ m_need_update_flash \in BOOLEAN
  /\ {stored, submitted} \subseteq Payloads \cup {Damaged, NoPayload}
  /\ saved \in BOOLEAN

Init ==
  /\ pc = [c \in Clients |-> "off"]
  /\ call = [c \in Clients |-> NoCall]
  /\ object = [c \in Clients |-> NoObject]
  /\ result = [c \in Clients |-> NoResult]
  /\ calls = 0
  /\ task = "off"
  /\ queue = 0
  /\ m_mutex = [owner |-> Nobody, count |-> 0]
  /\ m_flash_buffer = <<>>
  /\ m_flash_buffer_size = 0
  /\ m_need_update_flash = FALSE
  /\ Flash!Init

------------------------------------------------------------------------------
(* Calls of the clients. *)

Call(c, op, k, v) ==
  /\ pc[c] = "idle"
  /\ calls < MaxCalls
  /\ calls' = calls + 1
  /\ call' = [call EXCEPT ![c] = [op |-> op, key |-> k, value |-> v]]
  /\ pc' = [pc EXCEPT ![c] = "lock"]
  /\ UNCHANGED <<object, result, task, queue, m_mutex, bufferVars, flashVars>>

\* Mutant: the lock does not look at the owner.
LockAnyway(c) ==
  /\ pc[c] = "lock"
  /\ m_mutex' = [owner |-> c, count |-> m_mutex.count + 1]
  /\ pc' = [pc EXCEPT ![c] = call[c].op]
  /\ UNCHANGED <<clientVars, task, queue, bufferVars, flashVars>>

\* m_mutex.Lock(): the mutex is recursive.
Lock(c) ==
  /\ pc[c] = "lock"
  /\ m_mutex.owner \in {Nobody, c}
  /\ m_mutex' = [owner |-> c, count |-> m_mutex.count + 1]
  /\ pc' = [pc EXCEPT ![c] = call[c].op]
  /\ UNCHANGED <<clientVars, task, queue, bufferVars, flashVars>>

\* The call returns, and its locals are gone.
Return(c) ==
  /\ pc' = [pc EXCEPT ![c] = "idle"]
  /\ call' = [call EXCEPT ![c] = NoCall]
  /\ object' = [object EXCEPT ![c] = NoObject]
  /\ result' = [result EXCEPT ![c] = NoResult]
  /\ UNCHANGED calls

Unlocked ==
  IF m_mutex.count > 1 THEN [m_mutex EXCEPT !.count = @ - 1] ELSE [owner |-> Nobody, count |-> 0]

Unlock(c) ==
  /\ pc[c] = "unlock"
  /\ m_mutex' = Unlocked
  /\ Return(c)
  /\ UNCHANGED <<task, queue, bufferVars, flashVars>>

Found(c) == FindObject(m_flash_buffer, call[c].key)

\* Write finds the object: the copy of its value starts.
WriteExisting(c) ==
  LET i == Found(c) IN
  /\ pc[c] = "Write"
  /\ i # 0
  /\ m_flash_buffer[i].size = ValueSize[call[c].value]
  /\ m_flash_buffer' = [m_flash_buffer EXCEPT ![i].value = Partial]
  /\ object' = [object EXCEPT ![c] = [index |-> i, size |-> m_flash_buffer[i].size]]
  /\ pc' = [pc EXCEPT ![c] = "copy"]
  /\ UNCHANGED <<call, result, calls, task, queue, m_mutex, m_flash_buffer_size,
                 m_need_update_flash, flashVars>>

\* Write finds the object with another size: it returns, and keeps the mutex.
WriteOtherSize(c) ==
  LET i == Found(c) IN
  /\ pc[c] = "Write"
  /\ i # 0
  /\ m_flash_buffer[i].size # ValueSize[call[c].value]
  /\ Return(c)
  /\ UNCHANGED <<task, queue, m_mutex, bufferVars, flashVars>>

\* Write has no space for the object: the same.
WriteNoSpace(c) ==
  /\ pc[c] = "Write"
  /\ Found(c) = 0
  /\ ValueSize[call[c].value] + m_flash_buffer_size > MaxFlashSize
  /\ Return(c)
  /\ UNCHANGED <<task, queue, m_mutex, bufferVars, flashVars>>

\* Mutant: Write does not look at the space.
WriteNewAnyway(c) ==
  /\ pc[c] = "Write"
  /\ Found(c) = 0
  /\ m_flash_buffer' = Append(m_flash_buffer, [key |-> call[c].key,
                                               size |-> ValueSize[call[c].value], value |-> Partial])
  /\ m_flash_buffer_size' = m_flash_buffer_size + 1 + NameSize[call[c].key] + 1
  /\ object' = [object EXCEPT ![c] = [index |-> Len(m_flash_buffer) + 1,
                                      size |-> ValueSize[call[c].value]]]
  /\ pc' = [pc EXCEPT ![c] = "append"]
  /\ UNCHANGED <<call, result, calls, task, queue, m_mutex, m_need_update_flash, flashVars>>

\* WriteNewObjectToBuffer, up to the copy of the value.
WriteNew(c) ==
  /\ pc[c] = "Write"
  /\ Found(c) = 0
  /\ ValueSize[call[c].value] + m_flash_buffer_size <= MaxFlashSize
  /\ m_flash_buffer' = Append(m_flash_buffer, [key |-> call[c].key,
                                               size |-> ValueSize[call[c].value], value |-> Partial])
  /\ m_flash_buffer_size' = m_flash_buffer_size + 1 + NameSize[call[c].key] + 1
  /\ object' = [object EXCEPT ![c] = [index |-> Len(m_flash_buffer) + 1,
                                      size |-> ValueSize[call[c].value]]]
  /\ pc' = [pc EXCEPT ![c] = "append"]
  /\ UNCHANGED <<call, result, calls, task, queue, m_mutex, m_need_update_flash, flashVars>>

\* The end of the copy of the value.
CopyValue(c) ==
  /\ pc[c] \in {"copy", "append"}
  /\ m_flash_buffer' = [m_flash_buffer EXCEPT ![object[c].index].value = call[c].value]
  /\ m_flash_buffer_size' =
       IF pc[c] = "append" THEN m_flash_buffer_size + object[c].size
       ELSE m_flash_buffer_size
  /\ pc' = [pc EXCEPT ![c] = "dirty"]
  /\ UNCHANGED <<clientVars, task, queue, m_mutex, m_need_update_flash, flashVars>>

NeedUpdateFlash(c) ==
  /\ pc[c] = "dirty"
  /\ m_need_update_flash' = TRUE
  /\ pc' = [pc EXCEPT ![c] = "unlock"]
  /\ UNCHANGED <<clientVars, task, queue, m_mutex, m_flash_buffer, m_flash_buffer_size, flashVars>>

\* Read copies the value only if it has the size the caller asks for, and returns
\* whether it found the object.
Read(c) ==
  LET i == Found(c)
      fits == i # 0 /\ m_flash_buffer[i].size = ValueSize[call[c].value]
  IN  /\ pc[c] = "Read"
      /\ result' = [result EXCEPT ![c] =
           [ok |-> i # 0, value |-> IF fits THEN m_flash_buffer[i].value ELSE Absent]]
      /\ pc' = [pc EXCEPT ![c] = "unlock"]
      /\ UNCHANGED <<call, object, calls, task, queue, m_mutex, bufferVars, flashVars>>

IsExist(c) ==
  /\ pc[c] = "IsExist"
  /\ result' = [result EXCEPT ![c] = [ok |-> Found(c) # 0, value |-> Absent]]
  /\ pc' = [pc EXCEPT ![c] = "unlock"]
  /\ UNCHANGED <<call, object, calls, task, queue, m_mutex, bufferVars, flashVars>>

\* Mutant: Delete returns without unlocking when there is no such object.
DeleteFindReturns(c) ==
  LET i == Found(c) IN
  /\ pc[c] = "Delete"
  /\ IF i = 0
       THEN Return(c)
       ELSE /\ pc' = [pc EXCEPT ![c] = "shift"]
            /\ object' = [object EXCEPT ![c] = [index |-> i, size |-> m_flash_buffer[i].size]]
            /\ UNCHANGED <<call, result, calls>>
  /\ UNCHANGED <<task, queue, m_mutex, bufferVars, flashVars>>

\* Delete looks for the object.
DeleteFind(c) ==
  LET i == Found(c) IN
  /\ pc[c] = "Delete"
  /\ IF i = 0
       THEN pc' = [pc EXCEPT ![c] = "unlock"] /\ UNCHANGED object
       ELSE /\ pc' = [pc EXCEPT ![c] = "shift"]
            /\ object' = [object EXCEPT ![c] = [index |-> i, size |-> m_flash_buffer[i].size]]
  /\ UNCHANGED <<call, result, calls, task, queue, m_mutex, bufferVars, flashVars>>

\* It moves the objects behind it down, one after the other ...
DeleteShift(c) ==
  /\ pc[c] = "shift"
  /\ object[c].index < Len(m_flash_buffer)
  /\ m_flash_buffer' =
       [m_flash_buffer EXCEPT ![object[c].index] = m_flash_buffer[object[c].index + 1]]
  /\ object' = [object EXCEPT ![c].index = @ + 1]
  /\ UNCHANGED <<pc, call, result, calls, task, queue, m_mutex, m_flash_buffer_size,
                 m_need_update_flash, flashVars>>

\* Mutant: the size of the name is not given back.
DeleteEndKeepsName(c) ==
  /\ pc[c] = "shift"
  /\ object[c].index >= Len(m_flash_buffer)
  /\ m_flash_buffer' = SubSeq(m_flash_buffer, 1, Len(m_flash_buffer) - 1)
  /\ m_flash_buffer_size' = m_flash_buffer_size - (2 + object[c].size)
  /\ m_need_update_flash' = TRUE
  /\ pc' = [pc EXCEPT ![c] = "unlock"]
  /\ UNCHANGED <<clientVars, task, queue, m_mutex, flashVars>>

\* ... and cuts the buffer.
DeleteEnd(c) ==
  /\ pc[c] = "shift"
  /\ object[c].index >= Len(m_flash_buffer)
  /\ m_flash_buffer' = SubSeq(m_flash_buffer, 1, Len(m_flash_buffer) - 1)
  /\ m_flash_buffer_size' = m_flash_buffer_size - ObjectSize(call[c].key, object[c].size)
  /\ m_need_update_flash' = TRUE
  /\ pc' = [pc EXCEPT ![c] = "unlock"]
  /\ UNCHANGED <<clientVars, task, queue, m_mutex, flashVars>>

ClientStep(c) ==
  \/ Lock(c) \/ Unlock(c)
  \/ WriteExisting(c) \/ WriteOtherSize(c) \/ WriteNoSpace(c) \/ WriteNew(c)
  \/ CopyValue(c) \/ NeedUpdateFlash(c)
  \/ Read(c) \/ IsExist(c)
  \/ DeleteFind(c) \/ DeleteShift(c) \/ DeleteEnd(c)

------------------------------------------------------------------------------
(* The task of the registry. *)

Running == task \notin {"off", "undefined"}

\* Mutant: the queue takes events without end.
TimerExpiredUnbounded ==
  /\ Running
  /\ queue' = queue + 1
  /\ UNCHANGED <<pc, clientVars, task, m_mutex, bufferVars, flashVars>>

\* The timer posts its event, or drops it when the queue is full.
TimerExpired ==
  /\ Running
  /\ queue < NUM_MESSAGE
  /\ queue' = queue + 1
  /\ UNCHANGED <<pc, clientVars, task, m_mutex, bufferVars, flashVars>>

\* The application calls StartTask.
StartTask ==
  /\ task = "suspended"
  /\ task' = "pull"
  /\ UNCHANGED <<pc, clientVars, queue, m_mutex, bufferVars, flashVars>>

Pull ==
  /\ task = "pull"
  /\ queue > 0
  /\ queue' = queue - 1
  /\ task' = "check"
  /\ UNCHANGED <<pc, clientVars, m_mutex, bufferVars, flashVars>>

\* EventCheckFlash looks at the flag without the mutex.
CheckFlag ==
  /\ task = "check"
  /\ task' = IF m_need_update_flash THEN "lock" ELSE "pull"
  /\ UNCHANGED <<pc, clientVars, queue, m_mutex, bufferVars, flashVars>>

\* Mutant: the buffer is saved without the mutex.
FlushWithoutLock ==
  /\ task = "lock"
  /\ task' = "write"
  /\ UNCHANGED <<pc, clientVars, queue, m_mutex, bufferVars, flashVars>>

LockForFlush ==
  /\ task = "lock"
  /\ m_mutex.owner \in {Nobody, Registry}
  /\ m_mutex' = [owner |-> Registry, count |-> m_mutex.count + 1]
  /\ task' = "write"
  /\ UNCHANGED <<pc, clientVars, queue, bufferVars, flashVars>>

Snapshot == [objects |-> m_flash_buffer, size |-> m_flash_buffer_size]

\* Write of FlashManagment takes a buffer that does not fit in a block all the same (it
\* prints that it is too big), and puts the end header over its last bytes.
Image == IF m_flash_buffer_size <= MaxFlashSize THEN Snapshot ELSE Damaged

\* m_flash.Write copies the buffer.
WriteSnapshot ==
  /\ task = "write"
  /\ m_need_update_flash' = FALSE
  /\ Flash!Submit(Image)
  /\ task' = "unlock"
  /\ UNCHANGED <<pc, clientVars, queue, m_mutex, m_flash_buffer, m_flash_buffer_size>>

\* It may erase the sector that holds the stored registry before it returns.
EraseInWrite ==
  /\ task = "unlock"
  /\ Flash!Lose
  /\ submitted' = submitted
  /\ UNCHANGED <<pc, clientVars, task, queue, m_mutex, bufferVars>>

UnlockAfterWrite ==
  /\ task = "unlock"
  /\ m_mutex' = Unlocked
  /\ task' = "flush"
  /\ UNCHANGED <<pc, clientVars, queue, bufferVars, flashVars>>

\* Mutant: the flag is cleared once the flash is written.
WriteToFlashThenClear ==
  /\ task = "flush"
  /\ Flash!Commit
  /\ task' = "pull"
  /\ m_need_update_flash' = FALSE
  /\ UNCHANGED <<pc, clientVars, queue, m_mutex, m_flash_buffer, m_flash_buffer_size>>

WriteToFlash ==
  /\ task = "flush"
  /\ Flash!Commit
  /\ task' = "pull"
  /\ UNCHANGED <<pc, clientVars, queue, m_mutex, bufferVars>>

\* The driver reports an error, for the last flash word or for one before it, which
\* WriteToFlash drops.
WriteToFlashFails ==
  /\ WriteErrors
  /\ task = "flush"
  /\ Flash!Abandon \/ Flash!CommitUnnoticed
  /\ task' = "pull"
  /\ UNCHANGED <<pc, clientVars, queue, m_mutex, bufferVars>>

TaskStep ==
  Pull \/ CheckFlag \/ LockForFlush \/ WriteSnapshot \/ UnlockAfterWrite \/ WriteToFlash

------------------------------------------------------------------------------
(* Power failures, and starts of the program. *)

RamLost ==
  /\ task' = "off"
  /\ pc' = [c \in Clients |-> "off"]
  /\ call' = [c \in Clients |-> NoCall]
  /\ object' = [c \in Clients |-> NoObject]
  /\ result' = [c \in Clients |-> NoResult]
  /\ calls' = 0
  /\ queue' = 0
  /\ m_mutex' = [owner |-> Nobody, count |-> 0]
  /\ m_flash_buffer' = <<>>
  /\ m_flash_buffer_size' = 0
  /\ m_need_update_flash' = FALSE

PowerFailure ==
  /\ PowerFaults
  /\ task # "off"
  /\ RamLost
  /\ \/ Flash!Abandon
     \/ task = "unlock" /\ Flash!Lose /\ submitted' = NoPayload

\* The constructor reads a damaged block: its size is larger than the buffer that is to
\* hold it, and the last object is no object.  What the program does from here on is
\* undefined, and nothing is said of it before power fails.
LoadDamaged ==
  /\ task = "off"
  /\ task' = "undefined"
  /\ UNCHANGED <<pc, clientVars, queue, m_mutex, bufferVars>>

\* The constructor loads a payload.
Load(p) ==
  /\ task = "off"
  /\ task' = "suspended"
  /\ pc' = [c \in Clients |-> "idle"]
  /\ m_flash_buffer' = p.objects
  /\ m_flash_buffer_size' = p.size
  /\ UNCHANGED <<clientVars, queue, m_mutex, m_need_update_flash>>

\* It is what the flash holds.
Boot ==
  /\ IF stored = Damaged THEN LoadDamaged
     ELSE Load(IF stored = NoPayload THEN EmptyPayload ELSE stored)
  /\ UNCHANGED flashVars

Next ==
  \/ \E c \in Clients :
       \/ \E op \in {"Write", "Read"}, k \in Keys, v \in Values : Call(c, op, k, v)
       \/ \E op \in {"IsExist", "Delete"}, k \in Keys : Call(c, op, k, Absent)
       \/ ClientStep(c)
  \/ TimerExpired
  \/ StartTask
  \/ TaskStep
  \/ EraseInWrite
  \/ WriteToFlashFails
  \/ PowerFailure
  \/ Boot

Spec == Init /\ [][Next]_vars

\* A call goes on, the timer is periodic, the application starts the task, and the
\* task is scheduled whenever it is ready, as the calls of the clients end.
Fairness ==
  /\ \A c \in Clients : WF_vars(ClientStep(c))
  /\ WF_vars(TimerExpired)
  /\ WF_vars(StartTask)
  /\ WF_vars(TaskStep)
  /\ WF_vars(Boot)

FairSpec == Spec /\ Fairness

------------------------------------------------------------------------------
(* The dictionary. *)

MapOf(objects) == [k \in Keys |-> Lookup(objects, k)]

Durable ==
  IF stored = Damaged THEN Damaged ELSE MapOf(IF stored = NoPayload THEN <<>> ELSE stored.objects)

Flushing == IF submitted \in {NoPayload, Damaged} THEN submitted ELSE MapOf(submitted.objects)

\* A call takes effect when it first touches the buffer: the value that is being
\* copied counts as written, the object that is being deleted as gone.
Contents ==
  IF ~Running THEN Durable
  ELSE [k \in Keys |->
          IF \E c \in Clients : pc[c] \in {"copy", "append"} /\ call[c].key = k
          THEN call[CHOOSE c \in Clients : pc[c] \in {"copy", "append"} /\ call[c].key = k].value
          ELSE IF \E c \in Clients : pc[c] = "shift" /\ call[c].key = k
          THEN Absent
          ELSE Lookup(m_flash_buffer, k)]

Map == INSTANCE PersistentMap WITH
  NoMap <- NoPayload, fits <- m_flash_buffer_size <= MaxFlashSize,
  contents <- Contents, flushing <- Flushing, durable <- Durable

------------------------------------------------------------------------------
(* Properties. *)

\* The registry is a dictionary whose operations are atomic, whatever calls, flushes
\* and power failures interleave: what is saved is the contents of one instant, with
\* no half copied value and no half moved object; only where the buffer does not fit in
\* a block a flush saves a damaged dictionary.
MapSpec == Map!Spec

\* A read never returns a value that is being copied.
NoHalfRead == \A c \in Clients : result[c].value # Partial

\* No change is forgotten: once a flush has succeeded, the flash holds the buffer
\* unless the flag is up, a call that will raise it is under way, or the buffer does not
\* fit in a block.
CleanMeansDurable ==
  /\ saved
  /\ task \in {"pull", "check"}
  /\ ~m_need_update_flash
  /\ \A c \in Clients : pc[c] \notin {"copy", "append", "dirty", "shift"}
  /\ m_flash_buffer_size <= MaxFlashSize
  => stored = Snapshot

\* The size goes with the objects, in RAM between changes and in every block that is not
\* damaged: the constructor trusts it to find the end of the last object.
SizeMatches ==
  /\ (\A c \in Clients : pc[c] \notin {"append", "shift"}) /\ Running =>
       m_flash_buffer_size = BytesOf(m_flash_buffer)
  /\ \A p \in {stored, submitted} \ {NoPayload, Damaged} : p.size = BytesOf(p.objects)

\* Write counts the value of a new object, and not its name and the two sizes: so much
\* and no more the registry may outgrow the flash, in RAM and in what is being added.
NearlyFits(size) ==
  \/ size <= MaxFlashSize
  \/ \E k \in Keys : size <= MaxFlashSize + ObjectSize(k, 0)

OverrunBounded ==
  /\ NearlyFits(m_flash_buffer_size)
  /\ \A c \in Clients : pc[c] = "append" => NearlyFits(m_flash_buffer_size + object[c].size)

\* Whoever has the mutex has locked it once and is between Lock and Unlock, so that all
\* who wait for it get it.  This takes clients whose writes neither change the size of
\* an object nor run out of space.
LocksReleased ==
  /\ m_mutex.owner \in Clients => pc[m_mutex.owner] \notin {"off", "idle", "lock"}
  /\ m_mutex.owner = Registry => task \in {"write", "unlock"}
  /\ m_mutex.count = IF m_mutex.owner = Nobody THEN 0 ELSE 1

\* InternalRegistry.cpp:47, EventCheckFlash "check if buffer of the cache is change
\* ... and if yes, update the flash": what is in the buffer gets to the flash.
ChangesReachFlash ==
  m_need_update_flash ~>
    (~m_need_update_flash /\ stored = Snapshot)

\* InternalRegistry.cpp:169, Read "@return True - read success": a read that returns
\* true has filled in the value.
ReadSuccessFillsValue ==
  \A c \in Clients :
    pc[c] = "unlock" /\ call[c].op = "Read" /\ result[c].ok => result[c].value # Absent

\* InternalRegistry.cpp:111, Write refuses a value when the registry does not "have
\* enough space": the objects stay inside the buffer, which has MaxFlashSize bytes.
BufferFits == m_flash_buffer_size <= MaxFlashSize
==============================================================================
