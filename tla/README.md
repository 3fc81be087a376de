# ThreadX++ in TLA+

ThreadX++ wraps the ThreadX real time kernel in C++ classes for STM32H7 boards:
tasks with message queues, events and time events, mutexes and semaphores, and
a few services on top of them, the largest of which is a registry in the internal
flash.  This directory models that code, model-checks it with TLC and proves
theorems about it with TLAPS.  Paths below are relative to `src/ThreadX++/`.

## The system

| component | state | operations | uses |
|---|---|---|---|
| `FlashManagment` | `m_counter`, `m_current_address`, `m_size`, `m_cache_buffer`, and the blocks on the device | constructor (`FindLastLogicalBlock`, `RestartFlash`), `Read`, `Write` (`FindGoodBlock`, `WriteToCache`, `EraseSector`), `WriteToFlash` | `InternalFlashDriver`, `Watchdog` |
| `InternalFlashDriver` | a static merge buffer | `Read`, `Write`, `Earse`, `GetSecotr` | the HAL |
| `InternalRegistry` | `m_flash_buffer`, `m_flash_buffer_size`, `m_need_update_flash`, `m_mutex` | `Write`, `Read`, `Delete`, `IsExist`, `PrintAll`, `EventCheckFlash` | `FlashManagment`, `Mutex`, `Task`, `TimeEvent` |
| `Task`, `MessageHandler`, `Queue` | `m_start`, the bounded queue | `StartTask`, `Sleep_ms`, `NotifyMessage`, `Push`, `Pull` | ThreadX threads and queues |
| `Event` | `m_invokeres`, `m_param` of each invoker | `Register`, `Unregister`, `Invoke` | `MessageHandler` |
| `TimeEvent` | a timer and an invoker | constructor, `TimerExpired`, destructor | ThreadX timers, `MessageHandler` |
| `Mutex`, `Semaphore` | the ThreadX object | `Lock`/`Unlock`, `Get`/`Put` | ThreadX |
| `Watchdog` | the reload counter of the device | constructor, `Refresh` | `Task`, `TimeEvent` |
| `Singleton` | `m_instance` | `Instance` | |
| `DWT_Utility`, `Debug` | the cycle counter | `Delay_us`, `MeasureTime` | |
| `MemoryManager`, `StartThreadX++`, `TasksManager` | the byte pool | `new`, `delete` | ThreadX |

How they interact.  Any task calls the registry, whose operations change a buffer
in RAM under `m_mutex` and raise `m_need_update_flash`.  A periodic timer posts an
event to the registry's task (a queue of one message; more are dropped).  The task
pulls it, looks at the flag without the mutex, and if it is up copies the buffer
into the image of a block with `FlashManagment::Write` under the mutex, and programs
the block with `WriteToFlash` after releasing it.  `FlashManagment` writes each image
to the next erased block of a ring over the sectors, with a growing counter, and
erases a sector when the ring has left it.  A start of the program takes the block
with the highest counter.

What is hard, and what makes the parts correct:

- *Crashes.* Power fails between any two flash operations, or inside an erase.
  A start must find the last complete write, never an older one, and
  the next write must find an erased block although torn blocks lie about.
- *Dropped errors.* No caller looks at the result of an erase or of a write.
- *Interleaving.* Clients and the flush share the buffer, the flag and the mutex; the
  flag is read outside the mutex and cleared before the flash is written.  What is saved
  must be the contents of one instant, and no change may be forgotten.
- *Early returns.* Each of them must leave the mutex free.
- *Messages.* Bounded queues drop events; messages point to invokers that carry one
  shared parameter and may have been deleted; tasks preempt one another in the middle of a walk
  over a list that has no lock.
- *Starts, timeouts, priorities.* `StartTask` resumes a thread before it sets the
  flag the thread polls; sleeps, locks and delays compute with wrapping ticks.
- *Alignment.* The flash is programmed in groups of eight words, a write starts and ends
  anywhere, and each return must lock the flash again.

`PROJECT.json` lists the hazards with their lines and the properties about each.

## The modules

| module | what it is |
|---|---|
| `DurableRegister` | what the flash promises: one stored payload, replaced atomically, which survives power failures and may be lost only during a write |
| `FlashManagment` | `FlashManagment.cpp` with the erases and flash words of `InternalFlashDriver.cpp` as steps; implements `DurableRegister` |
| `FlashHistory` | `FlashManagment` with a history variable, for what a user expects after a restart |
| `FlashManagment_proofs` | the proofs about `FlashManagment` |
| `FlashHistory_proofs` | when an old payload can come back: the proofs about `FlashHistory` |
| `PersistentMap` | what the registry promises: a dictionary with atomic operations, and a saved past state of it |
| `InternalRegistry` | `InternalRegistry.cpp` with its mutex, task and timer, over a `DurableRegister`; implements `PersistentMap` |
| `InternalRegistry_proofs` | the proofs about `InternalRegistry` |
| `InternalRegistrySize_proofs` | the proofs about `m_flash_buffer_size`, and what follows for programs whose objects fit |
| `RegistryOnFlash` | `InternalRegistry` composed with `FlashManagment`, as the program runs them; implements `InternalRegistry` |
| `RegistryOnFlash_proofs` | the proofs about the composition, from those of its parts |
| `FlashMemory` | what the driver promises: a write programs its words in order and touches no other, an erase takes one whole sector or is refused |
| `InternalFlashDriver` | `InternalFlashDriver.cpp`, one call of the HAL a step; implements `FlashMemory` |
| `InternalFlashDriver_proofs` | the proofs about it |
| `Messages` | `Event.h`, `TimeEvent`, `MessageHandler`, `Queue` and the dispatch of `Task::Sleep_ms`, with the memory of the invokers |
| `Messages_proofs` | the proofs about it |
| `Threads` | ThreadX as the library uses it: priorities, waits with timeouts, the tick |
| `Tasks` | `Task.cpp` over `Threads`: construction, `StartTask`, `Thread_entry`, `Sleep_ms` |
| `Tasks_proofs` | the proofs about it |
| `MCFlashManagment`, `MCInternalRegistry`, `MCRegistryOnFlash`, `MCInternalFlashDriver`, `MCMessages`, `MCTasks` | instances for TLC |

The layers of the storage meet in `DurableRegister`: `InternalRegistry` takes the steps of its flash from
it (`Flash == INSTANCE DurableRegister`), `FlashManagment` implements it, and `RegistryOnFlash` puts the
one on the other.  `InternalFlashDriver`
is a level below: `FlashManagment` has its blocks programmed word by word as the driver does it for
aligned addresses, the only ones it uses.  The kernel side is in two modules because it has two questions:
`Messages` follows what messages point to and leaves out time and priorities (any task may run
between any two steps, which covers every priority), `Tasks` follows time and
priorities and counts messages.  `InternalRegistry` has its one queue, its timer and its task inside.

### FlashManagment

An address is the index of a logical block: `m_start_address` is 0, and the end
of the flash wraps.  A block is a record: how many flash words of it are
programmed, the counter in its end header and its payload.  The magic is in the first
flash word, the counter in the last one: that is how `Used` (magic written) and `Valid`
(magic and counter written) differ.  `pc` is the place of the one thread that uses
the object: the constructor runs before the registry's task does anything.

| action | code |
|---|---|
| `FindLastLogicalBlock`, `FindNoBlock` | the constructor's search, and `Read` of what it found |
| `RestartSector`, `RestartForBoot`, `RestartForWrite` | one erase of `RestartFlash` each, the last one with the rest of it and of its caller |
| `Write`, `WriteFull` | `Write` up to the erase of the old sector, or to `RestartFlash` |
| `EraseOldSector` | the erase at the end of `Write` |
| `WriteToFlash`, `ProgramWord`, `ProgramError` | `WriteToFlash`: one call of `HAL_FLASH_Program` each |
| `PowerFailure`, `PowerFailureInErase` | RAM is lost, the device keeps what it holds |

Assumptions about the device, which is not in the repository: a flash word is programmed
entirely or not at all; programming a word that is not erased clears bits
(its data is garbled and a counter in it becomes any value up to both); an erase that
reports an error has changed nothing; one that was cut short has erased any of the blocks.
Blocks start at flash words (512 and 32 bytes in `HW.h`), so the driver's loop over
aligned words is the only one that runs; its other cases are in `InternalFlashDriver`.  That a
sector has at least two blocks is assumed (256 in `HW.h`).

`CounterBound` caps the counter.  In the code it is a `uint32_t` that would reach
the value of an erased block after 2^32 writes.  With 256 blocks in each of 2 sectors and about
ten thousand erases in the life of a sector that is some 5 million writes: the counter does not
get there.

### InternalRegistry

Objects in the buffer are records in a sequence; sizes in bytes are kept beside them because
`m_flash_buffer_size` is computed from them and is what a start of the program trusts.  A `memcpy` of a
value takes two steps and shows the value `Partial` in between; `Delete` moves one object per step.
The mutex is the recursive ThreadX mutex, with owner and count, so that a client that
returned without unlocking can lock again.  A client's call goes from `idle` to `lock` to its
operation and ends with `Unlock`, or with one of the two returns of `Write` that
do not unlock (`WriteOtherSize`, `WriteNoSpace`).  `PrintAll` changes nothing and is left out.

The task is suspended by its constructor until the application calls `StartTask` (nothing in the
repository does).  `TimerExpired` posts to the queue or drops; `Pull`, `CheckFlag`, `LockForFlush`,
`WriteSnapshot`, `UnlockAfterWrite`, `WriteToFlash` are `EventCheckFlash` statement by statement.
`EraseInWrite` is the erase at the end of `FlashManagment::Write`, which may lose the stored
registry.

A buffer that does not fit in a block is no payload.  `FlashManagment::Write` prints that it is too big, copies it
all the same and puts the end header over its last bytes, so what is submitted is the mark `Damaged` (`Image`).
A start of the program that finds such a block reads it with a size that is larger than the buffer it
allocated (`LoadDamaged`); what the program does from there is undefined, its task is in the state `undefined` and nothing is
said of it until power fails.  The bytes behind `m_flash_buffer`
and `m_cache_buffer`, over which such a buffer runs, belong to others and are outside the model.

### RegistryOnFlash

`Ring` is an instance of `FlashManagment` and `Reg` one of `InternalRegistry` whose flash is what the ring
amounts to (`stored <- Ring!Stored` and so on).  Actions that do not touch the flash are those of `Reg` with the ring
unchanged; the others take the steps of the ring in the place the code calls them.

| action | code |
|---|---|
| `BootFlash`, `Boot` | the constructor of `FlashManagment`, which is a member and comes first, then the rest of the registry's |
| `Write`, `EraseInWrite`, `UnlockAfterWrite` | `EventCheckFlash` under the mutex: the flag, `FlashManagment::Write` with all its erases, and the unlock when that has returned |
| `WriteToFlash` | the flash words of `WriteToFlash`, one a step, without the mutex |
| `PowerFailure` | both lose their RAM, the device keeps what it holds |

Erases work here, and whole (`EraseFaults` and `EraseTears` are `FALSE` in `Ring`): an erase that
fails or is torn voids `DurableRegister`, as `flash_erase_error` shows.  A buffer that does not fit in a block becomes a
`Damaged` payload of the ring.

### InternalFlashDriver

Addresses count words; a word is the set of its bits that are 1, so that programming is intersection and an
erased word is `Bits`.  Addresses that are no multiple of 4 are `WriteMisaligned`.  A write keeps `address_start`, `num_words` and
`buffer` as the code advances them, and `i` is the loop over whole flash words.

| action | code |
|---|---|
| `Write`, `WriteMisaligned` | `Write` up to `HAL_FLASH_Unlock`, or the refusal of an unaligned address |
| `Head`, `SkipHead` | the first flash word, read from the device and merged with the buffer by `&=` |
| `Body`, `BodyDone` | the loop over whole flash words, straight from the buffer |
| `Tail`, `SkipTail` | what is left, in a flash word of erased bits |
| `Return` | the end of `Write`, the flash locked |
| `ProgramError`, `ProgramRefused` | an error of `HAL_FLASH_Program` after or before it did its work |
| `Earse`, `EarseRefused`, `EarseUnlock`, `EarseDone`, `EarseError` | `Earse`; `GetSecotr` answers `HAL_ERROR`, which is 1, for no sector |
| `PowerFailure` | a reset, which locks the flash |

The device accepts any programming here, also of words that are programmed already: that nobody does that is
`WriteOnce` of `FlashManagment`.  `Read` copies words and changes nothing; `Head` has it.

### Messages

`heap` is the pool: what is at each address an invoker can have.  An invoker is its task and its one
`m_param`; a message is the address of an invoker, or a value of the application.
`thread` is where each task is in an operation, and its locals (the iterator of a walk, the parameter of
`Invoke`).  A task begins an operation whenever it is in none: from its main loop or from a callback that has been dispatched.

| action | code |
|---|---|
| `Register`, `PushBack` | `Event::Register`: `new`, then the list |
| `NewFails` | `operator new` without memory, which loops |
| `Unregister`, `RemoveInvoker`, `Delete` | `Event::Unregister`: the search, `remove` and `delete`; `Delete` is that of `~TimeEvent` too |
| `Invoke`, `SetParam`, `Send`, `InvokeEnd` | `Event::Invoke`, each statement of the loop a step; a walk whose node was removed continues anywhere |
| `NewTimeEvent`, `TimerCreate` | the constructor of `TimeEvent` and `Register` |
| `TimerExpired` | `TimerExpired` in the timer thread, once or periodically |
| `Destroy` | `~TimeEvent` up to its `delete` |
| `NotifyMessage` | `NotifyMessage` with a value |
| `Pull`, `Dispatch` | the body of the loop in `Sleep_ms` |

A subscription is known by its task here; object and function of a callback are left out, so
`Unregister` takes the first invoker of a task.  A change of the `std::list` is one step (what a list does when it is
changed by two tasks inside one call of it is not modelled).  Reading freed memory is undefined; an
invoker there sends nothing in the model, and the properties speak about getting there at all.

`Careful` is the application's part.  Nothing in `Event.h` lets a caller know when an invoker is out of use, so with `Careful`
`Unregister` and `~TimeEvent` only run when no message points to the invoker and no task is at work on its
event (`MayDelete`), and tasks keep off an event while one of them is between the search and the `remove` of `Unregister`
(`MayUse`), as when a task unregisters its own callbacks and nobody invokes.  Without it an
invoker goes while messages point to it (`messages_unregister`), and two tasks that unregister the same callback both delete it:
`Unregister` has no lock.  So `OwnedOnce`, `NoDangling` and `NoStaleParameter` are about careful applications.

`past` of a message and `ended` are history: they say which calls of `Invoke` were over when the call that sent a message began.

### Tasks

`Threads` is the kernel: a thread runs when it is ready and none that is ready is more urgent (`Runs`), equal ones
interleave (time slices), waits end with `Wake` or after `left` ticks.  `time` and all sums are ULONGs modulo `TimeWrap`.

| action | code |
|---|---|
| `Create`, `CreateEnd` | the constructor: `tx_thread_create` with `TX_AUTO_START`, then `tx_thread_suspend` |
| `StartTask`, `SetStart` | `StartTask`: `tx_thread_resume`, then `m_start = true` |
| `Poll`, `EnterMain` | the loop of `Thread_entry` |
| `Sleep`, `Poll` | the calls of `Sleep_ms`, in milliseconds; `Sleep` also with `TX_WAIT_FOREVER`, which is the sleep of `Main_loop` |
| `Look`, `Return` | the read of the time, before the loop and at the end of its body, and the test of the loop: what is left of the sleep, or its end |
| `PullMessage`, `PullWaits` | `Pull`: a message that is there, or the wait for one, a step after `Look`, with the conversions from ticks to milliseconds and back |
| `Notify` | `NotifyMessage` from anywhere; dropped when the queue is full |
| `Clock` | a tick, also between `Look` and `Pull` |

`rest` is `time_to_sleep`.  Three fields of a sleep are history: `owed`, the milliseconds asked for that are not over;
`late`, the ticks since the last look at the clock; `wraps`, whether the end of the sleep or the clock
wrapped.

## The runs

| run | shows |
|---|---|
| `flash_ring` | the ring with power failures, cut and failed erases and failed programs: types, blocks in use in one sector, no word programmed twice, unique growing counters, an erased block always found, and the refinement of `DurableRegister` |
| `flash_power_loss` (violation) | a power failure between the erase of the old sector and the programming of the new block loses the saved data |
| `flash_erase_error` (violation) | after an erase error that `EraseSector` ignores, a start may load an older payload: the erase of sector 0 in `Write` fails, so its block with `p1` stays beside the one with `p2` in sector 1; the `Write` that comes back to sector 0 erases sector 1, and power fails before its block is programmed |
| `registry` | two clients, the flush, driver errors, power failures: no half copied value is read, a clean flag means a saved buffer (if it fits in a block), sizes match, the registry outgrows its bytes by no more than the check of `Write` forgets, and the refinement of `PersistentMap` |
| `registry_on_flash` | registry and ring together, with power failures between any two flash operations, erases that work whole and a buffer that fits: the refinement of `InternalRegistry`; with values of one size and enough space, every lock is released and every change gets to the flash |
| `registry_lock_leak` (violation) | a `Write` with another size or without space keeps the mutex: nothing is saved any more |
| `registry_read` (violation) | `Read` reports success without filling in the value |
| `registry_space` (violation) | objects run over the end of the buffer |
| `driver` | writes of every start and length, erases of every address, errors and power failures: the flash is locked between calls, programs are aligned, every step of a call brings it nearer to its end, calls return, and the refinement of `FlashMemory` |
| `messages` | two tasks and a timer preempt one another anywhere: with a careful application no invoker is leaked or deleted twice, no message dangles and no parameter is stale |
| `messages_unregister` (violation) | `Unregister` deletes an invoker that a message still points to, and the task that has the message calls through it |
| `tasks` | two tasks, of equal priority or one of them more urgent, create and start one another, sleep over the wrap of the clock and get messages: sleeps last but for less than a tick, waits in a sleep end with it but for the ticks that came after the look at the clock, and creations and starts by a caller that is not less urgent come to their end |

Bounds of the flash runs: two sectors of two blocks of two flash words, two payloads, counters up to 6
(12 where an old block has to outlive a restart).  Two words are the least for torn blocks, and six writes
go round the ring and leave each sector more than once.  The properties of `flash_ring` are claimed
until an erase fails (`erase_failed`): what happens then is `flash_erase_error`.

Bounds of the registry runs: two clients, two keys, values of two sizes, three calls after each start of
the program, a queue of one message as in the code, any number of flushes, timer events and power
failures.  Clients, keys and the two small values are interchangeable and `registry` uses that
symmetry.  In `registry` the buffer has five bytes and an object of a small value four: the large
value is refused, which is `WriteNoSpace`, and a second small one runs over the end, as in the code, by
the three bytes `OverrunBounded` allows; `registry_space` says that the end is not to be run over.  Three calls are enough for one call to leak the mutex, its client to lock it
again, and the other to wait.

Bounds of `registry_on_flash`: two clients, one key, two values of one size, two calls after each start, and the ring
of the flash runs with counters up to 4: enough to fill a sector and leave it, to erase it under the mutex,
and, with torn blocks, to go round the ring.  A flush in progress, a call and a power failure at any of their
steps meet in all orders.  Values of one size are what `LocksReleased` and `ChangesReachFlash` need
(`registry_lock_leak` is what happens without).

Bounds of `driver`: flash words of three words of one bit, one flash word to a sector, two sectors in each of two banks,
writes of up to five words that begin while at most two words are programmed.
Three words make heads and tails of every size, five a head, a whole flash word and a tail in one write,
and two sectors the one whose number is `HAL_ERROR`; two programmed words are enough for a head that
must keep what it merges with, and for erases that must leave words alone.

Bounds of `messages`: two tasks with queues of two, one event, one timer, memory for three invokers, two
calls of `Invoke`.  That is enough for two subscriptions and a timer together, for memory to run out and be used again,
for two calls to overlap or to follow one another, and for queues to overflow.  Tasks and addresses are interchangeable
(symmetry).  `messages_unregister` has one call and no timer.

Bounds of `tasks`: two tasks, two priorities, a clock of six ticks, two milliseconds to a tick, one message; the main loop of one task
sleeps 4 milliseconds, that of the other 3 (`SleepTimes`).
Three milliseconds are a tick and a half, which the conversion cuts to one; four are two whole ticks.
Six ticks hold a sleep and several polls before the wrap.
Two milliseconds to a tick make `Sleep_ms(1)` zero ticks, as the ten of the board do.  One of the two tasks is at least as urgent as the
other (`FirstUrgent`), and it is the one with the longer sleep: a more urgent main loop that sleeps a single tick and
loses one after each of its steps finds its sleep over whenever it looks, and leaves no time to the other.
Sleeps with `TX_WAIT_FOREVER` are in the module and the proofs; the run leaves them out, because they double its states.

Fairness of the registry (`FairSpec`, used by `registry_on_flash` and `registry_lock_leak`): weak fairness of
each client's call (calls are finite and end), of the timer (periodic), of `StartTask` and the
start of the program, and of the task of the registry.  The task has a low priority (14): it
runs because the clients' calls end and they sleep.  No driver errors are assumed: with them a change may wait
for the next one.  `registry_lock_leak` has no power failures either; in `registry_on_flash` the promise
of `ChangesReachFlash` is over when power fails or the counter is at its bound.

Fairness of `driver`: weak fairness of what a call does once it has begun; the code
polls nothing and waits for nothing.

Fairness of `tasks`: the clock ticks (weak); a thread that runs again and again takes its step
(strong, because more urgent threads preempt it), and so do main loops, which sleep as
those of `Task.cpp` and `src/Tests` do.  A thread takes less than a tick from one step to the next (`ticked`),
callbacks excepted.  Under these `StartProtocol` says: the constructor of a task
gets to suspend it, and a task that was started gets out of its polling, when the caller is at least as
urgent as the task.  The condition is needed.  A task that is more urgent than the one that constructs or starts it preempts it
before `tx_thread_suspend`, or before `m_start = true`, and polls with `Sleep_ms(1)`,
which at ten milliseconds to a tick is zero ticks: it never gives the processor back.

Each property has a mutant, an operator beside the one it changes, that TLC must find
violating it: see `mutants` in `PROJECT.json`.

## What is proved

`FlashManagment_proofs` proves, for every number of sectors, of blocks per sector (at least two) and of words
per block (at least two), all payloads, all bounds and all combinations of faults, every property of
`flash_ring`: `TypeCorrect`, `SectorsErasedInTime`, `WordsProgrammedOnce`,
`CountersGrow`, `BlockAlwaysFound`, and the refinement `ImplementsRegister`.

The argument is one inductive invariant, `IInv`: the types; the range of the loop index
(`Shape`); that a write in progress has not succeeded (`NotYet`); and, unless an erase
has failed, `Sound`: a block without its last word has neither counter nor data; the blocks in use are in
the sector of the last write, or in the one the ring is leaving until it is erased (`Home`);
words are programmed in order, once; valid blocks have different counters; the write in
progress outbids them all; `RestartFlash` has erased the sectors below its index.  None of the properties is
inductive by itself.  That one sector holds all used blocks is kept only because `Home` says which;
that a write finds an erased block follows from `Home` and a second sector; that the last word makes the new
block the one a start finds needs `Outbids` and the absence of counters in torn blocks.  The
refinement maps `ProgramWord` of the last word to `Commit`, erases and power failures in a
write to `Lose` and `Abandon`, and the rest to stuttering, with lemmas about which
block the search ends with (`Recovered`) before and after each step.

The only assumption is `FlashAssumption`, which TLC evaluates in every flash run.

`FlashHistory_proofs` adds the history variable: the payload whose last flash word was programmed last, also by a `HAL_FLASH_Program`
that reported an error after it had done its work.  `OnlyErasesRollBack`: until an erase fails or is cut short by a power failure, a
start loads the newest payload or none (`~erase_failed => NeverRollsBack`), whatever words are torn and programs fail.
`flash_erase_error` has a
trace to the contrary for an erase that fails; one that is torn may leave the same blocks.  The
invariant is that `Stored` is the newest payload or nothing at any time, not only at a start, and a step
of the ring is taken apart by what it does to the register.

`InternalRegistry_proofs` proves, for every set of tasks, keys and values, all sizes, queue lengths and bounds,
with power failures and write errors or without: `RegistryTypes`, `ReadsAreWhole` (`NoHalfRead`),
`ChangesAreSaved` (`CleanMeansDurable`) and `RegistryIsMap`, the refinement of `PersistentMap`.

The inductive invariant is again called `IInv`.  The lock gives one owner (`Exclusive`), although `Write` may
leave the mutex with an owner that does not know; what is lost then is progress, not safety.  A call keeps its
parameters until it returns (`Calls`).  `Buffer` says what the buffer looks like at each step of a change: keys are
unique and values whole when nobody changes it; a client that copies has one partial object, the one with its key
(`CopyPlace`); a client that deletes has a hole, which is the object that goes or a second copy of the object before it
(`HolePlace`).  `Snapshots` keeps half changed buffers off the flash, and needs that the task of the registry
holds the mutex when it copies the buffer.  `Clean` is what `CleanMeansDurable` becomes while a flush is under way: the
submitted payload is the buffer, or the flag is up, or a call will raise it.

`RegistryIsMap` goes through `View`, the contents by what the clients are doing.  A write takes effect
when the copy starts (`StartWrite`) and the end of the copy changes nothing (`EndWrite`); a delete takes effect when it
finds its object (`StartDelete`), and moving objects into the hole changes nothing although a key is
in the buffer twice then (`ShiftDelete`, by `LookupHole`); cutting the hole off does not either (`EndDelete`).
Where the buffer does not fit in a block the dictionary itself says that a flush damages what it saves (`fits` of `PersistentMap`), and
`CleanMeansDurable` and `SizeMatches` except such blocks.

The assumptions are `RegistryAssumption` and `PayloadAssumption` (the mark of an empty flash is no payload), which TLC
evaluates in every registry run.  The flash below is a `DurableRegister`, and `ImplementsRegister`
discharges that: `OnFlash` below puts the two together.

`InternalRegistrySize_proofs` is about `m_flash_buffer_size`.  `BytesOf` is a sum, defined by recursion over the objects, and the
prover has no induction with a predicate as a parameter.  It does not need one: the lemmas take the set of prefixes a
claim fails for, and show that it has no least element (`Least`).  So the sum exists, and
appending, changing and removing an object change it by the bytes of that object.  From these:

- `SizeIsRight`: `SizeMatches`.  The invariant (`Sizes`) also says what the size is in the middle of an append (the header is
  counted, the value not) and of a delete (the hole is still counted, with the size `Delete` will
  subtract).
- `OverrunIsBounded`: `OverrunBounded`, for all clients.
- `RoomForAll`: if there is room for an object of each key (`Room`), nothing runs over the buffer.  Keys in
  the buffer are unique, so there are as many objects as keys at most.
- `ReadFillsOneSize`: if all values have one size (`SameSizes`), a `Read` that returns true has filled in the value.
- `LocksAreReleased`: under both, `LocksReleased`.

The last three have a hypothesis because without it the code does otherwise: `registry_space`, `registry_read` and
`registry_lock_leak` show that.  They say how to use the registry safely, and the
instance of `registry_on_flash` is one of the programs they are about.

`RegistryOnFlash_proofs` composes.  `OnFlash`: every step of registry and ring is
a step of `InternalRegistry` on an atomic register, or leaves it as it is.  The invariant is that of both parts and
`Link`, which says where the one is in its code while the other is where it is: the ring
rests when the registry calls it, erases only while the task is in `Write`, programs only while it is in
`WriteToFlash`, and after its constructor holds in its cache what the device holds.
`FlashKeepsMap` goes on to `PersistentMap` by `RegistryIsMap`:
calls of the clients on top, flash words and power failures at the bottom, and a dictionary with atomic operations in between.
Both take erases that work whole.
`LocksOnFlash` brings `LocksReleased` down to the ring.  The first lemmas (`Same...`) say that what
the proof modules define of the parts is what the composition defines.

`InternalFlashDriver_proofs` proves, for every size of flash words and of sectors (a multiple), any number of sectors, words of
any bits and writes of any length: `DriverTypes`, `FlashIsLocked` (`LockedWhenIdle`), `AddressesAligned`
(`ProgramsAligned`), `CallsGetShorter` (`CallsShorten`: `StepsLeft` falls with every step of a call) and `DriverImplementsMemory`, the refinement of `FlashMemory`.  The inductive invariant is `TypeOK /\ Calls /\ Progress`:
`Calls` ties the place of a call to its result, to the lock and to what its locals may hold, and
`Progress` says that past the head the address is aligned as long as words are left and that the write stays inside the flash.
For the refinement a write owes the words from `address_start + i` on (`Todo`), each `HAL_FLASH_Program`
takes the first of them, and bits merged in from the device or filled in as erased clear nothing.
The assumption is `DriverAssumption`.

`Messages_proofs` proves, for any tasks, events, timers, memory, lengths of queues and number of calls:
`MessageTypes` for every application and, for careful ones (`ASSUME Careful`), `InvokersOwnedOnce` (`OwnedOnce`),
`NothingDangles` (`NoDangling`), `CarefulUnregister` (`UnregisteredIsSilent`, which `messages_unregister` refutes for
others) and `ParametersAreFresh` (`NoStaleParameter`).  `InvokersOwnedOnce` rests on
`TypeOK /\ Locals /\ Ownership /\ Removals`: `Locals` says what an operation may be at work on, `Ownership`
that the lists, the timers and the operations in progress share the allocated addresses out among them, each to one, no
list holding one twice, and `Removals` that an invoker that was found is in its list until the task that found it removes it, because
nobody else works on the event until then; an operation moves, adds or removes one address (`Moved`, `Added`, `Removed`).
That no message points to an invoker between the search of `Unregister` and its `remove` is `Unpointed`, and part of `NoDangling` from there to its `delete`.
`NoDangling` and `NoStaleParameter` are inductive only together, with `Calls` (calls under way have different parameters, and none of
them has ended) and `Fresh` (a message's `past` holds only calls that ended before it was sent): a parameter in an
invoker is of a call that came later than everything in the `past` of a message to it.
The assumption is `MessagesAssumption`.

`Tasks_proofs` proves, for any threads and priorities, any width of a ULONG and any length of a tick: `TaskTypes`,
`SleepsAreLong` (`SleepsLongEnough`) and `WaitsAreInTime` (`WaitsInTime`).  The first of the two rests on `EndsInTime`: the
milliseconds a sleep owes fit in the ticks from now to its end but for less than one tick, as long as neither wraps, which waits and callbacks cannot
shorten; the second on what was left of the sleep at the last look at the clock, the ticks since then (`late`), and the arithmetic
of the conversions: ticks to milliseconds, cut to a ULONG, and back, are no more ticks than before.  The assumptions are
`ThreadsAssumption` and `TasksAssumption`, which ask nothing of the length of a tick but that it is a millisecond or more.

Only model-checked: liveness (`ChangesReachFlash`, `CallsReturn`, `StartProtocol`), which is out of the prover's reach.  What it rests on
is proved: every step of a driver's call brings it nearer to its end (`CallsGetShorter`), and whoever owns the mutex is
about to unlock it (`LocksAreReleased`, `LocksOnFlash`).

## Not modelled

- `Semaphore`: `Get` and `Put` each are one call of ThreadX; nothing in the repository uses them.
- `Mutex::Lock` with a timeout: it computes ticks and then passes `TX_WAIT_FOREVER`, so it is the `Lock` of
  `InternalRegistry`.
- `Watchdog`: a task and a periodic timer, as in `Tasks` and `Messages`; whether a refresh is in time
  depends on the milliseconds of an erase and of other tasks, which no model here measures.
- `Singleton`: two lines without state beyond a pointer.
- `DWT_Utility`, `Debug`: arithmetic on a counter of the processor, and printing.
- `MemoryManager` beyond `new` and `delete` of invokers: the byte pool is ThreadX's.
- `~Task`, which nothing calls; the bytes of a `MESSAGE` in the queue; the inside of `std::list`.
- `StartThreadX++`, `TasksManager` (no state) and the demonstration tasks in `src/Tests`.

## What is left

1. `Watchdog` with the erases of the flash, if time is measured in refresh periods.
2. `Mutex` with owners, counts and priority inheritance, on `Threads`.
3. `InternalFlashDriver` under `FlashManagment`: that an aligned write of the one is a sequence of `ProgramWord` of the
   other, as `RegistryOnFlash` does for the layers above.
4. Sleeps over the wrap of the clock: there a sleep may return at once (`SleepsLongEnough` excepts it),
   and one that callbacks hold past its end may last another round of the clock.
5. What `Unregister` promises to an application that is not careful, should the code get a lock for its list.
