------------------------------- MODULE Tasks -------------------------------
(***************************************************************************)
(* The Task class over ThreadX: the construction of a task, which creates  *)
(* its thread running and suspends it then; StartTask, which resumes it    *)
(* and then raises the flag its thread polls; and Sleep_ms, which waits    *)
(* for messages until its time is over and dispatches those that come.     *)
(*                                                                         *)
(* Messages come from interrupts, timers and tasks at any time, and a tick *)
(* can come between any two steps: also between a look at the clock and    *)
(* the wait that follows from it.                                          *)
(***************************************************************************)
EXTENDS Threads

CONSTANTS
  MsPerTick,    \* 1000 / TX_TIMER_TICKS_PER_SECOND
  SleepTimes,   \* the milliseconds the main loop of each task sleeps at a time
  QueueSize,    \* num_message
  MaxMessages   \* bound: messages sent

ASSUME TasksAssumption ==
  /\ MsPerTick \in Nat \ {0}
  /\ SleepTimes \in [Threads -> SUBSET (0 .. TimeWrap - 1)]
  /\ QueueSize \in Nat \ {0}
  /\ MaxMessages \in Nat

VARIABLES
  pc,        \* where the thread of every task is
  child,     \* the task it constructs or starts
  m_start,
  queue,     \* messages in the queue of every task
  sleep,     \* the locals of Sleep_ms, and the history of the sleep
  messages,  \* messages sent so far
  ticked     \* has the clock ticked since the last step of a thread?

task == <<pc, child, m_start, queue, sleep, messages, ticked>>
vars == <<threads, task>>

------------------------------------------------------------------------------
ULONG == 0 .. TimeWrap - 1

\* TX_WAIT_FOREVER, the last ULONG.
Forever == TimeWrap - 1

ToTicks(ms) == ms \div MsPerTick
ToMs(ticks) == (ticks * MsPerTick) % TimeWrap

\* The locals end_sleep_time and time_to_sleep, and whether time is TX_WAIT_FOREVER;
\* history of a sleep that ends: the milliseconds that are not over, the ticks from
\* the last look at the clock to the wait, and whether the end or the clock wraps.
Sleeps == [end : ULONG, rest : ULONG, forever : BOOLEAN,
           owed : ULONG, late : Nat, wraps : BOOLEAN]
NoSleep == [end |-> 0, rest |-> 0, forever |-> FALSE, owed |-> 0, late |-> 0, wraps |-> FALSE]

Goto(t, l) == pc' = [pc EXCEPT ![t] = l]

------------------------------------------------------------------------------
(* Construction and start *)

\* tx_thread_create of the constructor, called by t: the new thread is ready.
Create(t, u) ==
  /\ Runs(t)
  /\ pc[t] = "main"
  /\ status[u] = "none"
  /\ SetStatus(u, "ready")
  /\ Goto(t, "create")
  /\ child' = [child EXCEPT ![t] = u]
  /\ UNCHANGED <<m_start, queue, sleep, messages>>

\* The rest of the constructor.
CreateEnd(t) ==
  /\ Runs(t)
  /\ pc[t] = "create"
  /\ SetStatus(child[t], "suspended")
  /\ Goto(t, "main")
  /\ child' = [child EXCEPT ![t] = t]
  /\ UNCHANGED <<m_start, queue, sleep, messages>>

\* StartTask of u, called by t: tx_thread_resume.
StartTask(t, u) ==
  /\ Runs(t)
  /\ pc[t] = "main"
  /\ status[u] = "suspended"
  /\ SetStatus(u, "ready")
  /\ Goto(t, "start")
  /\ child' = [child EXCEPT ![t] = u]
  /\ UNCHANGED <<m_start, queue, sleep, messages>>

\* Mutant: the flag is raised in the object of the caller.
StartSelf(t) ==
  /\ Runs(t)
  /\ pc[t] = "start"
  /\ m_start' = [m_start EXCEPT ![t] = TRUE]
  /\ Goto(t, "main")
  /\ child' = [child EXCEPT ![t] = t]
  /\ UNCHANGED <<threads, queue, sleep, messages>>

SetStart(t) ==
  /\ Runs(t)
  /\ pc[t] = "start"
  /\ m_start' = [m_start EXCEPT ![child[t]] = TRUE]
  /\ Goto(t, "main")
  /\ child' = [child EXCEPT ![t] = t]
  /\ UNCHANGED <<threads, queue, sleep, messages>>

\* Thread_entry tests the flag.
EnterMain(t) ==
  /\ Runs(t)
  /\ pc[t] = "poll"
  /\ m_start[t]
  /\ Goto(t, "main")
  /\ UNCHANGED <<threads, child, m_start, queue, sleep, messages>>

------------------------------------------------------------------------------
(* Sleep_ms *)

\* A call of Sleep_ms for so many milliseconds notes the end of the sleep.
SleepUntil(t, ms, end) ==
  /\ Runs(t)
  /\ Goto(t, "look")
  /\ sleep' = [sleep EXCEPT ![t] =
       IF ms = Forever
       THEN [NoSleep EXCEPT !.end = end, !.forever = TRUE]
       ELSE [end |-> end, rest |-> 0, forever |-> FALSE, owed |-> ms, late |-> 0,
             wraps |-> time + ToTicks(ms) >= TimeWrap]]
  /\ UNCHANGED <<threads, child, m_start, queue, messages>>

\* Mutant: the sleep ends when the time is one tick short.
CallSleepShort(t, ms) == SleepUntil(t, ms, (time + ToTicks(ms) - 1) % TimeWrap)

\* Mutant: the end of the sleep does not wrap.
CallSleepWide(t, ms) == SleepUntil(t, ms, time + ToTicks(ms))

\* The end is in ticks: what is less than one is dropped; and it wraps.
CallSleep(t, ms) == SleepUntil(t, ms, (time + ToTicks(ms)) % TimeWrap)

\* Sleep_ms(1) of Thread_entry.
Poll(t) == pc[t] = "poll" /\ ~m_start[t] /\ CallSleep(t, 1)

\* Main_loop, which sleeps forever if the application does not override it.
Sleep(t) == pc[t] = "main" /\ \E ms \in SleepTimes[t] : CallSleep(t, ms)

\* The thread reads current_time, before the loop and at the end of its body.
AtLook(t) == Runs(t) /\ pc[t] \in {"look", "callback"}

Over(t) == time >= sleep[t].end /\ ~sleep[t].forever

\* The sleep is over.
Return(t) ==
  /\ AtLook(t)
  /\ Over(t)
  /\ Goto(t, IF m_start[t] THEN "main" ELSE "poll")
  /\ sleep' = [sleep EXCEPT ![t] = NoSleep]
  /\ UNCHANGED <<threads, child, m_start, queue, messages>>

\* Mutant: the time is not subtracted from the end.
LookForEnd(t) ==
  /\ AtLook(t)
  /\ ~Over(t)
  /\ Goto(t, "pull")
  /\ sleep' = [sleep EXCEPT ![t].rest = sleep[t].end, ![t].late = 0]
  /\ UNCHANGED <<threads, child, m_start, queue, messages>>

\* The sleep is not over: its rest is what the thread will wait.
Look(t) ==
  /\ AtLook(t)
  /\ ~Over(t)
  /\ Goto(t, "pull")
  /\ sleep' = [sleep EXCEPT ![t].rest = (TimeWrap + sleep[t].end - time) % TimeWrap, ![t].late = 0]
  /\ UNCHANGED <<threads, child, m_start, queue, messages>>

\* A message is there: its callback runs.
PullMessage(t) ==
  /\ Runs(t)
  /\ pc[t] = "pull"
  /\ queue[t] > 0
  /\ queue' = [queue EXCEPT ![t] = @ - 1]
  /\ Goto(t, "callback")
  /\ sleep' = [sleep EXCEPT ![t].rest = 0]
  /\ UNCHANGED <<threads, child, m_start, messages>>

\* No message: the task waits for one for the rest, if that is a tick, or forever when
\* it reads so in milliseconds; then, or when it need not wait, it looks again.
PullWaits(t) ==
  LET ms == ToMs(sleep[t].rest) IN
  /\ Runs(t)
  /\ pc[t] = "pull"
  /\ queue[t] = 0
  /\ IF ToTicks(ms) > 0
     THEN /\ Wait(t, "queue", IF ms = Forever THEN 0 ELSE ToTicks(ms))
          /\ UNCHANGED <<priority, time>>
     ELSE UNCHANGED threads
  /\ Goto(t, "look")
  /\ sleep' = [sleep EXCEPT ![t].rest = 0]
  /\ UNCHANGED <<child, m_start, queue, messages>>

\* Queue::Push without a timeout: dropped when the queue is full.
Pushed(n) == IF n < QueueSize THEN n + 1 ELSE n

\* NotifyMessage to t: a task that waits has the message at once.
Notify(t) ==
  /\ status[t] # "none"
  /\ messages < MaxMessages
  /\ messages' = messages + 1
  /\ IF status[t] = "queue"
     THEN /\ Wake(t)
          /\ Goto(t, "callback")
          /\ UNCHANGED <<priority, time, queue>>
     ELSE /\ queue' = [queue EXCEPT ![t] = Pushed(@)]
          /\ UNCHANGED <<threads, pc>>
  /\ UNCHANGED <<child, m_start, sleep, ticked>>

------------------------------------------------------------------------------
InSleep(t) == pc[t] \in {"look", "pull", "callback"}

\* Does it sleep, in a sleep that ends, and did no clock wrap?
Counts(t) == InSleep(t) /\ ~sleep[t].forever /\ ~sleep[t].wraps

Less(a, b) == IF a > b THEN a - b ELSE 0

\* The sleep of t after a tick.
Passed(t) ==
  [sleep[t] EXCEPT
     !.owed = Less(@, MsPerTick),
     !.late = IF pc[t] = "pull" /\ Counts(t) THEN @ + 1 ELSE @,
     !.wraps = @ \/ (Counts(t) /\ time = TimeWrap - 1)]

\* A thread takes less than a tick from one step to the next: only a callback of
\* the application may take longer.
Clock ==
  /\ ~ticked \/ \A t \in Threads : Runs(t) => pc[t] = "callback"
  /\ ticked' = TRUE
  /\ Tick
  /\ sleep' = [t \in Threads |-> Passed(t)]
  /\ UNCHANGED <<pc, child, m_start, queue, messages>>

------------------------------------------------------------------------------
\* Before the scheduler starts the application has constructed some tasks, and
\* started some of them.
Init ==
  /\ status \in [Threads -> {"none", "suspended", "ready"}]
  /\ m_start = [t \in Threads |-> status[t] = "ready"]
  /\ \E t \in Threads : m_start[t]
  /\ left = [t \in Threads |-> 0]
  /\ priority \in [Threads -> Priorities]
  /\ time = 0
  /\ pc = [t \in Threads |-> "poll"]
  /\ child = [t \in Threads |-> t]
  /\ queue = [t \in Threads |-> 0]
  /\ sleep = [t \in Threads |-> NoSleep]
  /\ messages = 0
  /\ ticked = FALSE

\* What a thread does by itself once it runs.
Step(t) ==
  /\ \/ CreateEnd(t) \/ SetStart(t) \/ EnterMain(t)
     \/ Poll(t) \/ Look(t) \/ Return(t) \/ PullMessage(t) \/ PullWaits(t)
  /\ ticked' = FALSE

MainSleeps(t) == Sleep(t) /\ ticked' = FALSE

MainCreates(t) == \E u \in Threads : (Create(t, u) \/ StartTask(t, u)) /\ ticked' = FALSE

Next == (\E t \in Threads : Step(t) \/ MainSleeps(t) \/ MainCreates(t) \/ Notify(t)) \/ Clock

\* The clock ticks; a thread that is the most urgent again and again goes on, and
\* the main loops of the application sleep.
Fairness ==
  /\ WF_vars(Clock)
  /\ \A t \in Threads : SF_vars(Step(t)) /\ SF_vars(MainSleeps(t))

Spec == Init /\ [][Next]_vars
FairSpec == Spec /\ Fairness

------------------------------------------------------------------------------
TypeOK ==
  /\ ThreadsTypeOK
  /\ pc \in [Threads -> {"poll", "main", "create", "start", "look", "pull", "callback"}]
  /\ child \in [Threads -> Threads]
  /\ m_start \in [Threads -> BOOLEAN]
  /\ queue \in [Threads -> 0 .. QueueSize]
  /\ sleep \in [Threads -> Sleeps]
  /\ messages \in 0 .. MaxMessages
  /\ ticked \in BOOLEAN

(* In a sleep that ends no wait is forever, and none ends later than the sleep,   *)
(* but for the ticks the task lost from its look at the clock to the wait: however *)
(* often messages interrupted it before and whatever the way of the ticks through *)
(* milliseconds and ULONGs; unless the clock wraps during the sleep.              *)
WaitsInTime ==
  \A t \in Threads :
    status[t] = "queue" /\ ~sleep[t].forever /\ ~sleep[t].wraps =>
      left[t] > 0 /\ time + left[t] <= sleep[t].end + sleep[t].late

(* Sleep_ms returns when less than a tick is missing of the milliseconds it was   *)
(* asked for, however many messages came in between, and never when it was asked  *)
(* to wait forever; unless the clock wraps or the end of the sleep does, when it  *)
(* may return at once.                                                            *)
SleepsLongEnough ==
  [][\A t \in Threads :
       InSleep(t) /\ pc'[t] \in {"main", "poll"} =>
         /\ ~sleep[t].forever
         /\ sleep[t].owed < MsPerTick \/ sleep[t].wraps]_vars

(* The constructor of a task and StartTask work if the thread that calls them is  *)
(* at least as urgent as the task: the constructed task gets suspended, and the   *)
(* started one gets past the flag it polls, or the clock wraps while it polls.    *)
(* A more urgent task never lets its creator, or the one that starts it, go on.   *)
StartProtocol ==
  \A t \in Threads : \A u \in Threads \ {t} :
    /\ pc[t] = "create" /\ child[t] = u /\ priority[t] <= priority[u] ~> status[u] = "suspended"
    /\ pc[t] = "start" /\ child[t] = u /\ priority[t] <= priority[u] ~>
         pc[u] = "main" \/ sleep[u].wraps
==============================================================================
