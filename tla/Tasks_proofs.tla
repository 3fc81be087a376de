---------------------------- MODULE Tasks_proofs ----------------------------
(***************************************************************************)
(* Proofs about tasks, for any threads and priorities, any width of a      *)
(* ULONG and any length of a tick.                                         *)
(***************************************************************************)
EXTENDS Tasks, TLAPS

------------------------------------------------------------------------------
(* The arithmetic of ULONGs, ticks and milliseconds. *)

\* A quotient of natural numbers is at most the dividend.
LEMMA Quotient ==
  ASSUME NEW a \in Nat, NEW b \in Nat \ {0}
  PROVE  a \div b \in 0 .. a
  OBVIOUS

\* A remainder is a ULONG.
LEMMA Remainder ==
  ASSUME NEW a \in Nat
  PROVE  a % TimeWrap \in ULONG
  BY ThreadsAssumption DEF ThreadsAssumption, ULONG

\* The milliseconds of so many ticks, before they wrap.
Ms(ticks) == ticks * MsPerTick

LEMMA MsOfTicks ==
  ASSUME NEW n \in Nat
  PROVE  /\ Ms(n) \in Nat
         /\ Ms(n + 1) = Ms(n) + MsPerTick
         /\ MsPerTick \in Nat /\ MsPerTick > 0
PROOF
<1>1. MsPerTick \in Nat /\ MsPerTick > 0
  BY TasksAssumption DEF TasksAssumption
<1>2. n * MsPerTick \in Nat
  BY <1>1
<1>3. (n + 1) * MsPerTick = n * MsPerTick + MsPerTick
  BY <1>1
<1> QED
  BY <1>1, <1>2, <1>3 DEF Ms

\* The ticks of so many milliseconds fall short of them by less than a tick.
LEMMA TicksOfMs ==
  ASSUME NEW ms \in Nat
  PROVE  /\ ToTicks(ms) \in 0 .. ms
         /\ Ms(ToTicks(ms)) <= ms
         /\ ms < Ms(ToTicks(ms) + 1)
PROOF
<1>1. MsPerTick \in Nat /\ MsPerTick > 0 /\ MsPerTick \in Nat \ {0}
  BY TasksAssumption DEF TasksAssumption
<1> DEFINE q == ms \div MsPerTick
           r == ms % MsPerTick
<1>2. q \in 0 .. ms
  BY <1>1, Quotient
<1>3. r \in Nat /\ r < MsPerTick
  BY <1>1
<1>4. ms = MsPerTick * q + r
  BY <1>1
<1> HIDE DEF q, r
<1>5. MsPerTick * q = q * MsPerTick /\ q * MsPerTick \in Nat
  BY <1>1, <1>2
<1>6. Ms(q) <= ms
  BY <1>3, <1>4, <1>5 DEF Ms
<1>7. ms < Ms(q + 1)
  <2>1. Ms(q + 1) = Ms(q) + MsPerTick
    BY <1>2, MsOfTicks
  <2> QED
    BY <1>1, <1>3, <1>4, <1>5, <2>1 DEF Ms
<1> QED
  BY <1>2, <1>6, <1>7 DEF ToTicks, q

\* Ticks that are made milliseconds and ticks again do not become more.
LEMMA TicksBack ==
  ASSUME NEW n \in Nat
  PROVE  ToTicks(Ms(n)) \in 0 .. n
PROOF
<1> DEFINE q == ToTicks(Ms(n))
<1>1. MsPerTick \in Nat /\ MsPerTick > 0
  BY TasksAssumption DEF TasksAssumption
<1>2. q \in Nat /\ Ms(q) <= Ms(n)
  <2>1. Ms(n) \in Nat
    BY MsOfTicks
  <2> QED
    BY <2>1, TicksOfMs
<1> HIDE DEF q
<1>3. q <= n
  <2> SUFFICES ASSUME q >= n + 1 PROVE FALSE
    BY <1>2
  <2>1. (q - (n + 1)) * MsPerTick >= 0
    BY <1>1, <1>2
  <2>2. (q - (n + 1)) * MsPerTick = q * MsPerTick - n * MsPerTick - MsPerTick
    BY <1>1, <1>2
  <2>3. q * MsPerTick <= n * MsPerTick
    BY <1>2 DEF Ms
  <2>4. q * MsPerTick \in Nat /\ n * MsPerTick \in Nat
    BY <1>1, <1>2
  <2> QED
    BY <1>1, <2>1, <2>2, <2>3, <2>4
<1> QED
  BY <1>2, <1>3 DEF q

------------------------------------------------------------------------------
(* The inductive invariant. *)

\* The ticks until the end of the sleep.
Ahead(t) == IF time < sleep[t].end THEN sleep[t].end - time ELSE 0

\* Only a thread in Sleep_ms waits for a message.
WaitsInLoop == \A t \in Threads : status[t] = "queue" => pc[t] = "look"

\* What a sleep owes is over less than a tick after its end, and no rest of it reads
\* as forever in milliseconds.
EndsInTime ==
  \A t \in Threads : Counts(t) =>
    /\ sleep[t].owed < Ms(Ahead(t) + 1)
    /\ Ms(Ahead(t)) < Forever

\* The rest is what was left at the last look.
RestIsLeft ==
  \A t \in Threads : Counts(t) /\ pc[t] = "pull" =>
    /\ sleep[t].rest > 0
    /\ Ms(sleep[t].rest) < Forever
    /\ time + sleep[t].rest = sleep[t].end + sleep[t].late

Waits ==
  \A t \in Threads : Counts(t) /\ status[t] = "queue" =>
    /\ left[t] > 0
    /\ time + left[t] <= sleep[t].end + sleep[t].late

Sound == EndsInTime /\ RestIsLeft /\ Waits

Invariant == TypeOK /\ WaitsInLoop /\ Sound

LEMMA Ulongs ==
  /\ TimeWrap \in Nat /\ TimeWrap > 1
  /\ Forever \in ULONG /\ Forever = TimeWrap - 1 /\ Forever > 0
  /\ NoSleep \in Sleeps
  BY ThreadsAssumption DEF ThreadsAssumption, Forever, ULONG, NoSleep, Sleeps

LEMMA SleepTyped ==
  ASSUME TypeOK, NEW t \in Threads
  PROVE  /\ sleep[t] \in Sleeps
         /\ sleep[t].end \in ULONG /\ sleep[t].rest \in ULONG /\ sleep[t].owed \in ULONG
         /\ sleep[t].late \in Nat
         /\ sleep[t].forever \in BOOLEAN /\ sleep[t].wraps \in BOOLEAN
         /\ time \in ULONG /\ left[t] \in ULONG
         /\ Ahead(t) \in Nat
PROOF
<1>1. sleep[t] \in Sleeps
  BY DEF TypeOK
<1>2. sleep[t].end \in ULONG /\ time \in ULONG
  BY <1>1 DEF TypeOK, ThreadsTypeOK, Sleeps, ULONG
<1>3. Ahead(t) \in Nat
  BY <1>2, Ulongs DEF Ahead, ULONG
<1> QED
  BY <1>1, <1>2, <1>3 DEF TypeOK, ThreadsTypeOK, Sleeps, ULONG

LEMMA InitInvariant == Init => Invariant
PROOF
<1> USE ThreadsAssumption, TasksAssumption DEF ThreadsAssumption, TasksAssumption
<1> SUFFICES ASSUME Init PROVE Invariant
  OBVIOUS
<1>1. TypeOK
  <2>1. ThreadsTypeOK
    BY DEF Init, ThreadsTypeOK
  <2>2. m_start \in [Threads -> BOOLEAN]
    BY DEF Init
  <2>3. pc \in [Threads -> {"poll", "main", "create", "start", "look", "pull", "callback"}]
    BY DEF Init
  <2>4. child \in [Threads -> Threads]
    BY DEF Init
  <2>5. queue \in [Threads -> 0 .. QueueSize] /\ messages \in 0 .. MaxMessages
    BY DEF Init
  <2>6. ticked \in BOOLEAN
    BY DEF Init
  <2>7. sleep \in [Threads -> Sleeps]
    BY Ulongs DEF Init
  <2> QED
    BY <2>1, <2>2, <2>3, <2>4, <2>5, <2>6, <2>7 DEF TypeOK
<1>2. WaitsInLoop
  BY DEF Init, WaitsInLoop
<1>3. Sound
  BY DEF Init, Sound, EndsInTime, RestIsLeft, Waits, Counts, InSleep
<1> QED
  BY <1>1, <1>2, <1>3 DEF Invariant

\* A step that changes neither the clock nor what the invariant says of any thread.
LEMMA OthersKeep ==
  ASSUME Sound, UNCHANGED time,
         \A u \in Threads :
           Counts(u)' => /\ Counts(u)
                         /\ sleep'[u].end = sleep[u].end /\ sleep'[u].owed = sleep[u].owed
                         /\ sleep'[u].late = sleep[u].late /\ sleep'[u].rest = sleep[u].rest
                         /\ pc'[u] = "pull" => pc[u] = "pull"
                         /\ status'[u] = "queue" => status[u] = "queue" /\ left'[u] = left[u]
  PROVE  Sound'
PROOF
<1>1. ASSUME NEW u \in Threads, Counts(u)'
      PROVE  Ahead(u)' = Ahead(u)
  BY <1>1 DEF Ahead
<1>2. EndsInTime'
  BY <1>1 DEF Sound, EndsInTime
<1>3. RestIsLeft'
  BY DEF Sound, RestIsLeft
<1>4. Waits'
  BY DEF Sound, Waits
<1> QED
  BY <1>2, <1>3, <1>4 DEF Sound

\* A step of t that leaves the clock and the other threads alone.
LEMMA OnlyOne ==
  ASSUME Sound, NEW t \in Threads, UNCHANGED time,
         \A u \in Threads \ {t} :
           /\ pc'[u] = pc[u] /\ sleep'[u] = sleep[u]
           /\ status'[u] = status[u] /\ left'[u] = left[u],
         Counts(t)' =>
           /\ sleep'[t].owed < Ms(Ahead(t) + 1)'
           /\ Ms(Ahead(t))' < Forever
           /\ pc'[t] = "pull" =>
                /\ sleep'[t].rest > 0
                /\ Ms(sleep'[t].rest) < Forever
                /\ time' + sleep'[t].rest = sleep'[t].end + sleep'[t].late
           /\ status'[t] = "queue" =>
                /\ left'[t] > 0
                /\ time' + left'[t] <= sleep'[t].end + sleep'[t].late
  PROVE  Sound'
PROOF
<1>1. ASSUME NEW u \in Threads, u # t
      PROVE  /\ Counts(u)' <=> Counts(u)
             /\ Ahead(u)' = Ahead(u)
  BY <1>1 DEF Counts, InSleep, Ahead
<1>2. EndsInTime'
  BY <1>1 DEF Sound, EndsInTime, Ms
<1>3. RestIsLeft'
  BY <1>1 DEF Sound, RestIsLeft, Ms
<1>4. Waits'
  BY <1>1 DEF Sound, Waits
<1> QED
  BY <1>2, <1>3, <1>4 DEF Sound

------------------------------------------------------------------------------
(* Every step keeps the invariant. *)

\* A call of Sleep_ms notes an end that is as many ticks ahead.
LEMMA CallSleepKeeps ==
  ASSUME Invariant, NEW t \in Threads, NEW ms \in ULONG, CallSleep(t, ms), ticked' = FALSE
  PROVE  Invariant'
PROOF
<1> USE Ulongs
<1> DEFINE ticks == ToTicks(ms)
           end == (time + ticks) % TimeWrap
           locals == IF ms = Forever
                     THEN [NoSleep EXCEPT !.end = end, !.forever = TRUE]
                     ELSE [end |-> end, rest |-> 0, forever |-> FALSE, owed |-> ms,
                           late |-> 0, wraps |-> time + ticks >= TimeWrap]
<1>1. /\ Runs(t)
      /\ sleep' = [sleep EXCEPT ![t] = locals]
      /\ pc' = [pc EXCEPT ![t] = "look"]
      /\ UNCHANGED <<status, left, priority, time, child, m_start, queue, messages>>
  BY DEF CallSleep, SleepUntil, Goto, threads
<1>2. /\ time \in ULONG /\ ms \in Nat /\ ticks \in 0 .. ms
      /\ Ms(ticks) <= ms /\ ms < Ms(ticks + 1)
  BY TicksOfMs, SleepTyped DEF Invariant, ULONG
<1>3. end \in ULONG
  <2>1. time + ticks \in Nat
    BY <1>2 DEF ULONG
  <2> QED
    BY <2>1, Remainder
<1>4. locals \in Sleeps
  <2>1. CASE ms = Forever
    <3>1. locals = [NoSleep EXCEPT !.end = end, !.forever = TRUE]
      BY <2>1
    <3> HIDE DEF locals, end
    <3> QED
      BY <1>3, <3>1 DEF Sleeps, NoSleep
  <2>2. CASE ms # Forever
    <3>1. locals = [end |-> end, rest |-> 0, forever |-> FALSE, owed |-> ms,
                    late |-> 0, wraps |-> time + ticks >= TimeWrap]
      BY <2>2
    <3>2. 0 \in ULONG /\ 0 \in Nat
      BY DEF ULONG
    <3> HIDE DEF locals, end
    <3> QED
      BY <1>3, <3>1, <3>2 DEF Sleeps
  <2> QED
    BY <2>1, <2>2
<1>5. ASSUME ~locals.forever, ~locals.wraps
      PROVE  ms < Forever /\ locals.owed = ms /\ locals.end = time + ticks
  <2>1. ms # Forever
    BY <1>5 DEF NoSleep
  <2>2. locals = [end |-> end, rest |-> 0, forever |-> FALSE, owed |-> ms,
                  late |-> 0, wraps |-> time + ticks >= TimeWrap]
    BY <2>1
  <2>3. ~(time + ticks >= TimeWrap)
    BY <1>5, <2>2
  <2>4. time + ticks < TimeWrap /\ time + ticks \in Nat
    BY <1>2, <2>3 DEF ULONG
  <2>5. end = time + ticks
    <3>1. \A n \in Nat : n < TimeWrap => n % TimeWrap = n
      OBVIOUS
    <3> QED
      BY <2>4, <3>1
  <2> HIDE DEF end, ticks
  <2>6. locals.owed = ms /\ locals.end = end
    BY <2>2
  <2>7. ms < Forever
    BY <2>1, <1>2 DEF ULONG
  <2> HIDE DEF locals
  <2> QED
    BY <2>5, <2>6, <2>7
<1> HIDE DEF locals, end, ticks
<1>6. TypeOK'
  <2>1. sleep' \in [Threads -> Sleeps]
    BY <1>1, <1>4 DEF Invariant, TypeOK
  <2> QED
    BY <1>1, <2>1 DEF Invariant, TypeOK, ThreadsTypeOK
<1>7. WaitsInLoop'
  BY <1>1 DEF Invariant, TypeOK, WaitsInLoop
<1>8. Sound'
  <2>1. sleep'[t] = locals /\ pc'[t] = "look" /\ status'[t] = "ready"
    BY <1>1 DEF Invariant, TypeOK, Runs
  <2>2. ASSUME Counts(t)'
        PROVE  sleep'[t].owed < Ms(Ahead(t) + 1)' /\ Ms(Ahead(t))' < Forever
    <3>1. ms < Forever /\ sleep'[t].owed = ms /\ sleep'[t].end = time + ticks
      BY <1>5, <2>1, <2>2 DEF Counts
    <3>2. Ahead(t)' = ticks
      BY <1>1, <1>2, <3>1 DEF Ahead, ULONG
    <3>3. Ms(ticks) \in Nat
      BY <1>2, MsOfTicks
    <3> QED
      BY <1>2, <3>1, <3>2, <3>3 DEF ULONG, Ms
  <2>3. \A u \in Threads \ {t} :
           /\ pc'[u] = pc[u] /\ sleep'[u] = sleep[u]
           /\ status'[u] = status[u] /\ left'[u] = left[u]
    BY <1>1 DEF Invariant, TypeOK
  <2> QED
    BY <1>1, <2>1, <2>2, <2>3, OnlyOne DEF Invariant
<1> QED
  BY <1>6, <1>7, <1>8 DEF Invariant

\* Construction and start.
LEMMA CreateKeeps ==
  ASSUME Invariant, NEW t \in Threads, NEW u \in Threads, ticked' = FALSE,
         Create(t, u) \/ CreateEnd(t) \/ StartTask(t, u)
  PROVE  Invariant'
PROOF
<1>1. TypeOK'
  <2>1. CASE Create(t, u)
    BY <2>1 DEF Invariant, TypeOK, ThreadsTypeOK, Create, SetStatus, Goto
  <2>2. CASE CreateEnd(t)
    BY <2>2 DEF Invariant, TypeOK, ThreadsTypeOK, CreateEnd, SetStatus, Goto
  <2>3. CASE StartTask(t, u)
    BY <2>3 DEF Invariant, TypeOK, ThreadsTypeOK, StartTask, SetStatus, Goto
  <2> QED
    BY <2>1, <2>2, <2>3
<1>2. WaitsInLoop'
  BY DEF Invariant, TypeOK, ThreadsTypeOK, WaitsInLoop, Create, CreateEnd, StartTask,
         SetStatus, Goto, Runs
<1>3. Sound'
  <2>1. UNCHANGED <<time, sleep, left>>
    BY DEF Create, CreateEnd, StartTask, SetStatus
  <2>2. ASSUME NEW v \in Threads, Counts(v)'
        PROVE  /\ Counts(v)
               /\ pc'[v] = "pull" => pc[v] = "pull"
               /\ status'[v] = "queue" => status[v] = "queue"
    BY <2>1, <2>2
    DEF Invariant, TypeOK, ThreadsTypeOK, Counts, InSleep, Create, CreateEnd, StartTask,
        SetStatus, Goto
  <2> QED
    BY <2>1, <2>2, OthersKeep DEF Invariant
<1> QED
  BY <1>1, <1>2, <1>3 DEF Invariant

\* Steps that take a thread out of a sleep, or that have nothing to do with sleeps.
LEMMA LocalStepKeeps ==
  ASSUME Invariant, NEW t \in Threads, ticked' = FALSE,
         SetStart(t) \/ EnterMain(t) \/ Return(t)
  PROVE  Invariant'
PROOF
<1>1. TypeOK'
  <2>1. CASE SetStart(t)
    BY <2>1 DEF Invariant, TypeOK, ThreadsTypeOK, SetStart, Goto, threads
  <2>2. CASE EnterMain(t)
    BY <2>2 DEF Invariant, TypeOK, ThreadsTypeOK, EnterMain, Goto, threads
  <2>3. CASE Return(t)
    <3>1. sleep' \in [Threads -> Sleeps]
      BY <2>3, Ulongs DEF Invariant, TypeOK, Return
    <3> QED
      BY <2>3, <3>1 DEF Invariant, TypeOK, ThreadsTypeOK, Return, Goto, threads
  <2> QED
    BY <2>1, <2>2, <2>3
<1>2. WaitsInLoop'
  BY DEF Invariant, TypeOK, ThreadsTypeOK, WaitsInLoop, SetStart, EnterMain, Return, AtLook,
         Goto, Runs, threads
<1>3. Sound'
  <2>1. UNCHANGED <<time, status, left>>
    BY DEF SetStart, EnterMain, Return, threads
  <2>2. ASSUME NEW v \in Threads, Counts(v)'
        PROVE  Counts(v) /\ sleep'[v] = sleep[v] /\ (pc'[v] = "pull" => pc[v] = "pull")
    BY <2>2 DEF Invariant, TypeOK, Counts, InSleep, SetStart, EnterMain, Return, Goto
  <2> QED
    BY <2>1, <2>2, OthersKeep DEF Invariant
<1> QED
  BY <1>1, <1>2, <1>3 DEF Invariant

\* A look at the clock during a sleep: the rest is what is ahead, and no tick is lost.
LEMMA LookKeeps ==
  ASSUME Invariant, NEW t \in Threads, ticked' = FALSE, Look(t)
  PROVE  Invariant'
PROOF
<1> USE Ulongs
<1> DEFINE rest == (TimeWrap + sleep[t].end - time) % TimeWrap
<1>1. /\ Runs(t) /\ InSleep(t) /\ ~Over(t)
      /\ sleep' = [sleep EXCEPT ![t].rest = rest, ![t].late = 0]
      /\ pc' = [pc EXCEPT ![t] = "pull"]
      /\ UNCHANGED <<status, left, priority, time, child, m_start, queue, messages>>
  BY DEF Look, AtLook, InSleep, Goto, threads
<1>2. time \in ULONG /\ sleep[t].end \in ULONG /\ sleep[t] \in Sleeps
  BY SleepTyped DEF Invariant
<1>3. rest \in ULONG
  <2>1. TimeWrap + sleep[t].end - time \in Nat
    BY <1>2 DEF ULONG
  <2> QED
    BY <2>1, Remainder
<1>4. ~sleep[t].forever => rest = Ahead(t) /\ rest > 0 /\ time + rest = sleep[t].end
  <2> SUFFICES ASSUME ~sleep[t].forever
               PROVE  rest = Ahead(t) /\ rest > 0 /\ time + rest = sleep[t].end
    OBVIOUS
  <2>1. time < sleep[t].end
    BY <1>1, <1>2 DEF Over, ULONG
  <2>2. sleep[t].end - time \in 1 .. TimeWrap - 1
    BY <1>2, <2>1 DEF ULONG
  <2>3. \A d \in 1 .. TimeWrap - 1 : (TimeWrap + d) % TimeWrap = d
    OBVIOUS
  <2>4. TimeWrap + sleep[t].end - time = TimeWrap + (sleep[t].end - time)
    BY <1>2 DEF ULONG
  <2>5. rest = sleep[t].end - time
    BY <2>2, <2>3, <2>4
  <2> HIDE DEF rest
  <2> QED
    BY <1>2, <2>1, <2>2, <2>5 DEF Ahead, ULONG
<1> HIDE DEF rest
<1>5. /\ sleep'[t] \in Sleeps
      /\ sleep'[t].rest = rest /\ sleep'[t].late = 0
      /\ sleep'[t].end = sleep[t].end /\ sleep'[t].owed = sleep[t].owed
      /\ sleep'[t].forever = sleep[t].forever /\ sleep'[t].wraps = sleep[t].wraps
  BY <1>1, <1>2, <1>3 DEF Invariant, TypeOK, Sleeps
<1>6. TypeOK'
  <2>1. sleep' \in [Threads -> Sleeps]
    BY <1>1, <1>5 DEF Invariant, TypeOK
  <2> QED
    BY <1>1, <2>1 DEF Invariant, TypeOK, ThreadsTypeOK
<1>7. status[t] = "ready"
  BY <1>1 DEF Runs
<1>8. WaitsInLoop'
  BY <1>1, <1>7 DEF Invariant, TypeOK, WaitsInLoop
<1>9. Sound'
  <2>1. ASSUME Counts(t)'
        PROVE  /\ sleep'[t].owed < Ms(Ahead(t) + 1)' /\ Ms(Ahead(t))' < Forever
               /\ sleep'[t].rest > 0
               /\ Ms(sleep'[t].rest) < Forever
               /\ time' + sleep'[t].rest = sleep'[t].end + sleep'[t].late
    <3>1. Counts(t) /\ ~sleep[t].forever
      BY <1>1, <1>5, <2>1 DEF Counts
    <3>2. Ahead(t)' = Ahead(t)
      BY <1>1, <1>5 DEF Ahead
    <3>3. sleep[t].owed < Ms(Ahead(t) + 1) /\ Ms(Ahead(t)) < Forever
      BY <3>1 DEF Invariant, Sound, EndsInTime
    <3>4. sleep'[t].owed < Ms(Ahead(t) + 1)' /\ Ms(Ahead(t))' < Forever
      BY <1>5, <3>2, <3>3 DEF Ms
    <3>5. sleep'[t].rest > 0 /\ Ms(sleep'[t].rest) < Forever
      BY <1>4, <1>5, <3>1, <3>3
    <3>6. time' + sleep'[t].rest = sleep'[t].end + sleep'[t].late
      BY <1>1, <1>2, <1>4, <1>5, <3>1 DEF ULONG
    <3> QED
      BY <3>4, <3>5, <3>6
  <2>2. \A u \in Threads \ {t} :
           /\ pc'[u] = pc[u] /\ sleep'[u] = sleep[u]
           /\ status'[u] = status[u] /\ left'[u] = left[u]
    BY <1>1 DEF Invariant, TypeOK
  <2> QED
    BY <1>1, <1>7, <2>1, <2>2, OnlyOne DEF Invariant
<1> QED
  BY <1>6, <1>8, <1>9 DEF Invariant

LEMMA PullMessageKeeps ==
  ASSUME Invariant, NEW t \in Threads, ticked' = FALSE, PullMessage(t)
  PROVE  Invariant'
PROOF
<1> USE Ulongs, TasksAssumption DEF TasksAssumption
<1>1. sleep' \in [Threads -> Sleeps]
  BY DEF Invariant, TypeOK, PullMessage, Sleeps, ULONG
<1>2. queue' \in [Threads -> 0 .. QueueSize]
  <2>1. queue[t] \in 0 .. QueueSize /\ queue[t] > 0
    BY DEF Invariant, TypeOK, PullMessage
  <2>2. queue[t] - 1 \in 0 .. QueueSize
    BY <2>1
  <2> QED
    BY <2>2 DEF Invariant, TypeOK, PullMessage
<1>3. TypeOK'
  BY <1>1, <1>2 DEF Invariant, TypeOK, ThreadsTypeOK, PullMessage, Goto, threads
<1>4. WaitsInLoop'
  BY DEF Invariant, TypeOK, WaitsInLoop, PullMessage, Runs, Goto, threads
<1>5. Sound'
  <2>1. UNCHANGED <<time, status, left>> /\ status[t] # "queue" /\ InSleep(t)
    BY DEF PullMessage, Runs, InSleep, threads
  <2>2. /\ pc'[t] = "callback"
        /\ sleep'[t].end = sleep[t].end /\ sleep'[t].owed = sleep[t].owed
        /\ sleep'[t].forever = sleep[t].forever /\ sleep'[t].wraps = sleep[t].wraps
    BY DEF Invariant, TypeOK, PullMessage, Goto, Sleeps
  <2>3. ASSUME Counts(t)'
        PROVE  sleep'[t].owed < Ms(Ahead(t) + 1)' /\ Ms(Ahead(t))' < Forever
    <3>1. Counts(t) /\ Ahead(t)' = Ahead(t)
      BY <2>1, <2>2, <2>3 DEF Counts, Ahead
    <3> QED
      BY <2>2, <3>1 DEF Invariant, Sound, EndsInTime, Ms
  <2>4. \A u \in Threads \ {t} : pc'[u] = pc[u] /\ sleep'[u] = sleep[u]
    BY DEF Invariant, TypeOK, PullMessage, Goto
  <2> QED
    BY <2>1, <2>2, <2>3, <2>4, OnlyOne DEF Invariant
<1> QED
  BY <1>3, <1>4, <1>5 DEF Invariant

\* A wait is no longer than the rest, since no rest of a sleep that ends reads as forever.
LEMMA PullWaitsKeeps ==
  ASSUME Invariant, NEW t \in Threads, ticked' = FALSE, PullWaits(t)
  PROVE  Invariant'
PROOF
<1> USE Ulongs
<1> DEFINE ms == ToMs(sleep[t].rest)
           ticks == IF ms = Forever THEN 0 ELSE ToTicks(ms)
<1>1. /\ Runs(t) /\ pc[t] = "pull"
      /\ sleep' = [sleep EXCEPT ![t].rest = 0]
      /\ pc' = [pc EXCEPT ![t] = "look"]
      /\ UNCHANGED <<priority, time, child, m_start, queue, messages>>
      /\ \/ Wait(t, "queue", ticks) /\ ToTicks(ms) > 0
         \/ UNCHANGED <<status, left>>
  BY DEF PullWaits, Goto, threads
<1>2. time \in ULONG /\ sleep[t].end \in ULONG /\ sleep[t].rest \in ULONG /\ sleep[t] \in Sleeps
  BY SleepTyped DEF Invariant
<1>3. ms \in ULONG
  <2>1. Ms(sleep[t].rest) \in Nat
    BY <1>2, MsOfTicks DEF ULONG
  <2>2. ms = Ms(sleep[t].rest) % TimeWrap
    BY DEF ToMs, Ms
  <2> HIDE DEF ms
  <2> QED
    BY <2>1, <2>2, Remainder
<1>4. ticks \in ULONG
  <2>1. ToTicks(ms) \in 0 .. ms
    BY <1>3, TicksOfMs DEF ULONG
  <2> HIDE DEF ms
  <2> QED
    BY <1>3, <2>1 DEF ULONG
<1>5. ASSUME Counts(t)
      PROVE  ms # Forever /\ ToTicks(ms) \in 0 .. sleep[t].rest
  <2>1. Ms(sleep[t].rest) < Forever /\ Ms(sleep[t].rest) \in Nat
    BY <1>1, <1>2, <1>5, MsOfTicks DEF Invariant, Sound, RestIsLeft, ULONG
  <2>2. ms = Ms(sleep[t].rest)
    <3>1. \A n \in Nat : n < TimeWrap => n % TimeWrap = n
      OBVIOUS
    <3> QED
      BY <2>1, <3>1 DEF ToMs, Ms
  <2>3. ToTicks(Ms(sleep[t].rest)) \in 0 .. sleep[t].rest
    BY <1>2, TicksBack DEF ULONG
  <2> HIDE DEF ms
  <2> QED
    BY <2>1, <2>2, <2>3
<1> HIDE DEF ms
<1>6. TypeOK'
  <2>1. sleep' \in [Threads -> Sleeps]
    BY <1>1, <1>2 DEF Invariant, TypeOK, Sleeps, ULONG
  <2>2. ThreadsTypeOK'
    <3>1. CASE Wait(t, "queue", ticks)
      BY <1>1, <1>4, <3>1 DEF Invariant, TypeOK, ThreadsTypeOK, Wait, ULONG
    <3>2. CASE UNCHANGED <<status, left>>
      BY <1>1, <3>2 DEF Invariant, TypeOK, ThreadsTypeOK
    <3> QED
      BY <1>1, <3>1, <3>2
  <2> QED
    BY <1>1, <2>1, <2>2 DEF Invariant, TypeOK
<1>7. \A u \in Threads \ {t} :
        /\ pc'[u] = pc[u] /\ sleep'[u] = sleep[u]
        /\ status'[u] = status[u] /\ left'[u] = left[u]
  BY <1>1 DEF Invariant, TypeOK, ThreadsTypeOK, Wait
<1>8. pc'[t] = "look"
  BY <1>1 DEF Invariant, TypeOK
<1>9. WaitsInLoop'
  BY <1>7, <1>8 DEF Invariant, WaitsInLoop
<1>10. Sound'
  <2>1. /\ sleep'[t].end = sleep[t].end /\ sleep'[t].owed = sleep[t].owed
        /\ sleep'[t].forever = sleep[t].forever /\ sleep'[t].wraps = sleep[t].wraps
        /\ sleep'[t].late = sleep[t].late
    BY <1>1, <1>2 DEF Invariant, TypeOK, Sleeps
  <2>2. Counts(t)' => Counts(t) /\ Ahead(t)' = Ahead(t)
    BY <1>1, <2>1 DEF Counts, InSleep, Ahead
  <2>3. ASSUME Counts(t)'
        PROVE  sleep'[t].owed < Ms(Ahead(t) + 1)' /\ Ms(Ahead(t))' < Forever
    BY <2>1, <2>2, <2>3 DEF Invariant, Sound, EndsInTime, Ms
  <2>4. ASSUME Counts(t)', status'[t] = "queue"
        PROVE  left'[t] > 0 /\ time' + left'[t] <= sleep'[t].end + sleep'[t].late
    <3>1. time + sleep[t].rest = sleep[t].end + sleep[t].late
      BY <1>1, <2>2, <2>4 DEF Invariant, Sound, RestIsLeft
    <3>2. Wait(t, "queue", ticks) /\ ToTicks(ms) > 0
      BY <1>1, <2>4 DEF Runs
    <3>3. left'[t] = ticks /\ ticks = ToTicks(ms)
      BY <1>5, <2>2, <2>4, <3>2 DEF Wait, Invariant, TypeOK, ThreadsTypeOK
    <3>4. sleep[t].late \in Nat
      BY SleepTyped DEF Invariant
    <3> HIDE DEF ticks
    <3> QED
      BY <1>1, <1>2, <1>5, <2>1, <2>2, <2>4, <3>1, <3>2, <3>3, <3>4 DEF ULONG
  <2> QED
    BY <1>1, <1>7, <1>8, <2>3, <2>4, OnlyOne DEF Invariant
<1> QED
  BY <1>6, <1>9, <1>10 DEF Invariant

LEMMA NotifyKeeps ==
  ASSUME Invariant, NEW t \in Threads, Notify(t)
  PROVE  Invariant'
PROOF
<1> USE TasksAssumption, ThreadsAssumption DEF TasksAssumption, ThreadsAssumption
<1>1. messages' \in 0 .. MaxMessages /\ UNCHANGED <<child, m_start, sleep, ticked, time>>
  BY DEF Notify, Invariant, TypeOK, threads
<1>2. CASE status[t] = "queue"
  <2>1. Wake(t) /\ Goto(t, "callback") /\ UNCHANGED <<priority, time, queue>>
    BY <1>2 DEF Notify
  <2>2. TypeOK'
    BY <1>1, <2>1 DEF Invariant, TypeOK, ThreadsTypeOK, Wake, Goto
  <2>3. WaitsInLoop'
    BY <2>1 DEF Invariant, TypeOK, ThreadsTypeOK, WaitsInLoop, Wake, Goto
  <2>4. ASSUME NEW u \in Threads, Counts(u)'
        PROVE  /\ Counts(u)
               /\ pc'[u] = "pull" => pc[u] = "pull"
               /\ status'[u] = "queue" => status[u] = "queue" /\ left'[u] = left[u]
    <3>1. pc[t] = "look"
      BY <1>2 DEF Invariant, WaitsInLoop
    <3> QED
      BY <1>1, <2>1, <2>4, <3>1
      DEF Invariant, TypeOK, ThreadsTypeOK, Wake, Goto, Counts, InSleep
  <2>5. Sound'
    BY <1>1, <2>4, OthersKeep DEF Invariant
  <2> QED
    BY <2>2, <2>3, <2>5 DEF Invariant
<1>3. CASE status[t] # "queue"
  <2>1. queue' = [queue EXCEPT ![t] = Pushed(@)] /\ UNCHANGED <<threads, pc>>
    BY <1>3 DEF Notify
  <2>2. Pushed(queue[t]) \in 0 .. QueueSize
    BY DEF Pushed, Invariant, TypeOK
  <2>3. TypeOK'
    <3>1. queue' \in [Threads -> 0 .. QueueSize]
      BY <2>1, <2>2 DEF Invariant, TypeOK
    <3>2. ThreadsTypeOK'
      BY <2>1 DEF Invariant, TypeOK, ThreadsTypeOK, threads
    <3> QED
      BY <1>1, <2>1, <3>1, <3>2 DEF Invariant, TypeOK
  <2>4. WaitsInLoop'
    BY <2>1 DEF Invariant, WaitsInLoop, threads
  <2>5. Sound'
    BY <1>1, <2>1, OthersKeep DEF Invariant, Counts, InSleep, threads
  <2> QED
    BY <2>3, <2>4, <2>5 DEF Invariant
<1> QED
  BY <1>2, <1>3

\* A tick: without a wrap, one tick less is ahead, one tick less is owed, and what was
\* left to wait has one tick less.
LEMMA ClockKeeps ==
  ASSUME Invariant, Clock
  PROVE  Invariant'
PROOF
<1> USE Ulongs
<1>1. /\ time \in ULONG /\ time' = (time + 1) % TimeWrap
      /\ UNCHANGED <<pc, child, m_start, queue, messages, priority>> /\ ticked' = TRUE
      /\ left' = [t \in Threads |-> IF left[t] > 0 THEN left[t] - 1 ELSE 0]
      /\ status' = [t \in Threads |-> IF left[t] = 1 THEN "ready" ELSE status[t]]
      /\ sleep' = [t \in Threads |-> Passed(t)]
  BY DEF Invariant, TypeOK, ThreadsTypeOK, Clock, Tick, ULONG
<1>2. time' \in ULONG
  <2>1. time + 1 \in Nat
    BY <1>1 DEF ULONG
  <2> QED
    BY <1>1, <2>1, Remainder
<1>3. ASSUME NEW t \in Threads
      PROVE  /\ sleep'[t] \in Sleeps
             /\ sleep'[t].end = sleep[t].end /\ sleep'[t].rest = sleep[t].rest
             /\ sleep'[t].forever = sleep[t].forever
             /\ sleep'[t].owed = Less(sleep[t].owed, MsPerTick)
             /\ sleep'[t].late = IF pc[t] = "pull" /\ Counts(t) THEN sleep[t].late + 1
                                                              ELSE sleep[t].late
             /\ sleep'[t].wraps = (sleep[t].wraps \/ (Counts(t) /\ time = TimeWrap - 1))
  <2>1. sleep[t] \in Sleeps /\ sleep[t].owed \in ULONG /\ sleep[t].late \in Nat
    BY SleepTyped DEF Invariant
  <2>2. Less(sleep[t].owed, MsPerTick) \in ULONG
    BY <2>1, TasksAssumption DEF TasksAssumption, Less, ULONG
  <2> DEFINE owed == Less(sleep[t].owed, MsPerTick)
             late == IF pc[t] = "pull" /\ Counts(t) THEN sleep[t].late + 1 ELSE sleep[t].late
             wraps == sleep[t].wraps \/ (Counts(t) /\ time = TimeWrap - 1)
  <2>3. owed \in ULONG /\ late \in Nat
    BY <2>1, <2>2
  <2>4. wraps \in BOOLEAN
    BY DEF Counts, InSleep
  <2>5. sleep'[t] = [sleep[t] EXCEPT !.owed = owed, !.late = late, !.wraps = wraps]
    BY <1>1 DEF Passed
  <2> HIDE DEF owed, late, wraps
  <2>6. /\ sleep'[t] \in Sleeps
        /\ sleep'[t].end = sleep[t].end /\ sleep'[t].rest = sleep[t].rest
        /\ sleep'[t].forever = sleep[t].forever
        /\ sleep'[t].owed = owed /\ sleep'[t].late = late /\ sleep'[t].wraps = wraps
    BY <2>1, <2>3, <2>4, <2>5 DEF Sleeps
  <2> QED
    BY <2>6 DEF owed, late, wraps
<1>4. TypeOK'
  <2>1. sleep' \in [Threads -> Sleeps]
    BY <1>1, <1>3
  <2>2. ThreadsTypeOK'
    BY <1>1, <1>2 DEF Invariant, TypeOK, ThreadsTypeOK, ULONG
  <2> QED
    BY <1>1, <2>1, <2>2 DEF Invariant, TypeOK
<1>5. WaitsInLoop'
  BY <1>1 DEF Invariant, TypeOK, ThreadsTypeOK, WaitsInLoop
<1>6. ASSUME NEW t \in Threads, Counts(t)'
      PROVE  Counts(t) /\ time' = time + 1
  <2>1. Counts(t) /\ time # TimeWrap - 1
    BY <1>1, <1>3, <1>6, SleepTyped DEF Counts, InSleep, Invariant
  <2>2. time + 1 \in Nat /\ time + 1 < TimeWrap
    BY <1>1, <2>1 DEF ULONG
  <2>3. \A n \in Nat : n < TimeWrap => n % TimeWrap = n
    OBVIOUS
  <2> QED
    BY <1>1, <2>1, <2>2, <2>3
<1>7. EndsInTime'
  <2> SUFFICES ASSUME NEW t \in Threads, Counts(t)'
               PROVE  sleep'[t].owed < Ms(Ahead(t) + 1)' /\ Ms(Ahead(t))' < Forever
    BY DEF EndsInTime
  <2>1. /\ Counts(t) /\ time' = time + 1
        /\ sleep[t].owed < Ms(Ahead(t) + 1) /\ Ms(Ahead(t)) < Forever
    BY <1>6 DEF Invariant, Sound, EndsInTime
  <2>2. time \in Nat /\ sleep[t].end \in Nat /\ sleep[t].owed \in Nat /\ Ahead(t) \in Nat
    BY SleepTyped DEF Invariant, ULONG
  <2>3. MsPerTick \in Nat /\ MsPerTick > 0
    BY TasksAssumption DEF TasksAssumption
  <2>4. sleep'[t].owed = Less(sleep[t].owed, MsPerTick) /\ sleep'[t].end = sleep[t].end
    BY <1>3
  <2>5. CASE Ahead(t) = 0
    <3>1. Ahead(t)' = 0
      BY <2>1, <2>2, <2>4, <2>5 DEF Ahead
    <3>2. Ms(Ahead(t) + 1) = MsPerTick /\ Ms(Ahead(t)) = 0 /\ Ms(1) = MsPerTick
      BY <2>3, <2>5 DEF Ms
    <3>3. Ms(Ahead(t) + 1)' = MsPerTick /\ Ms(Ahead(t))' = 0
      BY <2>3, <3>1 DEF Ms
    <3>4. sleep'[t].owed = 0
      BY <2>1, <2>2, <2>3, <2>4, <3>2 DEF Less
    <3> QED
      BY <2>3, <3>3, <3>4
  <2>6. CASE Ahead(t) > 0
    <3>1. Ahead(t)' = Ahead(t) - 1 /\ Ahead(t) - 1 \in Nat
      BY <2>1, <2>2, <2>4, <2>6 DEF Ahead
    <3> DEFINE n == Ahead(t) - 1
    <3>2. Ms(n) \in Nat /\ Ms(n + 1) = Ms(n) + MsPerTick /\ Ms(n + 2) = Ms(n) + 2 * MsPerTick
      <4>1. n \in Nat /\ n + 1 \in Nat /\ (n + 1) + 1 = n + 2
        BY <3>1
      <4> HIDE DEF n
      <4> QED
        BY <2>3, <4>1, MsOfTicks
    <3>3. n + 1 = Ahead(t) /\ n + 2 = Ahead(t) + 1
      BY <2>2
    <3>4. Ms(Ahead(t) + 1)' = Ms(n + 1) /\ Ms(Ahead(t))' = Ms(n)
      BY <3>1 DEF Ms
    <3> HIDE DEF n
    <3>5. sleep[t].owed < Ms(n) + 2 * MsPerTick /\ Ms(n) + MsPerTick < Forever
      BY <2>1, <3>2, <3>3
    <3>6. sleep'[t].owed < Ms(n) + MsPerTick
      BY <2>2, <2>3, <2>4, <3>2, <3>5 DEF Less
    <3> QED
      BY <2>3, <3>2, <3>4, <3>5, <3>6
  <2> QED
    BY <2>2, <2>5, <2>6
<1>8. RestIsLeft'
  <2> SUFFICES ASSUME NEW t \in Threads, Counts(t)', pc'[t] = "pull"
               PROVE  /\ sleep'[t].rest > 0
                      /\ Ms(sleep'[t].rest) < Forever
                      /\ time' + sleep'[t].rest = sleep'[t].end + sleep'[t].late
    BY DEF RestIsLeft, Ms
  <2>1. Counts(t) /\ time' = time + 1 /\ pc[t] = "pull"
    BY <1>1, <1>6
  <2>2. /\ sleep[t].rest > 0 /\ Ms(sleep[t].rest) < Forever
        /\ time + sleep[t].rest = sleep[t].end + sleep[t].late
    BY <2>1 DEF Invariant, Sound, RestIsLeft
  <2>3. sleep[t].rest \in Nat /\ sleep[t].end \in Nat /\ sleep[t].late \in Nat /\ time \in Nat
    BY SleepTyped DEF Invariant, ULONG
  <2>4. sleep'[t].rest = sleep[t].rest /\ sleep'[t].end = sleep[t].end /\ sleep'[t].late = sleep[t].late + 1
    BY <1>3, <2>1
  <2> QED
    BY <2>1, <2>2, <2>3, <2>4
<1>9. Waits'
  <2> SUFFICES ASSUME NEW t \in Threads, Counts(t)', status'[t] = "queue"
               PROVE  /\ left'[t] > 0
                      /\ time' + left'[t] <= sleep'[t].end + sleep'[t].late
    BY DEF Waits
  <2>1. Counts(t) /\ time' = time + 1 /\ status[t] = "queue" /\ left[t] # 1
    BY <1>1, <1>6
  <2>2. pc[t] = "look"
    BY <2>1 DEF Invariant, WaitsInLoop
  <2>3. left[t] > 0 /\ time + left[t] <= sleep[t].end + sleep[t].late
    BY <2>1 DEF Invariant, Sound, Waits
  <2>4. left[t] \in Nat /\ sleep[t].end \in Nat /\ sleep[t].late \in Nat /\ time \in Nat
    BY SleepTyped DEF Invariant, ULONG
  <2>5. left'[t] = left[t] - 1 /\ sleep'[t].end = sleep[t].end /\ sleep'[t].late = sleep[t].late
    BY <1>1, <1>3, <2>2, <2>3
  <2> QED
    BY <2>1, <2>3, <2>4, <2>5
<1> QED
  BY <1>4, <1>5, <1>7, <1>8, <1>9 DEF Invariant, Sound

LEMMA NextKeeps == Invariant /\ [Next]_vars => Invariant'
PROOF
<1> SUFFICES ASSUME Invariant, [Next]_vars PROVE Invariant'
  OBVIOUS
<1>1. ASSUME NEW t \in Threads, Step(t) PROVE Invariant'
  <2>1. CASE Poll(t)
    <3>1. CallSleep(t, 1) /\ ticked' = FALSE /\ 1 \in ULONG
      BY <1>1, <2>1, Ulongs DEF Step, Poll, ULONG
    <3> QED
      BY <3>1, CallSleepKeeps
  <2>2. CASE CreateEnd(t)
    BY <1>1, <2>2, CreateKeeps DEF Step
  <2>3. CASE SetStart(t) \/ EnterMain(t) \/ Return(t)
    BY <1>1, <2>3, LocalStepKeeps DEF Step
  <2>4. CASE Look(t)
    BY <1>1, <2>4, LookKeeps DEF Step
  <2>5. CASE PullMessage(t)
    BY <1>1, <2>5, PullMessageKeeps DEF Step
  <2>6. CASE PullWaits(t)
    BY <1>1, <2>6, PullWaitsKeeps DEF Step
  <2> QED
    BY <1>1, <2>1, <2>2, <2>3, <2>4, <2>5, <2>6 DEF Step
<1>2. ASSUME NEW t \in Threads, MainSleeps(t) PROVE Invariant'
  <2>1. PICK ms \in SleepTimes[t] : CallSleep(t, ms)
    BY <1>2 DEF MainSleeps, Sleep
  <2>2. ms \in ULONG
    BY <2>1, TasksAssumption DEF TasksAssumption, ULONG
  <2> QED
    BY <1>2, <2>1, <2>2, CallSleepKeeps DEF MainSleeps
<1>3. ASSUME NEW t \in Threads, MainCreates(t) PROVE Invariant'
  BY <1>3, CreateKeeps DEF MainCreates
<1>4. ASSUME NEW t \in Threads, Notify(t) PROVE Invariant'
  BY <1>4, NotifyKeeps
<1>5. CASE Clock
  BY <1>5, ClockKeeps
<1>6. CASE UNCHANGED vars
  <2>1. TypeOK' /\ WaitsInLoop'
    BY <1>6 DEF Invariant, TypeOK, ThreadsTypeOK, WaitsInLoop, vars, threads, task
  <2>2. Sound'
    BY <1>6, OthersKeep DEF Invariant, Counts, InSleep, vars, threads, task
  <2> QED
    BY <2>1, <2>2 DEF Invariant
<1> QED
  BY <1>1, <1>2, <1>3, <1>4, <1>5, <1>6 DEF Next

LEMMA AlwaysInvariant == Spec => []Invariant
  BY InitInvariant, NextKeeps, PTL DEF Spec

------------------------------------------------------------------------------
(* The threads, the tasks and what they do with ULONGs keep their types: the queue *)
(* of a task stays within its size, and the end of a sleep is a ULONG.             *)
THEOREM TaskTypes == FairSpec => []TypeOK
PROOF
<1>1. Invariant => TypeOK
  BY DEF Invariant
<1> QED
  BY <1>1, AlwaysInvariant, PTL DEF FairSpec

\* Only the return from Sleep_ms takes a thread out of its loop.
LEMMA ReturnsWhenOver ==
  ASSUME Invariant, Next, NEW t \in Threads, InSleep(t), pc'[t] \in {"main", "poll"}
  PROVE  Over(t)
PROOF
<1>1. ASSUME NEW u \in Threads, Step(u) PROVE Over(t)
  <2>1. CASE Return(u)
    BY <2>1 DEF Invariant, TypeOK, Return, Goto, InSleep
  <2>2. CASE CreateEnd(u) \/ SetStart(u) \/ EnterMain(u)
    BY <2>2 DEF Invariant, TypeOK, CreateEnd, SetStart, EnterMain, Goto, InSleep
  <2>3. CASE Poll(u) \/ Look(u) \/ PullMessage(u) \/ PullWaits(u)
    BY <2>3 DEF Invariant, TypeOK, Poll, CallSleep, SleepUntil, Look, PullMessage, PullWaits,
                Goto, InSleep
  <2> QED
    BY <1>1, <2>1, <2>2, <2>3 DEF Step
<1>2. ASSUME NEW u \in Threads, MainSleeps(u) \/ MainCreates(u) \/ Notify(u) PROVE Over(t)
  BY <1>2 DEF Invariant, TypeOK, MainSleeps, Sleep, CallSleep, SleepUntil, MainCreates, Create,
              StartTask, Notify, Goto, InSleep
<1>3. CASE Clock
  BY <1>3 DEF Clock, InSleep
<1> QED
  BY <1>1, <1>2, <1>3 DEF Next

(* Whatever messages interrupt it and however its milliseconds become ticks and   *)
(* ULONGs wrap in between, Sleep_ms returns only when less than a tick is missing, *)
(* or if the clock or the end of the sleep wrapped.                               *)
THEOREM SleepsAreLong == FairSpec => SleepsLongEnough
PROOF
<1>1. Invariant /\ [Next]_vars
      => [\A t \in Threads :
            InSleep(t) /\ pc'[t] \in {"main", "poll"} =>
              /\ ~sleep[t].forever
              /\ sleep[t].owed < MsPerTick \/ sleep[t].wraps]_vars
  <2> SUFFICES ASSUME Invariant, Next, NEW t \in Threads,
                      InSleep(t), pc'[t] \in {"main", "poll"}
               PROVE  ~sleep[t].forever /\ (sleep[t].owed < MsPerTick \/ sleep[t].wraps)
    OBVIOUS
  <2>1. time >= sleep[t].end /\ ~sleep[t].forever
    BY ReturnsWhenOver DEF Over
  <2>2. ASSUME ~sleep[t].wraps PROVE sleep[t].owed < MsPerTick
    <3>1. sleep[t].owed < Ms(Ahead(t) + 1)
      BY <2>1, <2>2 DEF Invariant, Sound, EndsInTime, Counts
    <3>2. Ahead(t) = 0
      <4>1. time \in ULONG /\ sleep[t].end \in ULONG
        BY SleepTyped DEF Invariant
      <4> QED
        BY <2>1, <4>1, Ulongs DEF Ahead, ULONG
    <3>3. Ms(Ahead(t) + 1) = MsPerTick
      BY <3>2, TasksAssumption DEF Ms, TasksAssumption
    <3> QED
      BY <3>1, <3>3
  <2> QED
    BY <2>1, <2>2
<1> QED
  BY <1>1, AlwaysInvariant, PTL DEF FairSpec, Spec, SleepsLongEnough

(* For any messages, preemption, length of a tick and width of a ULONG, no wait of *)
(* a sleep that ends outlasts it but for the ticks lost before the wait began.    *)
THEOREM WaitsAreInTime == FairSpec => []WaitsInTime
PROOF
<1>1. Invariant => WaitsInTime
  BY DEF Invariant, Sound, Waits, WaitsInLoop, WaitsInTime, Counts, InSleep
<1> QED
  BY <1>1, AlwaysInvariant, PTL DEF FairSpec
==============================================================================
