------------------------------ MODULE Messages ------------------------------
(***************************************************************************)
(* Events, timer events and the queues of the tasks that handle them.      *)
(*                                                                         *)
(* A subscription is an invoker, allocated from the memory pool: it knows  *)
(* the task that runs the callback, and holds the one parameter the        *)
(* callback gets.  Invoking an event walks the list of its invokers and    *)
(* sends each task a message that is the address of the invoker; the task  *)
(* follows that address when it takes the message out of its queue.  Tasks *)
(* preempt one another between any two of these steps, and no lock         *)
(* protects the list, the invokers or the pool.                            *)
(*                                                                         *)
(* Operations on events and timers, from a callback or from the main loop, *)
(* begin whenever the task is in none.  A change of the list is one step,  *)
(* and so is the search of Unregister, but not the search with the change. *)
(***************************************************************************)
EXTENDS Naturals, SequencesExt

CONSTANTS
  Tasks,       \* each with a queue, each may use the events and the timers
  Events,
  Timers,      \* TimeEvent objects
  Invokers,    \* addresses of the memory pool an invoker can have
  None,        \* not an address and not a task: the end of a list, free memory
  QueueSize,   \* num_message
  MaxInvokes,  \* bound: calls of Event::Invoke, numbered by their parameters
  Careful      \* does the application delete an invoker only when no message
               \* points to it and no other task is at work on its event, and
               \* keep off an event while a task takes an invoker out of it?

ASSUME MessagesAssumption ==
  /\ None \notin Invokers \cup Tasks \cup Events \cup Timers
  /\ Events \cap Timers = {} /\ Events \cap Tasks = {} /\ Tasks \cap Timers = {}
  /\ QueueSize \in Nat \ {0}
  /\ MaxInvokes \in Nat
  /\ Careful \in BOOLEAN

VARIABLES
  heap,         \* the invoker at an address: its task and its m_param
  m_invokeres,  \* the list of every event
  timer,        \* the invoker of every TimeEvent, and whether its TX_TIMER runs
  queue,        \* the messages of every task
  thread,       \* the operation every task is in, and its locals
  invokes,      \* parameters of the calls of Invoke so far: 1 .. invokes
  ended         \* history: the parameters of those that ended, by event

vars == <<heap, m_invokeres, timer, queue, thread, invokes, ended>>

------------------------------------------------------------------------------
Params == 0 .. MaxInvokes

\* What m_param holds before the first SetParam: whatever was in the memory.
Uninitialised == 0

Free == [task |-> None, param |-> Uninitialised]

Invoker(t) == [task |-> t, param |-> Uninitialised]

\* A message is the address of an invoker; past are the parameters of the
\* calls of Invoke that had ended when the one that sent it began (history).
EventMessage(n, past) == [invoker |-> n, past |-> past]

NoTimer == [invoker |-> None, runs |-> "no"]

NormalMessage == [invoker |-> None, past |-> {}]

\* A task in an operation on the invoker n of e.
At(l, e, n) == [pc |-> l, event |-> e, node |-> n, param |-> 0, past |-> {}]

Idle == At("idle", None, None)

InList(e, n) == n \in Range(m_invokeres[e])

First(e) == IF m_invokeres[e] = << >> THEN None ELSE Head(m_invokeres[e])

\* Where the iterator goes from n; out of a node that was removed, anywhere.
Following(e, n) ==
  IF InList(e, n)
  THEN {IF k = Len(m_invokeres[e]) THEN None ELSE m_invokeres[e][k + 1] :
          k \in {j \in DOMAIN m_invokeres[e] : m_invokeres[e][j] = n}}
  ELSE Invokers \cup {None}

\* Mutant: a full queue takes the message and loses its count.
PushAnyway(t, msg) == queue' = [queue EXCEPT ![t] = Append(@, msg)]

\* Queue::Push without a timeout: dropped when the queue is full.
Push(t, msg) ==
  queue' = IF Len(queue[t]) < QueueSize
           THEN [queue EXCEPT ![t] = Append(@, msg)] ELSE queue

\* Class_invoker_base::SendMsg; freed memory sends nothing the model follows.
SendMsg(n, past) ==
  IF heap[n].task \in Tasks THEN Push(heap[n].task, EventMessage(n, past))
                            ELSE UNCHANGED queue

Begin(t, op) == thread[t].pc = "idle" /\ thread' = [thread EXCEPT ![t] = op]
Goto(t, op) == thread' = [thread EXCEPT ![t] = op]

------------------------------------------------------------------------------
(* What a careful application checks before it deletes, and before it uses an event. *)

\* The messages sent to t that it has not handled yet: in its queue, or in hand.
Pending(t) ==
  Range(queue[t])
  \cup IF thread[t].pc = "dispatch" THEN {EventMessage(thread[t].node, thread[t].past)} ELSE {}

PointedTo(n) == \E t \in Tasks : \E msg \in Pending(t) : msg.invoker = n

AtWork(e) == {t \in Tasks : thread[t].event = e}

MayDelete(e, n) == Careful => AtWork(e) = {} /\ ~PointedTo(n)

MayUse(e) == Careful => \A t \in AtWork(e) : thread[t].pc # "remove"

------------------------------------------------------------------------------
(* Event *)

\* operator new; t is the task that subscribes s.
New(t, n, s, op) ==
  /\ heap[n] = Free
  /\ heap' = [heap EXCEPT ![n] = Invoker(s)]
  /\ Begin(t, op)

\* operator new without memory: the task loops there for good.
NewFails(t) ==
  /\ \A n \in Invokers : heap[n] # Free
  /\ Begin(t, At("stuck", None, None))
  /\ UNCHANGED <<heap, m_invokeres, timer, queue, invokes, ended>>

Register(t, e, s) ==
  /\ MayUse(e)
  /\ \E n \in Invokers : New(t, n, s, At("push_back", e, n))
  /\ UNCHANGED <<m_invokeres, timer, queue, invokes, ended>>

PushBack(t) ==
  /\ thread[t].pc = "push_back"
  /\ m_invokeres' = [m_invokeres EXCEPT ![thread[t].event] = Append(@, thread[t].node)]
  /\ Goto(t, Idle)
  /\ UNCHANGED <<heap, timer, queue, invokes, ended>>

\* The first invoker of s in the list is found; without one, nothing happens.
Unregister(t, e, s) ==
  /\ \E k \in DOMAIN m_invokeres[e] :
       /\ MayDelete(e, m_invokeres[e][k])
       /\ heap[m_invokeres[e][k]].task = s
       /\ \A j \in 1 .. k - 1 : heap[m_invokeres[e][j]].task # s
       /\ Begin(t, At("remove", e, m_invokeres[e][k]))
  /\ UNCHANGED <<heap, m_invokeres, timer, queue, invokes, ended>>

\* list::remove of its address, which is there once, if nothing was deleted twice
\* before, or not any more, when another task has unregistered it since.
RemoveInvoker(t) ==
  LET e == thread[t].event
      n == thread[t].node
  IN
  /\ thread[t].pc = "remove"
  /\ IF InList(e, n)
     THEN \E k \in DOMAIN m_invokeres[e] :
            /\ m_invokeres[e][k] = n
            /\ m_invokeres' = [m_invokeres EXCEPT ![e] = RemoveAt(@, k)]
     ELSE UNCHANGED m_invokeres
  /\ Goto(t, At("delete", e, n))
  /\ UNCHANGED <<heap, timer, queue, invokes, ended>>

\* Mutant: the invoker is taken from the list and not deleted.
DeleteNothing(t) ==
  /\ thread[t].pc = "delete"
  /\ Goto(t, Idle)
  /\ UNCHANGED <<heap, m_invokeres, timer, queue, invokes, ended>>

\* operator delete, of Unregister and of ~TimeEvent, also of what is free already.
Delete(t) ==
  /\ thread[t].pc = "delete"
  /\ heap' = [heap EXCEPT ![thread[t].node] = Free]
  /\ Goto(t, Idle)
  /\ UNCHANGED <<m_invokeres, timer, queue, invokes, ended>>

Invoke(t, e) ==
  /\ invokes < MaxInvokes
  /\ MayUse(e)
  /\ invokes' = invokes + 1
  /\ Begin(t, [pc |-> "set_param", event |-> e, node |-> First(e), param |-> invokes + 1,
               past |-> ended[e] \cup {Uninitialised}])
  /\ UNCHANGED <<heap, m_invokeres, timer, queue, ended>>

\* Mutant: the parameter is set when the invoker has none yet.
SetParamOnce(t) ==
  LET n == thread[t].node IN
  /\ thread[t].pc = "set_param"
  /\ n # None
  /\ heap' = IF heap[n].param = Uninitialised THEN [heap EXCEPT ![n].param = thread[t].param] ELSE heap
  /\ Goto(t, [thread[t] EXCEPT !.pc = "send"])
  /\ UNCHANGED <<m_invokeres, timer, queue, invokes, ended>>

SetParam(t) ==
  LET n == thread[t].node IN
  /\ thread[t].pc = "set_param"
  /\ n # None
  /\ heap' = IF heap[n] = Free THEN heap ELSE [heap EXCEPT ![n].param = thread[t].param]
  /\ Goto(t, [thread[t] EXCEPT !.pc = "send"])
  /\ UNCHANGED <<m_invokeres, timer, queue, invokes, ended>>

Send(t) ==
  LET n == thread[t].node IN
  /\ thread[t].pc = "send"
  /\ SendMsg(n, thread[t].past)
  /\ \E next \in Following(thread[t].event, n) :
       Goto(t, [thread[t] EXCEPT !.pc = "set_param", !.node = next])
  /\ UNCHANGED <<heap, m_invokeres, timer, invokes, ended>>

InvokeEnd(t) ==
  /\ thread[t].pc = "set_param"
  /\ thread[t].node = None
  /\ ended' = [ended EXCEPT ![thread[t].event] = @ \cup {thread[t].param}]
  /\ Goto(t, Idle)
  /\ UNCHANGED <<heap, m_invokeres, timer, queue, invokes>>

------------------------------------------------------------------------------
(* TimeEvent: the timer is created after its invoker, and deleted before it. *)

NewTimeEvent(t, k, s) ==
  /\ timer[k] = NoTimer
  /\ AtWork(k) = {}
  /\ \E n \in Invokers :
       New(t, n, s, At("timer_create", k, n))
  /\ UNCHANGED <<m_invokeres, timer, queue, invokes, ended>>

TimerCreate(t) ==
  /\ thread[t].pc = "timer_create"
  /\ \E runs \in {"once", "periodic"} :
       timer' = [timer EXCEPT ![thread[t].event] = [invoker |-> thread[t].node, runs |-> runs]]
  /\ Goto(t, Idle)
  /\ UNCHANGED <<heap, m_invokeres, queue, invokes, ended>>

\* The timer thread of ThreadX runs TimerExpired.
TimerExpired(k) ==
  /\ timer[k].runs \in {"once", "periodic"}
  /\ SendMsg(timer[k].invoker, {})
  /\ timer' = [timer EXCEPT ![k].runs = IF @ = "once" THEN "over" ELSE @]
  /\ UNCHANGED <<heap, m_invokeres, thread, invokes, ended>>

\* Mutant: the invoker is deleted while the timer still runs.
DestroyKeepsTimer(t, k) ==
  /\ timer[k] # NoTimer
  /\ MayDelete(k, timer[k].invoker)
  /\ Begin(t, At("delete", k, timer[k].invoker))
  /\ UNCHANGED <<heap, m_invokeres, timer, queue, invokes, ended>>

\* ~TimeEvent up to its delete.
Destroy(t, k) ==
  /\ timer[k] # NoTimer
  /\ MayDelete(k, timer[k].invoker)
  /\ timer' = [timer EXCEPT ![k] = NoTimer]
  /\ Begin(t, At("delete", k, timer[k].invoker))
  /\ UNCHANGED <<heap, m_invokeres, queue, invokes, ended>>

------------------------------------------------------------------------------
(* MessageHandler and the dispatch of Task::Sleep_ms *)

\* NotifyMessage with a value, from any task.
NotifyMessage(t) ==
  /\ Push(t, NormalMessage)
  /\ UNCHANGED <<heap, m_invokeres, timer, thread, invokes, ended>>

\* The task takes a message out of its queue: the invoker it will follow.
Pull(t) ==
  /\ queue[t] # << >>
  /\ queue' = [queue EXCEPT ![t] = Tail(@)]
  /\ LET msg == queue[t][1] IN
     Begin(t, [At("dispatch", None, msg.invoker) EXCEPT !.past = msg.past])
  /\ UNCHANGED <<heap, m_invokeres, timer, invokes, ended>>

\* ReceiveMsg, or Invoke of the invoker, which reads m_param and calls back.
Dispatch(t) ==
  /\ thread[t].pc = "dispatch"
  /\ Goto(t, Idle)
  /\ UNCHANGED <<heap, m_invokeres, timer, queue, invokes, ended>>

------------------------------------------------------------------------------
Init ==
  /\ heap = [n \in Invokers |-> Free]
  /\ m_invokeres = [e \in Events |-> << >>]
  /\ timer = [k \in Timers |-> NoTimer]
  /\ queue = [t \in Tasks |-> << >>]
  /\ thread = [t \in Tasks |-> Idle]
  /\ invokes = 0
  /\ ended = [e \in Events |-> {}]

Next ==
  \/ \E t \in Tasks :
       \/ NewFails(t) \/ PushBack(t) \/ RemoveInvoker(t) \/ Delete(t)
       \/ SetParam(t) \/ Send(t) \/ InvokeEnd(t) \/ TimerCreate(t)
       \/ NotifyMessage(t) \/ Pull(t) \/ Dispatch(t)
       \/ \E e \in Events : Invoke(t, e)
       \/ \E e \in Events, s \in Tasks : Register(t, e, s) \/ Unregister(t, e, s)
       \/ \E k \in Timers : Destroy(t, k)
       \/ \E k \in Timers, s \in Tasks : NewTimeEvent(t, k, s)
  \/ \E k \in Timers : TimerExpired(k)

Spec == Init /\ [][Next]_vars

------------------------------------------------------------------------------
Message == [invoker : Invokers \cup {None}, past : SUBSET Params]

Operation ==
  [pc : {"idle", "push_back", "remove", "delete", "set_param", "send", "timer_create", "stuck",
        "dispatch"},
   event : Events \cup Timers \cup {None}, node : Invokers \cup {None},
   param : Params, past : SUBSET Params]

TypeOK ==
  /\ heap \in [Invokers -> [task : Tasks \cup {None}, param : Params]]
  /\ m_invokeres \in [Events -> Seq(Invokers)]
  /\ timer \in [Timers -> [invoker : Invokers \cup {None},
                           runs : {"no", "once", "periodic", "over"}]]
  /\ queue \in [Tasks -> Seq(Message)]
  /\ \A t \in Tasks : Len(queue[t]) <= QueueSize
  /\ thread \in [Tasks -> Operation]
  /\ invokes \in Params
  /\ ended \in [Events -> SUBSET Params]

Holds(t, n) == thread[t].pc \in {"push_back", "timer_create", "delete"} /\ thread[t].node = n

(* The places that own the invoker at an address: in the list of an event, a *)
(* timer, or an operation between allocating it and linking it, or between   *)
(* unlinking and deleting it.                                                *)
Owners(n) ==
  (UNION {{[of |-> e, at |-> k] : k \in {j \in DOMAIN m_invokeres[e] : m_invokeres[e][j] = n}} :
          e \in Events})
  \cup {[of |-> k, at |-> 0] : k \in {j \in Timers : timer[j].invoker = n}}
  \cup {[of |-> t, at |-> 0] : t \in {u \in Tasks : Holds(u, n)}}

(* Nothing is leaked and nothing is deleted twice: memory that is allocated has *)
(* one owner and free memory has none, while tasks register, invoke, create and *)
(* destroy timers at the same time.  This takes an application that is Careful: *)
(* Unregister compares first and removes and deletes afterwards, without a lock, *)
(* so that two of them at once would both delete the invoker.                   *)
OwnedOnce ==
  \A n \in Invokers :
    IF heap[n] = Free THEN Owners(n) = {} ELSE \E o \in Owners(n) : Owners(n) = {o}

(* A message a task has in its queue, or in hand, points to an invoker of that *)
(* task which is still subscribed, and a task that walks the list of an event  *)
(* stands on one of its invokers.  This takes an application that is Careful.  *)
NoDangling ==
  /\ \A t \in Tasks : \A msg \in Pending(t) :
       LET n == msg.invoker IN
       n # None => /\ heap[n].task = t
                   /\ \A u \in Tasks : ~Holds(u, n)
  /\ \A t \in Tasks :
       thread[t].pc \in {"set_param", "send"} /\ thread[t].node # None =>
         InList(thread[t].event, thread[t].node)

(* Calls of Invoke share the one parameter of an invoker, so a callback may get *)
(* the parameter of another call; but never, by the time the task handles the   *)
(* message, one of a call that had ended before the call that sent the message  *)
(* began, and never what was in the memory before.                              *)
NoStaleParameter ==
  \A t \in Tasks : \A msg \in Pending(t) :
    msg.invoker # None => heap[msg.invoker].param \notin msg.past

(* Event.h:93, Unregister is to "Remove the invokers from the queue and delete  *)
(* him", where the queue is the list of the invokers (line 80): the subscription *)
(* is over and its memory gone, so no task is about to call through the address. *)
UnregisteredIsSilent == \A n \in Invokers : heap[n] = Free => ~PointedTo(n)
==============================================================================
