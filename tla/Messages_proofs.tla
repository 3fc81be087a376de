-------------------------- MODULE Messages_proofs --------------------------
(***************************************************************************)
(* Proofs about events and their messages, for any tasks, events, timers   *)
(* and memory, any length of the queues and any number of calls.           *)
(***************************************************************************)
EXTENDS Messages, SequenceTheorems, TLAPS

------------------------------------------------------------------------------
(* Sequences. *)

LEMMA SeqRange ==
  ASSUME NEW S, NEW s \in Seq(S)
  PROVE  Range(s) \subseteq S
  BY ElementOfSeq, LenProperties DEF Range

LEMMA AppendRange ==
  ASSUME NEW S, NEW s \in Seq(S), NEW x \in S
  PROVE  /\ Append(s, x) \in Seq(S)
         /\ Range(Append(s, x)) = Range(s) \cup {x}
         /\ Len(Append(s, x)) = Len(s) + 1
PROOF
<1>1. /\ Append(s, x) \in Seq(S)
      /\ Len(Append(s, x)) = Len(s) + 1
      /\ \A i \in 1 .. Len(s) : Append(s, x)[i] = s[i]
      /\ Append(s, x)[Len(s) + 1] = x
  BY AppendProperties
<1>2. Len(s) \in Nat /\ DOMAIN s = 1 .. Len(s) /\ DOMAIN Append(s, x) = 1 .. Len(s) + 1
  BY <1>1, LenProperties
<1>3. ASSUME NEW y \in Range(Append(s, x))
      PROVE  y \in Range(s) \cup {x}
  <2>1. PICK i \in 1 .. Len(s) + 1 : Append(s, x)[i] = y
    BY <1>2, <1>3 DEF Range
  <2> QED
    BY <1>1, <1>2, <2>1 DEF Range
<1>4. ASSUME NEW y \in Range(s)
      PROVE  y \in Range(Append(s, x))
  <2>1. PICK i \in 1 .. Len(s) : s[i] = y
    BY <1>2, <1>4 DEF Range
  <2>2. i \in 1 .. Len(s) + 1 /\ Append(s, x)[i] = y
    BY <1>1, <1>2, <2>1
  <2> QED
    BY <1>2, <2>2 DEF Range
<1>5. x \in Range(Append(s, x))
  BY <1>1, <1>2 DEF Range
<1> QED
  BY <1>1, <1>3, <1>4, <1>5

LEMMA TailRange ==
  ASSUME NEW S, NEW s \in Seq(S), s # << >>
  PROVE  /\ Tail(s) \in Seq(S)
         /\ Range(Tail(s)) \subseteq Range(s)
         /\ Len(Tail(s)) = Len(s) - 1
         /\ s[1] \in Range(s)
         /\ s[1] \in S
PROOF
<1>1. /\ Tail(s) \in Seq(S)
      /\ Len(Tail(s)) = Len(s) - 1
      /\ \A i \in 1 .. Len(Tail(s)) : Tail(s)[i] = s[i + 1]
  BY HeadTailProperties
<1>2. Len(s) \in Nat /\ Len(s) > 0 /\ DOMAIN s = 1 .. Len(s)
      /\ DOMAIN Tail(s) = 1 .. Len(Tail(s))
  BY <1>1, LenProperties, EmptySeq
<1>3. ASSUME NEW y \in Range(Tail(s))
      PROVE  y \in Range(s)
  <2>1. PICK i \in 1 .. Len(Tail(s)) : Tail(s)[i] = y
    BY <1>2, <1>3 DEF Range
  <2>2. i + 1 \in 1 .. Len(s) /\ s[i + 1] = y
    BY <1>1, <1>2, <2>1
  <2> QED
    BY <1>2, <2>2 DEF Range
<1>4. 1 \in 1 .. Len(s)
  BY <1>2
<1>5. s[1] \in S
  BY <1>4, ElementOfSeq
<1> QED
  BY <1>1, <1>2, <1>3, <1>4, <1>5 DEF Range

\* No element is in a sequence twice.
Distinct(s) == \A i, j \in DOMAIN s : s[i] = s[j] => i = j

LEMMA AppendDistinct ==
  ASSUME NEW S, NEW s \in Seq(S), Distinct(s), NEW x \in S, x \notin Range(s)
  PROVE  Distinct(Append(s, x))
PROOF
<1>1. /\ Append(s, x) \in Seq(S)
      /\ Len(Append(s, x)) = Len(s) + 1
      /\ \A i \in 1 .. Len(s) : Append(s, x)[i] = s[i]
      /\ Append(s, x)[Len(s) + 1] = x
  BY AppendProperties
<1>2. Len(s) \in Nat /\ DOMAIN s = 1 .. Len(s) /\ DOMAIN Append(s, x) = 1 .. Len(s) + 1
  BY <1>1, LenProperties
<1>3. \A i \in 1 .. Len(s) : s[i] # x
  BY <1>2 DEF Range
<1> QED
  BY <1>1, <1>2, <1>3 DEF Distinct

LEMMA RemoveProperties ==
  ASSUME NEW S, NEW s \in Seq(S), NEW k \in DOMAIN s
  PROVE  /\ RemoveAt(s, k) \in Seq(S)
         /\ DOMAIN RemoveAt(s, k) = 1 .. Len(s) - 1
         /\ \A i \in 1 .. Len(s) - 1 :
              RemoveAt(s, k)[i] = IF i < k THEN s[i] ELSE s[i + 1]
PROOF
<1> DEFINE left == SubSeq(s, 1, k - 1)
<1> DEFINE right == SubSeq(s, k + 1, Len(s))
<1>1. Len(s) \in Nat /\ DOMAIN s = 1 .. Len(s) /\ k \in 1 .. Len(s)
  BY LenProperties
<1>2. \A i \in 1 .. Len(s) : s[i] \in S
  BY ElementOfSeq
<1>3. /\ left \in Seq(S) /\ Len(left) = k - 1
      /\ \A i \in 1 .. k - 1 : left[i] = s[i]
  <2>1. \A i \in 1 .. k - 1 : s[i] \in S
    BY <1>1, <1>2
  <2>2. /\ left \in Seq(S)
        /\ Len(left) = IF 1 <= k - 1 THEN (k - 1) - 1 + 1 ELSE 0
        /\ \A i \in 1 .. (k - 1) - 1 + 1 : left[i] = s[1 + i - 1]
    BY <1>1, <2>1, SubSeqProperties
  <2> QED
    BY <1>1, <2>2
<1>4. /\ right \in Seq(S) /\ Len(right) = Len(s) - k
      /\ \A i \in 1 .. Len(s) - k : right[i] = s[k + i]
  <2>1. \A i \in k + 1 .. Len(s) : s[i] \in S
    BY <1>1, <1>2
  <2>2. /\ right \in Seq(S)
        /\ Len(right) = IF k + 1 <= Len(s) THEN Len(s) - (k + 1) + 1 ELSE 0
        /\ \A i \in 1 .. Len(s) - (k + 1) + 1 : right[i] = s[k + 1 + i - 1]
    BY <1>1, <2>1, SubSeqProperties
  <2> QED
    BY <1>1, <2>2
<1>5. /\ left \o right \in Seq(S)
      /\ Len(left \o right) = Len(left) + Len(right)
      /\ \A i \in 1 .. Len(left) + Len(right) :
           (left \o right)[i] = IF i <= Len(left) THEN left[i] ELSE right[i - Len(left)]
  <2> HIDE DEF left, right
  <2> QED
    BY <1>3, <1>4, ConcatProperties
<1>6. RemoveAt(s, k) = left \o right
  BY DEF RemoveAt
<1>7. DOMAIN (left \o right) = 1 .. Len(left \o right)
  BY <1>5, LenProperties
<1>8. ASSUME NEW i \in 1 .. Len(s) - 1
      PROVE  (left \o right)[i] = IF i < k THEN s[i] ELSE s[i + 1]
  <2> HIDE DEF left, right
  <2>1. CASE i < k
    <3>1. i \in 1 .. k - 1 /\ i <= Len(left) /\ i \in 1 .. Len(left) + Len(right)
      BY <1>1, <1>3, <1>4, <2>1
    <3>2. (left \o right)[i] = left[i]
      BY <1>5, <3>1
    <3>3. left[i] = s[i]
      BY <1>3, <3>1
    <3> QED
      BY <1>1, <2>1, <3>2, <3>3
  <2>2. CASE i >= k
    <3>1. (left \o right)[i] = right[i - (k - 1)]
      BY <1>1, <1>3, <1>4, <1>5, <2>2
    <3>2. right[i - (k - 1)] = s[k + (i - (k - 1))]
      BY <1>1, <1>4, <2>2
    <3>3. k + (i - (k - 1)) = i + 1
      BY <1>1
    <3> QED
      BY <1>1, <2>2, <3>1, <3>2, <3>3
  <2>3. i < k \/ i >= k
    BY <1>1
  <2> QED
    BY <2>1, <2>2, <2>3
<1> HIDE DEF left, right
<1>9. Len(left) + Len(right) = Len(s) - 1
  BY <1>1, <1>3, <1>4
<1> QED
  BY <1>5, <1>6, <1>7, <1>8, <1>9

LEMMA RemoveRange ==
  ASSUME NEW S, NEW s \in Seq(S), Distinct(s), NEW k \in DOMAIN s
  PROVE  /\ Range(RemoveAt(s, k)) = Range(s) \ {s[k]}
         /\ Distinct(RemoveAt(s, k))
PROOF
<1> DEFINE r == RemoveAt(s, k)
<1>1. /\ DOMAIN r = 1 .. Len(s) - 1
      /\ \A i \in 1 .. Len(s) - 1 : r[i] = IF i < k THEN s[i] ELSE s[i + 1]
  BY RemoveProperties
<1>2. Len(s) \in Nat /\ DOMAIN s = 1 .. Len(s) /\ k \in 1 .. Len(s)
  BY LenProperties
<1>3. \A i, j \in 1 .. Len(s) : s[i] = s[j] => i = j
  BY <1>2 DEF Distinct
<1> HIDE DEF r
<1>4. ASSUME NEW y \in Range(r)
      PROVE  y \in Range(s) \ {s[k]}
  <2>1. PICK i \in 1 .. Len(s) - 1 : r[i] = y
    BY <1>1, <1>4 DEF Range
  <2>2. PICK j \in 1 .. Len(s) : y = s[j] /\ j # k
    BY <1>1, <1>2, <2>1
  <2> QED
    BY <1>2, <1>3, <2>2 DEF Range
<1>5. ASSUME NEW y \in Range(s) \ {s[k]}
      PROVE  y \in Range(r)
  <2>1. PICK j \in 1 .. Len(s) : s[j] = y /\ j # k
    BY <1>2, <1>5 DEF Range
  <2>2. \E i \in 1 .. Len(s) - 1 : r[i] = y
    <3>1. CASE j < k
      BY <1>1, <1>2, <2>1, <3>1
    <3>2. CASE j > k
      <4>1. j - 1 \in 1 .. Len(s) - 1 /\ ~(j - 1 < k) /\ (j - 1) + 1 = j
        BY <1>2, <3>2
      <4> QED
        BY <1>1, <2>1, <4>1
    <3> QED
      BY <1>2, <2>1, <3>1, <3>2
  <2> QED
    BY <1>1, <2>2 DEF Range
<1>6. Distinct(r)
  <2>1. ASSUME NEW i \in 1 .. Len(s) - 1, NEW j \in 1 .. Len(s) - 1, r[i] = r[j]
        PROVE  i = j
    <3> DEFINE a == IF i < k THEN i ELSE i + 1
    <3> DEFINE b == IF j < k THEN j ELSE j + 1
    <3>1. a \in 1 .. Len(s) /\ b \in 1 .. Len(s) /\ s[a] = s[b]
      BY <1>1, <1>2, <2>1
    <3>2. a = b
      BY <1>3, <3>1
    <3> QED
      BY <1>2, <3>2
  <2> QED
    BY <1>1, <2>1 DEF Distinct
<1> QED
  BY <1>4, <1>5, <1>6 DEF r

------------------------------------------------------------------------------
(* Types. *)

LEMMA ParamsAreNumbers == Params \subseteq Nat /\ 0 \in Params
  BY MessagesAssumption DEF MessagesAssumption, Params

LEMMA AtType ==
  ASSUME NEW l \in {"idle", "push_back", "remove", "delete", "set_param", "send",
                    "timer_create", "stuck", "dispatch"},
         NEW e \in Events \cup Timers \cup {None}, NEW n \in Invokers \cup {None}
  PROVE  At(l, e, n) \in Operation
  BY ParamsAreNumbers DEF At, Operation

LEMMA IdleType == Idle \in Operation
  BY AtType DEF Idle

LEMMA InvokerType ==
  ASSUME NEW t \in Tasks \cup {None}
  PROVE  /\ Invoker(t) \in [task : Tasks \cup {None}, param : Params]
         /\ Free \in [task : Tasks \cup {None}, param : Params]
  BY ParamsAreNumbers DEF Invoker, Free, Uninitialised

LEMMA EventMessageType ==
  ASSUME NEW n \in Invokers \cup {None}, NEW past \in SUBSET Params
  PROVE  EventMessage(n, past) \in Message
  BY DEF EventMessage, Message

LEMMA FirstAndFollowing ==
  ASSUME TypeOK, NEW e \in Events, NEW n
  PROVE  /\ First(e) \in Range(m_invokeres[e]) \cup {None}
         /\ Range(m_invokeres[e]) \subseteq Invokers
         /\ Following(e, n) \subseteq Invokers \cup {None}
         /\ InList(e, n) => Following(e, n) \subseteq Range(m_invokeres[e]) \cup {None}
PROOF
<1> DEFINE l == m_invokeres[e]
<1>1. l \in Seq(Invokers)
  BY DEF TypeOK
<1>2. Len(l) \in Nat /\ DOMAIN l = 1 .. Len(l)
  BY <1>1, LenProperties
<1>3. Range(l) \subseteq Invokers
  BY <1>1, <1>2, ElementOfSeq DEF Range
<1>4. First(e) \in Range(l) \cup {None}
  <2>1. CASE l = << >>
    BY <2>1 DEF First
  <2>2. CASE l # << >>
    BY <1>1, <2>2, TailRange DEF First
  <2> QED
    BY <2>1, <2>2
<1>5. ASSUME InList(e, n)
      PROVE  Following(e, n) \subseteq Range(l) \cup {None}
  <2>1. \A k \in DOMAIN l : k # Len(l) => k + 1 \in DOMAIN l
    BY <1>2
  <2> QED
    BY <1>2, <1>5, <2>1 DEF Following, Range
<1>6. Following(e, n) \subseteq Invokers \cup {None}
  BY <1>3, <1>5 DEF Following
<1> QED
  BY <1>3, <1>4, <1>5, <1>6

QueueTypes ==
  /\ queue \in [Tasks -> Seq(Message)]
  /\ \A t \in Tasks : Len(queue[t]) <= QueueSize

LEMMA PushTypes ==
  ASSUME QueueTypes, NEW t \in Tasks, NEW msg \in Message, Push(t, msg)
  PROVE  QueueTypes'
PROOF
<1>1. QueueSize \in Nat
  BY MessagesAssumption DEF MessagesAssumption
<1>2. CASE Len(queue[t]) < QueueSize
  <2>1. queue' = [queue EXCEPT ![t] = Append(queue[t], msg)]
    BY <1>2 DEF Push
  <2>2. queue[t] \in Seq(Message) /\ Len(queue[t]) \in Nat
    BY LenProperties DEF QueueTypes
  <2>3. /\ Append(queue[t], msg) \in Seq(Message)
        /\ Len(Append(queue[t], msg)) = Len(queue[t]) + 1
    BY <2>2, AppendRange
  <2> QED
    BY <1>1, <1>2, <2>1, <2>2, <2>3 DEF QueueTypes
<1>3. CASE ~(Len(queue[t]) < QueueSize)
  BY <1>3 DEF Push, QueueTypes
<1> QED
  BY <1>2, <1>3

LEMMA SendMsgTypes ==
  ASSUME QueueTypes, NEW n \in Invokers \cup {None}, NEW past \in SUBSET Params,
         SendMsg(n, past)
  PROVE  QueueTypes'
PROOF
<1>1. CASE heap[n].task \in Tasks
  BY <1>1, EventMessageType, PushTypes DEF SendMsg
<1>2. CASE heap[n].task \notin Tasks
  BY <1>2 DEF SendMsg, QueueTypes
<1> QED
  BY <1>1, <1>2

\* One step of a task or of a timer.
TaskStep(t) ==
  \/ NewFails(t) \/ PushBack(t) \/ RemoveInvoker(t) \/ Delete(t)
  \/ SetParam(t) \/ Send(t) \/ InvokeEnd(t) \/ TimerCreate(t)
  \/ NotifyMessage(t) \/ Pull(t) \/ Dispatch(t)
  \/ \E e \in Events : Invoke(t, e)
  \/ \E e \in Events, s \in Tasks : Register(t, e, s) \/ Unregister(t, e, s)
  \/ \E k \in Timers : Destroy(t, k)
  \/ \E k \in Timers, s \in Tasks : NewTimeEvent(t, k, s)

\* What the operations know of their event and of their invoker.
Knows(op) ==
  /\ op.pc \in {"push_back", "timer_create", "remove", "delete", "send"} => op.node \in Invokers
  /\ op.pc \in {"push_back", "remove", "set_param", "send"} => op.event \in Events
  /\ op.pc = "timer_create" => op.event \in Timers

Locals ==
  /\ \A t \in Tasks : Knows(thread[t])
  /\ \A k \in Timers : timer[k] # NoTimer => timer[k].invoker \in Invokers

LEMMA InitTypes == Init => TypeOK /\ Locals
PROOF
<1> SUFFICES ASSUME Init PROVE TypeOK /\ Locals
  OBVIOUS
<1> USE DEF Init
<1>1. heap \in [Invokers -> [task : Tasks \cup {None}, param : Params]]
  BY InvokerType
<1>2. m_invokeres \in [Events -> Seq(Invokers)]
  BY EmptySeq
<1>3. timer \in [Timers -> [invoker : Invokers \cup {None},
                             runs : {"no", "once", "periodic", "over"}]]
  BY DEF NoTimer
<1>4. queue \in [Tasks -> Seq(Message)] /\ \A t \in Tasks : Len(queue[t]) <= QueueSize
  <2>1. << >> \in Seq(Message) /\ Len(<< >>) = 0 /\ 0 <= QueueSize
    BY MessagesAssumption, EmptySeq DEF MessagesAssumption
  <2> QED
    BY <2>1
<1>5. thread \in [Tasks -> Operation]
  BY IdleType
<1>6. invokes \in Params /\ ended \in [Events -> SUBSET Params]
  BY ParamsAreNumbers
<1>7. Locals
  BY DEF Locals, Knows, Idle, At
<1> QED
  BY <1>1, <1>2, <1>3, <1>4, <1>5, <1>6, <1>7 DEF TypeOK

\* A task that ends its operation, or begins or goes on with one.
LEMMA GotoTypes ==
  ASSUME TypeOK, Locals, NEW t \in Tasks, NEW op \in Operation, Knows(op), Goto(t, op)
  PROVE  /\ thread' \in [Tasks -> Operation]
         /\ \A u \in Tasks : Knows(thread'[u])
  BY DEF TypeOK, Locals, Goto

LEMMA BeginIsGoto ==
  ASSUME NEW t, NEW op, Begin(t, op)
  PROVE  Goto(t, op)
  BY DEF Begin, Goto

LEMMA IdleTypes ==
  ASSUME TypeOK, Locals, NEW t \in Tasks, Goto(t, Idle)
  PROVE  /\ thread' \in [Tasks -> Operation]
         /\ \A u \in Tasks : Knows(thread'[u])
  BY GotoTypes, IdleType DEF Idle, At, Knows

LEMMA StepTypes ==
  ASSUME TypeOK, Locals, [Next]_vars
  PROVE  TypeOK' /\ Locals'
PROOF
<1> DEFINE Object == [task : Tasks \cup {None}, param : Params]
<1> DEFINE TimerType == [invoker : Invokers \cup {None},
                         runs : {"no", "once", "periodic", "over"}]
<1> DEFINE ThreadOK == thread \in [Tasks -> Operation] /\ \A u \in Tasks : Knows(thread[u])
<1>1. CASE UNCHANGED vars
  BY <1>1 DEF TypeOK, Locals, vars
<1>2. ASSUME NEW t \in Tasks, NEW n \in Invokers, NEW s \in Tasks,
             NEW l \in {"push_back", "timer_create"}, NEW e,
             e \in IF l = "push_back" THEN Events ELSE Timers,
             New(t, n, s, At(l, e, n)),
             UNCHANGED <<m_invokeres, timer, queue, invokes, ended>>
      PROVE  TypeOK' /\ Locals'
  <2>1. heap' \in [Invokers -> Object]
    BY <1>2, InvokerType DEF TypeOK, New
  <2>2. At(l, e, n) \in Operation /\ Knows(At(l, e, n))
    BY <1>2, AtType DEF Knows, At
  <2>3. ThreadOK'
    BY <1>2, <2>2, GotoTypes, BeginIsGoto DEF New
  <2> QED
    BY <1>2, <2>1, <2>3 DEF TypeOK, Locals
<1>3. ASSUME NEW t \in Tasks, TaskStep(t)
      PROVE  TypeOK' /\ Locals'
  <2>0. /\ thread[t] \in Operation
        /\ Knows(thread[t])
        /\ QueueTypes
    BY DEF TypeOK, Locals, QueueTypes
  <2>1. CASE NewFails(t)
    <3>1. ThreadOK'
      <4> DEFINE op == At("stuck", None, None)
      <4>1. op \in Operation /\ Knows(op)
        BY AtType DEF Knows, At
      <4> QED
        BY <2>1, <4>1, GotoTypes, BeginIsGoto DEF NewFails
    <3> QED
      BY <2>1, <3>1 DEF TypeOK, Locals, NewFails
  <2>2. CASE PushBack(t)
    <3> DEFINE e == thread[t].event
    <3> DEFINE n == thread[t].node
    <3>1. ThreadOK'
      BY <2>2, IdleTypes DEF PushBack
    <3>2. e \in Events /\ n \in Invokers
      BY <2>0, <2>2 DEF PushBack, Knows
    <3>3. Append(m_invokeres[e], n) \in Seq(Invokers)
      BY <3>2, AppendRange DEF TypeOK
    <3>4. m_invokeres' \in [Events -> Seq(Invokers)]
      BY <2>2, <3>3 DEF TypeOK, PushBack
    <3> QED
      BY <2>2, <3>1, <3>4 DEF TypeOK, Locals, PushBack
  <2>3. CASE Delete(t)
    <3>1. ThreadOK'
      BY <2>3, IdleTypes DEF Delete
    <3>2. heap' \in [Invokers -> Object]
      BY <2>3, InvokerType DEF TypeOK, Delete
    <3> QED
      BY <2>3, <3>1, <3>2 DEF TypeOK, Locals, Delete
  <2>4. CASE SetParam(t)
    <3> DEFINE n == thread[t].node
    <3> DEFINE op == [thread[t] EXCEPT !.pc = "send"]
    <3>1. ThreadOK'
      <4>1. op \in Operation /\ Knows(op)
        BY <2>0, <2>4 DEF Operation, Knows, SetParam
      <4> QED
        BY <2>4, <4>1, GotoTypes DEF SetParam
    <3>2. heap' \in [Invokers -> Object]
      <4>1. thread[t].param \in Params /\ n \in Invokers
        BY <2>0, <2>4 DEF Operation, SetParam
      <4>2. [heap[n] EXCEPT !.param = thread[t].param] \in Object
        BY <4>1 DEF TypeOK
      <4> QED
        BY <2>4, <4>1, <4>2 DEF TypeOK, SetParam
    <3> QED
      BY <2>4, <3>1, <3>2 DEF TypeOK, Locals, SetParam
  <2>5. CASE Send(t)
    <3> DEFINE n == thread[t].node
    <3>1. ThreadOK'
      <4>1. PICK next \in Following(thread[t].event, n) :
              Goto(t, [thread[t] EXCEPT !.pc = "set_param", !.node = next])
        BY <2>5 DEF Send
      <4> DEFINE op == [thread[t] EXCEPT !.pc = "set_param", !.node = next]
      <4>2. thread[t].event \in Events
        BY <2>0, <2>5 DEF Knows, Send
      <4>3. next \in Invokers \cup {None}
        BY <4>1, <4>2, FirstAndFollowing
      <4>4. op \in Operation /\ Knows(op)
        BY <2>0, <4>2, <4>3 DEF Operation, Knows
      <4> QED
        BY <4>1, <4>4, GotoTypes
    <3>2. QueueTypes'
      <4>1. n \in Invokers \cup {None} /\ thread[t].past \in SUBSET Params
        BY <2>0 DEF Operation
      <4> QED
        BY <2>0, <2>5, <4>1, SendMsgTypes DEF Send
    <3> QED
      BY <2>5, <3>1, <3>2 DEF TypeOK, Locals, Send, QueueTypes
  <2>6. CASE InvokeEnd(t)
    <3>1. ThreadOK'
      BY <2>6, IdleTypes DEF InvokeEnd
    <3>2. ended' \in [Events -> SUBSET Params]
      <4>1. thread[t].param \in Params
        BY <2>0 DEF Operation
      <4> QED
        BY <2>6, <4>1 DEF TypeOK, InvokeEnd
    <3> QED
      BY <2>6, <3>1, <3>2 DEF TypeOK, Locals, InvokeEnd
  <2>7. CASE TimerCreate(t)
    <3>1. ThreadOK'
      BY <2>7, IdleTypes DEF TimerCreate
    <3>2. PICK runs \in {"once", "periodic"} :
            timer' = [timer EXCEPT ![thread[t].event] =
                        [invoker |-> thread[t].node, runs |-> runs]]
      BY <2>7 DEF TimerCreate
    <3>3. thread[t].node \in Invokers
      BY <2>0, <2>7 DEF Knows, TimerCreate
    <3>4. /\ timer' \in [Timers -> TimerType]
          /\ \A k \in Timers : timer'[k] # NoTimer => timer'[k].invoker \in Invokers
      BY <3>2, <3>3 DEF TypeOK, Locals
    <3> QED
      BY <2>7, <3>1, <3>4 DEF TypeOK, Locals, TimerCreate
  <2>8. CASE NotifyMessage(t)
    <3>1. NormalMessage \in Message
      BY DEF NormalMessage, Message
    <3>2. QueueTypes'
      BY <2>0, <2>8, <3>1, PushTypes DEF NotifyMessage
    <3> QED
      BY <2>8, <3>2 DEF TypeOK, Locals, NotifyMessage, QueueTypes
  <2>9. CASE Pull(t)
    <3> DEFINE msg == queue[t][1]
    <3> DEFINE op == [At("dispatch", None, msg.invoker) EXCEPT !.past = msg.past]
    <3>1. /\ queue[t] \in Seq(Message) /\ queue[t] # << >>
          /\ Len(queue[t]) \in Nat /\ Len(queue[t]) <= QueueSize
      BY <2>0, <2>9, LenProperties DEF QueueTypes, Pull
    <3>2. msg \in Message /\ Tail(queue[t]) \in Seq(Message) /\ Len(Tail(queue[t])) = Len(queue[t]) - 1
      BY <3>1, TailRange
    <3>3. QueueTypes'
      BY <2>0, <2>9, <3>1, <3>2, MessagesAssumption DEF MessagesAssumption, QueueTypes, Pull
    <3>4. op \in Operation /\ Knows(op)
      <4>1. At("dispatch", None, msg.invoker) \in Operation
        BY <3>2, AtType DEF Message
      <4> QED
        BY <3>2, <4>1 DEF Operation, Message, Knows, At
    <3>5. ThreadOK'
      BY <2>9, <3>4, GotoTypes, BeginIsGoto DEF Pull
    <3> QED
      BY <2>9, <3>3, <3>5 DEF TypeOK, Locals, Pull, QueueTypes
  <2>10. CASE Dispatch(t)
    <3>1. ThreadOK'
      BY <2>10, IdleTypes DEF Dispatch
    <3> QED
      BY <2>10, <3>1 DEF TypeOK, Locals, Dispatch
  <2>11. ASSUME NEW e \in Events, Invoke(t, e)
         PROVE  TypeOK' /\ Locals'
    <3> DEFINE op == [pc |-> "set_param", event |-> e, node |-> First(e), param |-> invokes + 1,
                      past |-> ended[e] \cup {Uninitialised}]
    <3>1. invokes + 1 \in Params
      BY <2>11, MessagesAssumption DEF MessagesAssumption, TypeOK, Invoke, Params
    <3>2. op \in Operation /\ Knows(op)
      BY <3>1, ParamsAreNumbers, FirstAndFollowing DEF TypeOK, Operation, Knows, Uninitialised
    <3>3. ThreadOK'
      BY <2>11, <3>2, GotoTypes, BeginIsGoto DEF Invoke
    <3> QED
      BY <2>11, <3>1, <3>3 DEF TypeOK, Locals, Invoke
  <2>12. ASSUME NEW e \in Events, NEW s \in Tasks, Register(t, e, s)
         PROVE  TypeOK' /\ Locals'
    BY <1>2, <2>12 DEF Register
  <2>13. ASSUME NEW e \in Events, NEW s \in Tasks, Unregister(t, e, s)
         PROVE  TypeOK' /\ Locals'
    <3>1. PICK k \in DOMAIN m_invokeres[e] : Begin(t, At("remove", e, m_invokeres[e][k]))
      BY <2>13 DEF Unregister
    <3>2. m_invokeres[e][k] \in Invokers
      BY <3>1, FirstAndFollowing DEF TypeOK, Range
    <3>3. ThreadOK'
      <4> DEFINE op == At("remove", e, m_invokeres[e][k])
      <4>1. op \in Operation /\ Knows(op)
        BY <3>2, AtType DEF Knows, At
      <4> QED
        BY <3>1, <4>1, GotoTypes, BeginIsGoto
    <3> QED
      BY <2>13, <3>3 DEF TypeOK, Locals, Unregister
  <2>14. ASSUME NEW k \in Timers, Destroy(t, k)
         PROVE  TypeOK' /\ Locals'
    <3> DEFINE n == timer[k].invoker
    <3>1. n \in Invokers
      BY <2>14 DEF Locals, Destroy
    <3>2. ThreadOK'
      <4>1. At("delete", k, n) \in Operation /\ Knows(At("delete", k, n))
        BY <3>1, AtType DEF Knows, At
      <4> QED
        BY <2>14, <4>1, GotoTypes, BeginIsGoto DEF Destroy
    <3>3. /\ timer' \in [Timers -> TimerType]
          /\ \A l \in Timers : timer'[l] # NoTimer => timer'[l].invoker \in Invokers
      BY <2>14 DEF TypeOK, Locals, Destroy, NoTimer
    <3> QED
      BY <2>14, <3>2, <3>3 DEF TypeOK, Locals, Destroy
  <2>15. ASSUME NEW k \in Timers, NEW s \in Tasks, NewTimeEvent(t, k, s)
         PROVE  TypeOK' /\ Locals'
    BY <1>2, <2>15 DEF NewTimeEvent
  <2>16. CASE RemoveInvoker(t)
    <3> DEFINE e == thread[t].event
    <3> DEFINE n == thread[t].node
    <3>1. e \in Events /\ n \in Invokers
      BY <2>0, <2>16 DEF RemoveInvoker, Knows
    <3>2. ThreadOK'
      <4> DEFINE op == At("delete", e, n)
      <4>1. op \in Operation /\ Knows(op)
        BY <3>1, AtType DEF Knows, At
      <4> QED
        BY <2>16, <4>1, GotoTypes DEF RemoveInvoker
    <3>3. m_invokeres' \in [Events -> Seq(Invokers)]
      <4>1. CASE InList(e, n)
        <5>1. PICK k \in DOMAIN m_invokeres[e] :
                m_invokeres' = [m_invokeres EXCEPT ![e] = RemoveAt(m_invokeres[e], k)]
          BY <2>16, <4>1 DEF RemoveInvoker
        <5>2. RemoveAt(m_invokeres[e], k) \in Seq(Invokers)
          BY <3>1, RemoveProperties DEF TypeOK
        <5> QED
          BY <5>1, <5>2 DEF TypeOK
      <4>2. CASE ~InList(e, n)
        BY <2>16, <4>2 DEF TypeOK, RemoveInvoker
      <4> QED
        BY <4>1, <4>2
    <3> QED
      BY <2>16, <3>2, <3>3 DEF TypeOK, Locals, RemoveInvoker
  <2> QED
    BY <1>3, <2>1, <2>2, <2>3, <2>4, <2>5, <2>6, <2>7, <2>8, <2>9, <2>10, <2>11, <2>12, <2>13,
       <2>14, <2>15, <2>16 DEF TaskStep
<1>4. ASSUME NEW k \in Timers, TimerExpired(k)
      PROVE  TypeOK' /\ Locals'
  <2>1. timer[k] # NoTimer /\ timer[k] \in TimerType /\ QueueTypes
    BY <1>4 DEF TypeOK, QueueTypes, TimerExpired, NoTimer
  <2>2. /\ timer' \in [Timers -> TimerType]
        /\ \A l \in Timers : timer'[l] # NoTimer => timer'[l].invoker \in Invokers
    BY <1>4, <2>1 DEF TypeOK, Locals, TimerExpired
  <2>3. QueueTypes'
    BY <1>4, <2>1, SendMsgTypes DEF TimerExpired
  <2> QED
    BY <1>4, <2>2, <2>3 DEF TypeOK, Locals, TimerExpired, QueueTypes
<1> QED
  BY <1>1, <1>3, <1>4 DEF Next, TaskStep

(* The variables keep their types, queues do not overflow, and whoever        *)
(* allocates, links or deletes an invoker has one in hand.                    *)
THEOREM MessageTypes == Spec => []TypeOK
PROOF
<1>1. TypeOK /\ Locals /\ [Next]_vars => (TypeOK /\ Locals)'
  BY StepTypes
<1> QED
  BY InitTypes, <1>1, PTL DEF Spec

------------------------------------------------------------------------------
(* Ownership: every allocated invoker is in exactly one place. *)

Holding == {"push_back", "timer_create", "delete"}

Places == Events \cup Timers \cup Tasks

\* The invokers in a place.
Contents(o) ==
  IF o \in Events THEN Range(m_invokeres[o])
  ELSE IF o \in Timers THEN {timer[o].invoker} \ {None}
  ELSE IF thread[o].pc \in Holding THEN {thread[o].node} ELSE {}

Owned == [o \in Places |-> Contents(o)]

Allocated == {n \in Invokers : heap[n].task # None}

\* own divides the invokers of alloc among the places.
Divides(own, alloc) ==
  /\ \A o, p \in Places : \A n : n \in own[o] /\ n \in own[p] => o = p
  /\ \A n : n \in alloc <=> \E o \in Places : n \in own[o]

\* The invoker n moves from p to q.
LEMMA Moved ==
  ASSUME NEW own, NEW new, NEW alloc, Divides(own, alloc),
         NEW p \in Places, NEW q \in Places, NEW n, p # q, n \in own[p],
         new[p] = own[p] \ {n}, new[q] = own[q] \cup {n},
         \A o \in Places \ {p, q} : new[o] = own[o]
  PROVE  Divides(new, alloc)
PROOF
<1>1. ASSUME NEW o \in Places, NEW x
      PROVE  x \in new[o] <=> IF x = n THEN o = q ELSE x \in own[o]
  BY <1>1 DEF Divides
<1> QED
  BY <1>1 DEF Divides

\* n is allocated, and put into p.
LEMMA Added ==
  ASSUME NEW own, NEW new, NEW alloc, Divides(own, alloc),
         NEW p \in Places, NEW n, n \notin alloc, new[p] = own[p] \cup {n},
         \A o \in Places \ {p} : new[o] = own[o]
  PROVE  Divides(new, alloc \cup {n})
PROOF
<1>1. ASSUME NEW o \in Places, NEW x
      PROVE  x \in new[o] <=> IF x = n THEN o = p ELSE x \in own[o]
  BY <1>1 DEF Divides
<1> QED
  BY <1>1 DEF Divides

\* n is freed, and taken from p.
LEMMA Removed ==
  ASSUME NEW own, NEW new, NEW alloc, Divides(own, alloc),
         NEW p \in Places, NEW n, n \in own[p], new[p] = own[p] \ {n},
         \A o \in Places \ {p} : new[o] = own[o]
  PROVE  Divides(new, alloc \ {n})
PROOF
<1>1. ASSUME NEW o \in Places, NEW x
      PROVE  x \in new[o] <=> x # n /\ x \in own[o]
  BY <1>1 DEF Divides
<1> QED
  BY <1>1 DEF Divides

LEMMA Same ==
  ASSUME NEW own, NEW new, NEW alloc, Divides(own, alloc),
         \A o \in Places : new[o] = own[o]
  PROVE  Divides(new, alloc)
  BY DEF Divides

Ownership ==
  /\ Divides(Owned, Allocated)
  /\ \A e \in Events : Distinct(m_invokeres[e])
  /\ \A n \in Invokers : heap[n].task = None => heap[n] = Free
  /\ \A t \in Tasks : thread[t].pc = "timer_create" => timer[thread[t].event] = NoTimer
  /\ \A t, u \in Tasks :
       /\ thread[t].pc = "timer_create"
       /\ thread[u].pc = "timer_create"
       /\ thread[t].event = thread[u].event
       => t = u

\* What an Unregister has found is still there when it removes it: nobody else is at
\* work on the event.
Removals ==
  \A t \in Tasks : thread[t].pc = "remove" =>
    /\ InList(thread[t].event, thread[t].node)
    /\ AtWork(thread[t].event) = {t}

Invariant == TypeOK /\ Locals /\ Ownership /\ Removals

TaskContents(t) == IF thread[t].pc \in Holding THEN {thread[t].node} ELSE {}

LEMMA OwnedBy ==
  /\ \A e \in Events : Owned[e] = Range(m_invokeres[e]) /\ Owned'[e] = Range(m_invokeres'[e])
  /\ \A k \in Timers : /\ Owned[k] = {timer[k].invoker} \ {None}
                       /\ Owned'[k] = {timer'[k].invoker} \ {None}
  /\ \A t \in Tasks : Owned[t] = TaskContents(t) /\ Owned'[t] = TaskContents(t)'
  BY MessagesAssumption DEF MessagesAssumption, Owned, Contents, Places, TaskContents

\* What a task has in hand before and after a step.
LEMMA InHand ==
  ASSUME NEW t \in Tasks
  PROVE  /\ thread[t].pc \in Holding => Owned[t] = {thread[t].node}
         /\ thread[t].pc \notin Holding => Owned[t] = {}
         /\ thread'[t].pc \in Holding => Owned'[t] = {thread'[t].node}
         /\ thread'[t].pc \notin Holding => Owned'[t] = {}
  BY OwnedBy DEF TaskContents

LEMMA SameTimers ==
  ASSUME NEW k \in Timers, timer'[k] = timer[k]
  PROVE  Owned'[k] = Owned[k]
  BY OwnedBy

LEMMA LabelsHold ==
  /\ "idle" \notin Holding /\ "remove" \notin Holding
  /\ "push_back" \in Holding /\ "timer_create" \in Holding /\ "delete" \in Holding
  /\ Idle.pc = "idle"
  /\ \A l, e, n : At(l, e, n).pc = l /\ At(l, e, n).node = n /\ At(l, e, n).event = e
  BY DEF Holding, Idle, At

\* The places are not their own contents, and are apart.
LEMMA PlacesApart ==
  /\ \A e \in Events : e \in Places /\ e \notin Timers /\ e \notin Tasks
  /\ \A k \in Timers : k \in Places /\ k \notin Events /\ k \notin Tasks
  /\ \A t \in Tasks : t \in Places /\ t \notin Events /\ t \notin Timers
  BY MessagesAssumption DEF MessagesAssumption, Places

LEMMA InitOwnership == Init => Ownership
PROOF
<1> SUFFICES ASSUME Init PROVE Ownership
  OBVIOUS
<1>1. \A o \in Places : Owned[o] = {}
  <2>1. Range(<< >>) = {}
    BY DEF Range
  <2>2. \A e \in Events : Owned[e] = {}
    BY <2>1, OwnedBy DEF Init
  <2>3. \A k \in Timers : Owned[k] = {}
    BY OwnedBy DEF Init, NoTimer
  <2>4. \A t \in Tasks : Owned[t] = {}
    BY OwnedBy DEF Init, TaskContents, Idle, At, Holding
  <2> QED
    BY <2>2, <2>3, <2>4 DEF Places
<1>2. Allocated = {}
  BY DEF Init, Allocated, Free
<1>3. Divides(Owned, Allocated)
  BY <1>1, <1>2 DEF Divides
<1>4. \A e \in Events : Distinct(m_invokeres[e])
  BY DEF Init, Distinct
<1>5. \A t \in Tasks : thread[t].pc = "idle"
  BY DEF Init, Idle, At
<1> QED
  BY <1>3, <1>4, <1>5 DEF Ownership, Init

\* A step of a task that has no invoker in hand, before and after it, and moves none.
Uninvolved ==
  /\ m_invokeres' = m_invokeres
  /\ \A k \in Timers : /\ timer'[k].invoker = timer[k].invoker
                       /\ timer[k] = NoTimer => timer'[k] = NoTimer
  /\ \A n \in Invokers : /\ heap'[n].task = heap[n].task
                         /\ heap[n] = Free => heap'[n] = Free
  /\ \A u \in Tasks :
       thread'[u] = thread[u] \/ (thread[u].pc \notin Holding /\ thread'[u].pc \notin Holding)

LEMMA UninvolvedOwnership ==
  ASSUME Invariant, Uninvolved
  PROVE  Ownership'
PROOF
<1>1. \A e \in Events : Owned'[e] = Owned[e]
  BY OwnedBy DEF Uninvolved
<1>2. \A k \in Timers : Owned'[k] = Owned[k]
  BY OwnedBy DEF Uninvolved
<1>3. \A t \in Tasks : Owned'[t] = Owned[t]
  <2> SUFFICES ASSUME NEW t \in Tasks PROVE Owned'[t] = Owned[t]
    OBVIOUS
  <2>1. TaskContents(t)' = TaskContents(t)
    BY DEF Uninvolved, TaskContents
  <2> QED
    BY <2>1, OwnedBy
<1>4. Allocated' = Allocated
  BY DEF Uninvolved, Allocated
<1>5. Divides(Owned', Allocated')
  BY <1>1, <1>2, <1>3, <1>4, Same DEF Invariant, Ownership, Places
<1>6. \A t \in Tasks : thread'[t].pc = "timer_create" => thread'[t] = thread[t]
  BY DEF Uninvolved, Holding
<1>7. \A t \in Tasks : thread'[t].pc = "timer_create" => timer'[thread'[t].event] = NoTimer
  BY <1>6 DEF Uninvolved, Invariant, Ownership, Locals, Knows
<1>8. \A n \in Invokers : heap'[n].task = None => heap'[n] = Free
  BY DEF Uninvolved, Invariant, Ownership
<1>9. \A t, u \in Tasks :
        /\ thread'[t].pc = "timer_create"
        /\ thread'[u].pc = "timer_create"
        /\ thread'[t].event = thread'[u].event
        => t = u
  BY <1>6 DEF Invariant, Ownership
<1> QED
  BY <1>5, <1>7, <1>8, <1>9 DEF Uninvolved, Invariant, Ownership, Divides

\* Operations that are not about one another's timer.
LEMMA TimersInHand ==
  ASSUME Invariant, NEW t \in Tasks,
         \A u \in Tasks \ {t} : thread'[u] = thread[u],
         thread'[t].pc # "timer_create",
         \A k \in Timers : timer[k] = NoTimer =>
           timer'[k] = NoTimer \/ (thread[t].pc = "timer_create" /\ thread[t].event = k)
  PROVE  /\ \A u \in Tasks : thread'[u].pc = "timer_create" => timer'[thread'[u].event] = NoTimer
         /\ \A u, v \in Tasks :
              /\ thread'[u].pc = "timer_create"
              /\ thread'[v].pc = "timer_create"
              /\ thread'[u].event = thread'[v].event
              => u = v
  BY DEF Invariant, Ownership, Locals, Knows

LEMMA NewOwnership ==
  ASSUME Invariant, NEW t \in Tasks, NEW n \in Invokers, NEW s \in Tasks,
         NEW l \in {"push_back", "timer_create"}, NEW e,
         l = "timer_create" => timer[e] = NoTimer /\ AtWork(e) = {},
         New(t, n, s, At(l, e, n)), UNCHANGED <<m_invokeres, timer>>
  PROVE  Ownership'
PROOF
<1>1. /\ thread[t].pc = "idle"
      /\ thread'[t] = At(l, e, n)
      /\ \A u \in Tasks \ {t} : thread'[u] = thread[u]
  BY DEF Invariant, TypeOK, New, Begin
<1>2. /\ heap[n] = Free /\ heap'[n] = Invoker(s)
      /\ \A x \in Invokers \ {n} : heap'[x] = heap[x]
  BY DEF Invariant, TypeOK, New
<1>3. Allocated' = Allocated \cup {n} /\ n \notin Allocated
  BY <1>2, MessagesAssumption DEF MessagesAssumption, Allocated, Free, Invoker
<1>4. Owned[t] = {} /\ Owned'[t] = {n}
  BY <1>1, InHand, LabelsHold
<1>5. \A o \in Places \ {t} : Owned'[o] = Owned[o]
  <2>1. \A u \in Tasks \ {t} : TaskContents(u)' = TaskContents(u)
    BY <1>1 DEF TaskContents
  <2> QED
    BY <2>1, OwnedBy DEF Places
<1>6. Divides(Owned', Allocated')
  BY <1>3, <1>4, <1>5, Added, PlacesApart DEF Invariant, Ownership
<1>7. \A x \in Invokers : heap'[x].task = None => heap'[x] = Free
  BY <1>2, MessagesAssumption DEF MessagesAssumption, Invariant, Ownership, Invoker
<1>8. \A u \in Tasks : thread'[u].pc = "timer_create" => timer'[thread'[u].event] = NoTimer
  BY <1>1 DEF Invariant, Ownership, At
<1>9. \A u, v \in Tasks :
        /\ thread'[u].pc = "timer_create"
        /\ thread'[v].pc = "timer_create"
        /\ thread'[u].event = thread'[v].event
        => u = v
  <2>1. ASSUME NEW u \in Tasks \ {t}, l = "timer_create"
        PROVE  thread[u].event # e
    BY <2>1 DEF AtWork
  <2> QED
    BY <1>1, <2>1 DEF Invariant, Ownership, At
<1> QED
  BY <1>6, <1>7, <1>8, <1>9 DEF Invariant, Ownership, Divides

LEMMA PushBackOwnership ==
  ASSUME Invariant, NEW t \in Tasks, PushBack(t)
  PROVE  Ownership'
PROOF
<1> DEFINE e == thread[t].event
<1> DEFINE n == thread[t].node
<1>1. /\ thread[t].pc = "push_back" /\ e \in Events /\ n \in Invokers
      /\ thread'[t] = Idle
      /\ \A u \in Tasks \ {t} : thread'[u] = thread[u]
  BY DEF Invariant, TypeOK, Locals, Knows, PushBack, Goto
<1>2. /\ m_invokeres[e] \in Seq(Invokers)
      /\ m_invokeres'[e] = Append(m_invokeres[e], n)
      /\ \A f \in Events \ {e} : m_invokeres'[f] = m_invokeres[f]
  BY <1>1 DEF Invariant, TypeOK, PushBack
<1>3. Owned[t] = {n} /\ Owned'[t] = {}
  BY <1>1, InHand, LabelsHold
<1>4. Owned'[e] = Owned[e] \cup {n}
  <2>1. Range(Append(m_invokeres[e], n)) = Range(m_invokeres[e]) \cup {n}
    BY <1>1, <1>2, AppendRange
  <2>2. Owned[e] = Range(m_invokeres[e]) /\ Owned'[e] = Range(m_invokeres'[e])
    BY <1>1, OwnedBy
  <2> QED
    BY <1>2, <2>1, <2>2
<1>5. \A o \in Places \ {t, e} : Owned'[o] = Owned[o]
  <2>1. \A u \in Tasks \ {t} : TaskContents(u)' = TaskContents(u)
    BY <1>1 DEF TaskContents
  <2> QED
    BY <1>2, <2>1, OwnedBy DEF Places, PushBack
<1>6. t \in Places /\ e \in Places /\ t # e
  BY <1>1, PlacesApart
<1>7. Divides(Owned', Allocated')
  <2>1. Allocated' = Allocated
    BY DEF PushBack, Allocated
  <2> QED
    BY <1>3, <1>4, <1>5, <1>6, <2>1, Moved DEF Invariant, Ownership
<1>8. n \notin Range(m_invokeres[e])
  BY <1>1, <1>3, <1>6, OwnedBy DEF Invariant, Ownership, Divides
<1>9. \A f \in Events : Distinct(m_invokeres'[f])
  <2>1. Distinct(m_invokeres[e])
    BY <1>1 DEF Invariant, Ownership
  <2>2. Distinct(Append(m_invokeres[e], n))
    BY <1>1, <1>2, <1>8, <2>1, AppendDistinct
  <2> QED
    BY <1>2, <2>2 DEF Invariant, Ownership
<1>10. thread'[t].pc # "timer_create"
  BY <1>1 DEF Idle, At
<1> QED
  BY <1>1, <1>7, <1>9, <1>10, TimersInHand DEF Invariant, Ownership, Divides, Distinct, PushBack

LEMMA RemoveOwnership ==
  ASSUME Invariant, NEW t \in Tasks, RemoveInvoker(t)
  PROVE  Ownership'
PROOF
<1> DEFINE e == thread[t].event
<1> DEFINE n == thread[t].node
<1>1. thread[t].pc = "remove" /\ e \in Events /\ n \in Invokers /\ InList(e, n)
  BY DEF Invariant, Locals, Knows, Removals, RemoveInvoker
<1>2. PICK k \in DOMAIN m_invokeres[e] :
        /\ m_invokeres[e][k] = n
        /\ m_invokeres' = [m_invokeres EXCEPT ![e] = RemoveAt(m_invokeres[e], k)]
  BY <1>1 DEF RemoveInvoker
<1>3. m_invokeres[e] \in Seq(Invokers) /\ n \in Range(m_invokeres[e]) /\ Distinct(m_invokeres[e])
  BY <1>1 DEF Invariant, TypeOK, Ownership, InList
<1>4. /\ thread'[t] = At("delete", e, n)
      /\ \A u \in Tasks \ {t} : thread'[u] = thread[u]
  BY DEF Invariant, TypeOK, Goto, RemoveInvoker
<1>5. Owned[t] = {} /\ Owned'[t] = {n}
  BY <1>1, <1>4, InHand, LabelsHold
<1>6. m_invokeres'[e] = RemoveAt(m_invokeres[e], k)
  BY <1>1, <1>2 DEF Invariant, TypeOK
<1>7. \A f \in Events \ {e} : m_invokeres'[f] = m_invokeres[f]
  BY <1>2 DEF Invariant, TypeOK
<1>8. /\ n \in Owned[e] /\ Owned'[e] = Owned[e] \ {n}
      /\ \A f \in Events : Distinct(m_invokeres'[f])
  <2>1. /\ Range(RemoveAt(m_invokeres[e], k)) = Range(m_invokeres[e]) \ {n}
        /\ Distinct(RemoveAt(m_invokeres[e], k))
    BY <1>2, <1>3, RemoveRange
  <2>2. Owned[e] = Range(m_invokeres[e]) /\ Owned'[e] = Range(m_invokeres'[e])
    BY <1>1, OwnedBy
  <2> QED
    BY <1>3, <1>6, <1>7, <2>1, <2>2 DEF Invariant, Ownership
<1>9. \A o \in Places \ {t, e} : Owned'[o] = Owned[o]
  <2>1. \A u \in Tasks \ {t} : TaskContents(u)' = TaskContents(u)
    BY <1>4 DEF TaskContents
  <2> QED
    BY <1>7, <2>1, OwnedBy DEF Places, RemoveInvoker
<1>10. Divides(Owned', Allocated')
  <2>1. Allocated' = Allocated
    BY DEF RemoveInvoker, Allocated
  <2>2. t \in Places /\ e \in Places /\ t # e
    BY <1>1, PlacesApart
  <2> QED
    BY <1>5, <1>8, <1>9, <2>1, <2>2, Moved DEF Invariant, Ownership
<1>11. thread'[t].pc # "timer_create"
  BY <1>4 DEF At
<1> QED
  BY <1>4, <1>8, <1>10, <1>11, TimersInHand
     DEF Invariant, Ownership, Divides, Distinct, RemoveInvoker

LEMMA DeleteOwnership ==
  ASSUME Invariant, NEW t \in Tasks, Delete(t)
  PROVE  Ownership'
PROOF
<1> DEFINE n == thread[t].node
<1>1. /\ thread[t].pc = "delete" /\ n \in Invokers
      /\ thread'[t] = Idle
      /\ \A u \in Tasks \ {t} : thread'[u] = thread[u]
  BY DEF Invariant, TypeOK, Locals, Knows, Delete, Goto
<1>2. heap'[n] = Free /\ \A x \in Invokers \ {n} : heap'[x] = heap[x]
  BY <1>1 DEF Invariant, TypeOK, Delete
<1>3. Owned[t] = {n} /\ Owned'[t] = {}
  BY <1>1, InHand, LabelsHold
<1>4. \A o \in Places \ {t} : Owned'[o] = Owned[o]
  <2>1. \A u \in Tasks \ {t} : TaskContents(u)' = TaskContents(u)
    BY <1>1 DEF TaskContents
  <2> QED
    BY <2>1, OwnedBy DEF Places, Delete
<1>5. Allocated' = Allocated \ {n}
  BY <1>1, <1>2 DEF Allocated, Free
<1>6. Divides(Owned', Allocated')
  <2>1. t \in Places /\ n \in Owned[t] /\ Owned'[t] = Owned[t] \ {n}
    BY <1>3, PlacesApart
  <2>2. Divides(Owned, Allocated)
    BY DEF Invariant, Ownership
  <2>3. \A o \in Places \ {t} : Owned'[o] = Owned[o]
    BY <1>4
  <2> HIDE DEF n
  <2>4. Divides(Owned', Allocated \ {n})
    BY <2>1, <2>2, <2>3, Removed
  <2> QED
    BY <1>5, <2>4
<1>7. thread'[t].pc # "timer_create"
  BY <1>1 DEF Idle, At
<1>8. \A x \in Invokers : heap'[x].task = None => heap'[x] = Free
  BY <1>2 DEF Invariant, Ownership
<1> QED
  BY <1>1, <1>6, <1>7, <1>8, TimersInHand DEF Invariant, Ownership, Divides, Distinct, Delete

LEMMA TimerCreateOwnership ==
  ASSUME Invariant, NEW t \in Tasks, TimerCreate(t)
  PROVE  Ownership'
PROOF
<1> DEFINE k == thread[t].event
<1> DEFINE n == thread[t].node
<1>1. /\ thread[t].pc = "timer_create" /\ k \in Timers /\ n \in Invokers
      /\ timer[k] = NoTimer
      /\ thread'[t] = Idle
      /\ \A u \in Tasks \ {t} : thread'[u] = thread[u]
  BY DEF Invariant, TypeOK, Locals, Knows, Ownership, TimerCreate, Goto
<1>2. timer'[k].invoker = n /\ \A l \in Timers \ {k} : timer'[l] = timer[l]
  BY <1>1 DEF Invariant, TypeOK, TimerCreate
<1>3. Owned[t] = {n} /\ Owned'[t] = {}
  BY <1>1, InHand, LabelsHold
<1>4. Owned[k] = {} /\ Owned'[k] = {n}
  BY <1>1, <1>2, OwnedBy, MessagesAssumption DEF MessagesAssumption, NoTimer
<1>5. \A o \in Places \ {t, k} : Owned'[o] = Owned[o]
  <2>1. \A u \in Tasks \ {t} : TaskContents(u)' = TaskContents(u)
    BY <1>1 DEF TaskContents
  <2>2. \A l \in Timers \ {k} : Owned'[l] = Owned[l]
    BY <1>2, SameTimers
  <2>3. \A e \in Events : Owned'[e] = Owned[e]
    BY OwnedBy DEF TimerCreate
  <2>4. \A u \in Tasks \ {t} : Owned'[u] = Owned[u]
    BY <2>1, OwnedBy
  <2> QED
    BY <2>2, <2>3, <2>4 DEF Places
<1>6. Divides(Owned', Allocated')
  <2>1. Allocated' = Allocated
    BY DEF TimerCreate, Allocated
  <2>2. t \in Places /\ k \in Places /\ t # k
    BY <1>1, PlacesApart
  <2> QED
    BY <1>3, <1>4, <1>5, <2>1, <2>2, Moved DEF Invariant, Ownership
<1>7. thread'[t].pc # "timer_create"
  BY <1>1 DEF Idle, At
<1>8. \A l \in Timers : timer[l] = NoTimer =>
        timer'[l] = NoTimer \/ (thread[t].pc = "timer_create" /\ thread[t].event = l)
  BY <1>1, <1>2
<1> QED
  BY <1>1, <1>6, <1>7, <1>8, TimersInHand DEF Invariant, Ownership, Divides, Distinct, TimerCreate

LEMMA DestroyOwnership ==
  ASSUME Invariant, NEW t \in Tasks, NEW k \in Timers, Destroy(t, k)
  PROVE  Ownership'
PROOF
<1> DEFINE n == timer[k].invoker
<1>1. /\ thread[t].pc = "idle"
      /\ thread'[t] = At("delete", k, n)
      /\ \A u \in Tasks \ {t} : thread'[u] = thread[u]
  BY DEF Invariant, TypeOK, Begin, Destroy
<1>2. n \in Invokers /\ timer'[k] = NoTimer /\ \A l \in Timers \ {k} : timer'[l] = timer[l]
  BY DEF Invariant, TypeOK, Locals, Destroy
<1>3. Owned[t] = {} /\ Owned'[t] = {n}
  BY <1>1, InHand, LabelsHold
<1>4. Owned[k] = {n} /\ Owned'[k] = {}
  BY <1>1, <1>2, OwnedBy, MessagesAssumption DEF MessagesAssumption, NoTimer
<1>5. \A o \in Places \ {t, k} : Owned'[o] = Owned[o]
  <2>1. \A u \in Tasks \ {t} : TaskContents(u)' = TaskContents(u)
    BY <1>1 DEF TaskContents
  <2>2. \A l \in Timers \ {k} : Owned'[l] = Owned[l]
    BY <1>2, SameTimers
  <2>3. \A e \in Events : Owned'[e] = Owned[e]
    BY OwnedBy DEF Destroy
  <2>4. \A u \in Tasks \ {t} : Owned'[u] = Owned[u]
    BY <2>1, OwnedBy
  <2> QED
    BY <2>2, <2>3, <2>4 DEF Places
<1>6. Divides(Owned', Allocated')
  <2>1. Allocated' = Allocated
    BY DEF Destroy, Allocated
  <2>2. t \in Places /\ k \in Places /\ t # k
    BY PlacesApart
  <2> QED
    BY <1>3, <1>4, <1>5, <2>1, <2>2, Moved DEF Invariant, Ownership
<1>7. thread'[t].pc # "timer_create"
  BY <1>1 DEF At
<1>8. \A l \in Timers : timer[l] = NoTimer => timer'[l] = NoTimer
  BY <1>2
<1> QED
  BY <1>1, <1>6, <1>7, <1>8, TimersInHand DEF Invariant, Ownership, Divides, Distinct, Destroy

LEMMA InitInvariant == Init => Invariant
PROOF
<1>1. Init => Removals
  BY DEF Init, Removals, Idle, At
<1> QED
  BY <1>1, InitTypes, InitOwnership DEF Invariant

LEMMA StepOwnership ==
  ASSUME Invariant, [Next]_vars
  PROVE  Ownership'
PROOF
<1>0. /\ \A t \in Tasks : thread[t] \in Operation
      /\ thread \in [Tasks -> Operation]
      /\ heap \in [Invokers -> [task : Tasks \cup {None}, param : Params]]
  BY DEF Invariant, TypeOK
<1>1. CASE UNCHANGED vars
  <2>1. Uninvolved
    BY <1>1 DEF Uninvolved, vars
  <2> QED
    BY <2>1, UninvolvedOwnership
<1>2. ASSUME NEW t \in Tasks, TaskStep(t)
      PROVE  Ownership'
  <2>1. CASE NewFails(t)
    <3>1. thread[t].pc = "idle" /\ thread' = [thread EXCEPT ![t] = At("stuck", None, None)]
      BY <2>1 DEF NewFails, Begin
    <3>2. \A u \in Tasks :
            thread'[u] = thread[u] \/ (thread[u].pc \notin Holding /\ thread'[u].pc \notin Holding)
      BY <1>0, <3>1, LabelsHold DEF Holding
    <3>3. Uninvolved
      BY <2>1, <3>2 DEF Uninvolved, NewFails
    <3> QED
      BY <3>3, UninvolvedOwnership
  <2>2. CASE PushBack(t)
    BY <2>2, PushBackOwnership
  <2>3. CASE Delete(t)
    BY <2>3, DeleteOwnership
  <2>4. CASE SetParam(t)
    <3> DEFINE n == thread[t].node
    <3>1. thread[t].pc = "set_param" /\ thread' = [thread EXCEPT ![t] = [thread[t] EXCEPT !.pc = "send"]]
      BY <2>4 DEF SetParam, Goto
    <3>2. \A u \in Tasks :
            thread'[u] = thread[u] \/ (thread[u].pc \notin Holding /\ thread'[u].pc \notin Holding)
      BY <1>0, <3>1 DEF Holding, Operation
    <3>3. \A x \in Invokers : /\ heap'[x].task = heap[x].task
                             /\ heap[x] = Free => heap'[x] = Free
      <4>1. CASE heap[n] = Free
        BY <2>4, <4>1 DEF SetParam
      <4>2. CASE heap[n] # Free
        <5>1. heap' = [heap EXCEPT ![n] = [heap[n] EXCEPT !.param = thread[t].param]]
          BY <2>4, <4>2 DEF SetParam
        <5> QED
          BY <1>0, <4>2, <5>1
      <4> QED
        BY <4>1, <4>2
    <3>4. Uninvolved
      BY <2>4, <3>2, <3>3 DEF Uninvolved, SetParam
    <3> QED
      BY <3>4, UninvolvedOwnership
  <2>5. CASE Send(t)
    <3>1. PICK next : thread' = [thread EXCEPT ![t] =
                                   [thread[t] EXCEPT !.pc = "set_param", !.node = next]]
      BY <2>5 DEF Send, Goto
    <3>2. thread[t].pc = "send"
      BY <2>5 DEF Send
    <3>3. \A u \in Tasks :
            thread'[u] = thread[u] \/ (thread[u].pc \notin Holding /\ thread'[u].pc \notin Holding)
      BY <1>0, <3>1, <3>2 DEF Holding, Operation
    <3>4. Uninvolved
      BY <2>5, <3>3 DEF Uninvolved, Send
    <3> QED
      BY <3>4, UninvolvedOwnership
  <2>6. CASE InvokeEnd(t)
    <3>1. \A u \in Tasks :
            thread'[u] = thread[u] \/ (thread[u].pc \notin Holding /\ thread'[u].pc \notin Holding)
      BY <1>0, <2>6, LabelsHold DEF Holding, InvokeEnd, Goto
    <3>2. Uninvolved
      BY <2>6, <3>1 DEF Uninvolved, InvokeEnd
    <3> QED
      BY <3>2, UninvolvedOwnership
  <2>7. CASE TimerCreate(t)
    BY <2>7, TimerCreateOwnership
  <2>8. CASE NotifyMessage(t)
    <3>1. Uninvolved
      BY <2>8 DEF Uninvolved, NotifyMessage
    <3> QED
      BY <3>1, UninvolvedOwnership
  <2>9. CASE Pull(t)
    <3> DEFINE op == [At("dispatch", None, queue[t][1].invoker) EXCEPT !.past = queue[t][1].past]
    <3>1. op.pc = "dispatch"
      BY DEF At
    <3>2. thread[t].pc = "idle" /\ thread' = [thread EXCEPT ![t] = op]
      BY <2>9 DEF Pull, Begin
    <3> HIDE DEF op
    <3>3. \A u \in Tasks :
            thread'[u] = thread[u] \/ (thread[u].pc \notin Holding /\ thread'[u].pc \notin Holding)
      BY <1>0, <3>1, <3>2 DEF Holding
    <3>4. Uninvolved
      BY <2>9, <3>3 DEF Uninvolved, Pull
    <3> QED
      BY <3>4, UninvolvedOwnership
  <2>10. CASE Dispatch(t)
    <3>1. \A u \in Tasks :
            thread'[u] = thread[u] \/ (thread[u].pc \notin Holding /\ thread'[u].pc \notin Holding)
      BY <1>0, <2>10, LabelsHold DEF Holding, Dispatch, Goto
    <3>2. Uninvolved
      BY <2>10, <3>1 DEF Uninvolved, Dispatch
    <3> QED
      BY <3>2, UninvolvedOwnership
  <2>11. ASSUME NEW e \in Events, Invoke(t, e)
         PROVE  Ownership'
    <3>1. PICK op : op.pc = "set_param" /\ thread' = [thread EXCEPT ![t] = op]
      BY <2>11 DEF Invoke, Begin
    <3>2. thread[t].pc = "idle"
      BY <2>11 DEF Invoke, Begin
    <3>3. \A u \in Tasks :
            thread'[u] = thread[u] \/ (thread[u].pc \notin Holding /\ thread'[u].pc \notin Holding)
      BY <1>0, <3>1, <3>2 DEF Holding
    <3>4. Uninvolved
      BY <2>11, <3>3 DEF Uninvolved, Invoke
    <3> QED
      BY <3>4, UninvolvedOwnership
  <2>12. ASSUME NEW e \in Events, NEW s \in Tasks, Register(t, e, s)
         PROVE  Ownership'
    BY <2>12, NewOwnership DEF Register
  <2>13. ASSUME NEW e \in Events, NEW s \in Tasks, Unregister(t, e, s)
         PROVE  Ownership'
    <3>1. PICK n : thread[t].pc = "idle" /\ thread' = [thread EXCEPT ![t] = At("remove", e, n)]
      BY <2>13 DEF Unregister, Begin
    <3>2. \A u \in Tasks :
            thread'[u] = thread[u] \/ (thread[u].pc \notin Holding /\ thread'[u].pc \notin Holding)
      BY <1>0, <3>1, LabelsHold
    <3>3. Uninvolved
      BY <2>13, <3>2 DEF Uninvolved, Unregister
    <3> QED
      BY <3>3, UninvolvedOwnership
  <2>14. ASSUME NEW k \in Timers, Destroy(t, k)
         PROVE  Ownership'
    BY <2>14, DestroyOwnership
  <2>15. ASSUME NEW k \in Timers, NEW s \in Tasks, NewTimeEvent(t, k, s)
         PROVE  Ownership'
    BY <2>15, NewOwnership DEF NewTimeEvent
  <2>16. CASE RemoveInvoker(t)
    BY <2>16, RemoveOwnership
  <2> QED
    BY <1>2, <2>1, <2>2, <2>3, <2>4, <2>5, <2>6, <2>7, <2>8, <2>9, <2>10, <2>11, <2>12, <2>13,
       <2>14, <2>15, <2>16 DEF TaskStep
<1>3. ASSUME NEW k \in Timers, TimerExpired(k)
      PROVE  Ownership'
  <2>1. \A l \in Timers : /\ timer'[l].invoker = timer[l].invoker
                         /\ timer[l] = NoTimer => timer'[l] = NoTimer
    BY <1>3 DEF Invariant, TypeOK, TimerExpired, NoTimer
  <2>2. Uninvolved
    BY <1>3, <2>1 DEF Uninvolved, TimerExpired
  <2> QED
    BY <2>2, UninvolvedOwnership
<1> QED
  BY <1>1, <1>2, <1>3 DEF Next, TaskStep

\* A step of t to op that leaves the other removals alone.
LEMMA RemovalsKept ==
  ASSUME Invariant, NEW t \in Tasks, NEW op, Goto(t, op),
         op.pc = "remove" => InList(op.event, op.node) /\ AtWork(op.event) = {}
                             /\ UNCHANGED m_invokeres,
         \/ op.event = thread[t].event
         \/ op.event \notin Events
         \/ \A u \in AtWork(op.event) : thread[u].pc # "remove",
         \A e \in Events : e # thread[t].event => m_invokeres'[e] = m_invokeres[e]
  PROVE  Removals'
PROOF
<1>1. thread'[t] = op /\ \A u \in Tasks \ {t} : thread'[u] = thread[u]
  BY DEF Invariant, TypeOK, Goto
<1>2. ASSUME NEW u \in Tasks \ {t}, thread[u].pc = "remove"
      PROVE  /\ thread[u].event \in Events
             /\ InList(thread[u].event, thread[u].node)
             /\ AtWork(thread[u].event) = {u}
             /\ thread[u].event # thread[t].event
  BY <1>2 DEF Invariant, Locals, Knows, Removals, AtWork
<1>3. ASSUME NEW u \in Tasks \ {t}, thread[u].pc = "remove"
      PROVE  InList(thread[u].event, thread[u].node)' /\ AtWork(thread[u].event)' = {u}
  <2>1. m_invokeres'[thread[u].event] = m_invokeres[thread[u].event]
    BY <1>2, <1>3
  <2>2. op.event # thread[u].event
    BY <1>2, <1>3 DEF AtWork
  <2>3. \A v \in Tasks : thread'[v].event = thread[u].event => v = u
    BY <1>1, <1>2, <1>3, <2>2 DEF AtWork
  <2> QED
    BY <1>1, <1>2, <1>3, <2>1, <2>3 DEF InList, AtWork
<1>4. ASSUME op.pc = "remove"
      PROVE  InList(thread[t].event, thread[t].node)' /\ AtWork(thread[t].event)' = {t}
  BY <1>1, <1>4 DEF InList, AtWork
<1> QED
  BY <1>1, <1>3, <1>4 DEF Removals

LEMMA StepRemovals ==
  ASSUME Careful, Invariant, [Next]_vars
  PROVE  Removals'
PROOF
<1>0. \A k \in Timers : k \notin Events
  BY MessagesAssumption DEF MessagesAssumption
<1>1. CASE UNCHANGED <<thread, m_invokeres>>
  BY <1>1 DEF Invariant, Removals, InList, AtWork
<1>2. ASSUME NEW t \in Tasks, Goto(t, Idle),
             \A e \in Events : e # thread[t].event => m_invokeres'[e] = m_invokeres[e]
      PROVE  Removals'
  <2>1. Idle.pc # "remove" /\ Idle.event \notin Events
    BY MessagesAssumption DEF MessagesAssumption, Idle, At
  <2> QED
    BY <1>2, <2>1, RemovalsKept
<1>3. ASSUME NEW t \in Tasks, NEW k \in Timers, NEW n,
             NEW l \in {"timer_create", "delete"}, Begin(t, At(l, k, n)), UNCHANGED m_invokeres
      PROVE  Removals'
  <2>1. At(l, k, n).pc # "remove" /\ At(l, k, n).event \notin Events
    BY <1>0, LabelsHold
  <2> QED
    BY <1>3, <2>1, RemovalsKept, BeginIsGoto
<1>4. ASSUME NEW t \in Tasks, TaskStep(t)
      PROVE  Removals'
  <2>0. thread[t] \in Operation
    BY DEF Invariant, TypeOK
  <2>1. CASE NewFails(t)
    <3> DEFINE op == At("stuck", None, None)
    <3>1. op.pc # "remove" /\ op.event \notin Events
      BY MessagesAssumption, LabelsHold DEF MessagesAssumption
    <3> QED
      BY <2>1, <3>1, RemovalsKept, BeginIsGoto DEF NewFails
  <2>2. CASE PushBack(t)
    <3>1. \A e \in Events : e # thread[t].event => m_invokeres'[e] = m_invokeres[e]
      BY <2>2 DEF Invariant, TypeOK, PushBack
    <3> QED
      BY <1>2, <2>2, <3>1 DEF PushBack
  <2>3. CASE Delete(t)
    BY <1>2, <2>3 DEF Delete
  <2>4. CASE SetParam(t)
    <3> DEFINE op == [thread[t] EXCEPT !.pc = "send"]
    <3>1. op.pc # "remove" /\ op.event = thread[t].event
      BY <2>0 DEF Operation
    <3> QED
      BY <2>4, <3>1, RemovalsKept DEF SetParam
  <2>5. CASE Send(t)
    <3>1. PICK next : Goto(t, [thread[t] EXCEPT !.pc = "set_param", !.node = next])
      BY <2>5 DEF Send
    <3> DEFINE op == [thread[t] EXCEPT !.pc = "set_param", !.node = next]
    <3>2. op.pc # "remove" /\ op.event = thread[t].event
      BY <2>0 DEF Operation
    <3> QED
      BY <2>5, <3>1, <3>2, RemovalsKept DEF Send
  <2>6. CASE InvokeEnd(t)
    BY <1>2, <2>6 DEF InvokeEnd
  <2>7. CASE TimerCreate(t)
    BY <1>2, <2>7 DEF TimerCreate
  <2>8. CASE NotifyMessage(t)
    BY <1>1, <2>8 DEF NotifyMessage
  <2>9. CASE Pull(t)
    <3> DEFINE op == [At("dispatch", None, queue[t][1].invoker) EXCEPT !.past = queue[t][1].past]
    <3>1. op.pc # "remove" /\ op.event \notin Events
      BY MessagesAssumption DEF MessagesAssumption, At
    <3>2. Goto(t, op)
      BY <2>9, BeginIsGoto DEF Pull
    <3> HIDE DEF op
    <3> QED
      BY <2>9, <3>1, <3>2, RemovalsKept DEF Pull
  <2>10. CASE Dispatch(t)
    BY <1>2, <2>10 DEF Dispatch
  <2>11. ASSUME NEW e \in Events, Invoke(t, e)
         PROVE  Removals'
    <3>1. PICK op : op.pc = "set_param" /\ op.event = e /\ Begin(t, op)
      BY <2>11 DEF Invoke
    <3>2. \A u \in AtWork(op.event) : thread[u].pc # "remove"
      BY <2>11, <3>1 DEF Invoke, MayUse
    <3> QED
      BY <2>11, <3>1, <3>2, RemovalsKept, BeginIsGoto DEF Invoke
  <2>12. ASSUME NEW e \in Events, NEW s \in Tasks, Register(t, e, s)
         PROVE  Removals'
    <3>1. PICK n : Begin(t, At("push_back", e, n))
      BY <2>12 DEF Register, New
    <3>2. At("push_back", e, n).pc # "remove" /\ At("push_back", e, n).event = e
      BY LabelsHold
    <3>3. \A u \in AtWork(e) : thread[u].pc # "remove"
      BY <2>12 DEF Register, MayUse
    <3> QED
      BY <2>12, <3>1, <3>2, <3>3, RemovalsKept, BeginIsGoto DEF Register
  <2>13. ASSUME NEW e \in Events, NEW s \in Tasks, Unregister(t, e, s)
         PROVE  Removals'
    <3>1. PICK n \in Range(m_invokeres[e]) : AtWork(e) = {} /\ Begin(t, At("remove", e, n))
      BY <2>13 DEF Unregister, MayDelete, Range
    <3> DEFINE op == At("remove", e, n)
    <3>2. op.event = e /\ op.node = n
      BY LabelsHold
    <3> HIDE DEF op
    <3>3. InList(op.event, op.node) /\ AtWork(op.event) = {}
      BY <3>1, <3>2 DEF InList
    <3>4. Goto(t, op) /\ UNCHANGED m_invokeres
      BY <2>13, <3>1, BeginIsGoto DEF Unregister, op
    <3> QED
      BY <3>3, <3>4, RemovalsKept
  <2>14. ASSUME NEW k \in Timers, Destroy(t, k)
         PROVE  Removals'
    BY <1>3, <2>14 DEF Destroy
  <2>15. ASSUME NEW k \in Timers, NEW s \in Tasks, NewTimeEvent(t, k, s)
         PROVE  Removals'
    BY <1>3, <2>15 DEF NewTimeEvent, New
  <2>16. CASE RemoveInvoker(t)
    <3> DEFINE op == At("delete", thread[t].event, thread[t].node)
    <3>1. op.pc # "remove" /\ op.event = thread[t].event
      BY LabelsHold
    <3>2. \A e \in Events : e # thread[t].event => m_invokeres'[e] = m_invokeres[e]
      BY <2>16 DEF Invariant, TypeOK, RemoveInvoker
    <3>3. Goto(t, op)
      BY <2>16 DEF RemoveInvoker
    <3> HIDE DEF op
    <3> QED
      BY <3>1, <3>2, <3>3, RemovalsKept
  <2> QED
    BY <1>4, <2>1, <2>2, <2>3, <2>4, <2>5, <2>6, <2>7, <2>8, <2>9, <2>10, <2>11, <2>12, <2>13,
       <2>14, <2>15, <2>16 DEF TaskStep
<1>5. ASSUME NEW k \in Timers, TimerExpired(k)
      PROVE  Removals'
  BY <1>1, <1>5 DEF TimerExpired
<1> QED
  BY <1>1, <1>4, <1>5 DEF Next, TaskStep, vars

LEMMA StepInvariant ==
  ASSUME Careful, Invariant, [Next]_vars
  PROVE  Invariant'
  BY StepTypes, StepOwnership, StepRemovals DEF Invariant

LEMMA OwnershipOnce ==
  ASSUME Invariant
  PROVE  OwnedOnce
PROOF
<1> DEFINE Listed(e, n) == {[of |-> e, at |-> k] :
                              k \in {j \in DOMAIN m_invokeres[e] : m_invokeres[e][j] = n}}
<1> DEFINE Timed(n) == {[of |-> k, at |-> 0] : k \in {j \in Timers : timer[j].invoker = n}}
<1> DEFINE Held(n) == {[of |-> t, at |-> 0] : t \in {u \in Tasks : Holds(u, n)}}
<1>1. ASSUME NEW n \in Invokers
      PROVE  Owners(n) = (UNION {Listed(e, n) : e \in Events}) \cup Timed(n) \cup Held(n)
  BY DEF Owners
<1>2. ASSUME NEW n \in Invokers, NEW e \in Events
      PROVE  n \in Owned[e] <=> \E j \in DOMAIN m_invokeres[e] : m_invokeres[e][j] = n
  BY OwnedBy DEF Range
<1>3. ASSUME NEW n \in Invokers, NEW k \in Timers
      PROVE  n \in Owned[k] <=> timer[k].invoker = n
  BY OwnedBy, MessagesAssumption DEF MessagesAssumption
<1>4. ASSUME NEW n \in Invokers, NEW t \in Tasks
      PROVE  n \in Owned[t] <=> Holds(t, n)
  BY InHand DEF Holds, Holding
<1>5. ASSUME NEW n \in Invokers, NEW e \in Events, n \notin Owned[e]
      PROVE  Listed(e, n) = {}
  BY <1>2, <1>5
<1>6. ASSUME NEW n \in Invokers, \A o \in Places : n \notin Owned[o]
      PROVE  Owners(n) = {}
  <2>1. UNION {Listed(e, n) : e \in Events} = {}
    <3> HIDE DEF Listed
    <3> QED
      BY <1>5, <1>6, PlacesApart
  <2>2. Timed(n) = {} /\ Held(n) = {}
    BY <1>3, <1>4, <1>6, PlacesApart
  <2> QED
    BY <1>1, <2>1, <2>2
<1>7. ASSUME NEW n \in Invokers, NEW o \in Places, n \in Owned[o]
      PROVE  \E x \in Owners(n) : Owners(n) = {x}
  <2>1. \A p \in Places : n \in Owned[p] => p = o
    BY <1>7 DEF Invariant, Ownership, Divides
  <2>2. CASE o \in Events
    <3>1. PICK k \in DOMAIN m_invokeres[o] : m_invokeres[o][k] = n
      BY <1>2, <1>7, <2>2
    <3>2. Listed(o, n) = {[of |-> o, at |-> k]}
      BY <2>2, <3>1 DEF Invariant, Ownership, Distinct
    <3>3. \A e \in Events \ {o} : Listed(e, n) = {}
      BY <1>5, <2>1, PlacesApart
    <3>4. UNION {Listed(e, n) : e \in Events} = {[of |-> o, at |-> k]}
      <4> HIDE DEF Listed
      <4> QED
        BY <2>2, <3>2, <3>3
    <3>5. Timed(n) = {} /\ Held(n) = {}
      BY <1>3, <1>4, <2>1, <2>2, PlacesApart
    <3>6. Owners(n) = {[of |-> o, at |-> k]}
      <4> HIDE DEF Listed, Timed, Held
      <4> QED
        BY <1>1, <3>4, <3>5
    <3> QED
      BY <3>6
  <2>3. CASE o \notin Events
    <3>1. Owners(n) = Timed(n) \cup Held(n)
      <4>1. \A e \in Events : Listed(e, n) = {}
        BY <1>5, <2>1, <2>3, PlacesApart
      <4> HIDE DEF Listed, Timed, Held
      <4>2. UNION {Listed(e, n) : e \in Events} = {}
        BY <4>1
      <4> QED
        BY <1>1, <4>2
    <3>2. CASE o \in Timers
      <4>1. Timed(n) = {[of |-> o, at |-> 0]}
        BY <1>3, <1>7, <2>1, <3>2, PlacesApart
      <4>2. Held(n) = {}
        BY <1>4, <2>1, <3>2, PlacesApart
      <4>3. Owners(n) = {[of |-> o, at |-> 0]}
        <5> HIDE DEF Listed, Timed, Held
        <5> QED
          BY <3>1, <4>1, <4>2
      <4> QED
        BY <4>3
    <3>3. CASE o \in Tasks
      <4>1. Held(n) = {[of |-> o, at |-> 0]}
        BY <1>4, <1>7, <2>1, <3>3, PlacesApart
      <4>2. Timed(n) = {}
        BY <1>3, <2>1, <3>3, PlacesApart
      <4>3. Owners(n) = {[of |-> o, at |-> 0]}
        <5> HIDE DEF Listed, Timed, Held
        <5> QED
          BY <3>1, <4>1, <4>2
      <4> QED
        BY <4>3
    <3> QED
      BY <2>3, <3>2, <3>3 DEF Places
  <2> QED
    BY <2>2, <2>3
<1>8. ASSUME NEW n \in Invokers
      PROVE  heap[n] = Free <=> n \notin Allocated
  BY DEF Invariant, Ownership, Allocated, Free
<1>9. \A n \in Invokers : n \in Allocated <=> \E o \in Places : n \in Owned[o]
  BY DEF Invariant, Ownership, Divides
<1> QED
  BY <1>6, <1>7, <1>8, <1>9 DEF OwnedOnce

(* When the application keeps off an event while a task takes an invoker out  *)
(* of it, the memory of an invoker has one owner from the operator new that   *)
(* allocates it to the delete that frees it: nothing is leaked, listed twice  *)
(* or deleted twice, whatever else the tasks do at the same time.             *)
THEOREM InvokersOwnedOnce == ASSUME Careful PROVE Spec => []OwnedOnce
PROOF
<1>1. Invariant /\ [Next]_vars => Invariant'
  BY StepInvariant
<1> QED
  BY InitInvariant, <1>1, OwnershipOnce, PTL DEF Spec

------------------------------------------------------------------------------
(* What a careful application gets: no message and no walk is left behind. *)

Walking == {"set_param", "send"}

\* The calls of Invoke that are under way are different, and none of them ended.
Calls ==
  /\ \A e \in Events : ended[e] \subseteq 1 .. invokes
  /\ \A t \in Tasks : thread[t].pc \in Walking =>
       /\ thread[t].param \in 1 .. invokes
       /\ thread[t].param \notin ended[thread[t].event]
       /\ thread[t].past \subseteq ended[thread[t].event] \cup {0}
  /\ \A t, u \in Tasks :
       /\ thread[t].pc \in Walking
       /\ thread[u].pc \in Walking
       /\ thread[t].param = thread[u].param
       => t = u

\* The parameters of invokers are not in the past of the calls that use them.
Fresh ==
  /\ \A t \in Tasks : thread[t].pc = "send" => heap[thread[t].node].param \notin thread[t].past
  /\ \A t \in Tasks : \A msg \in Pending(t) : \A e \in Events :
       InList(e, msg.invoker) => msg.past \subseteq ended[e] \cup {0}
  /\ NoStaleParameter

\* No message points to an invoker that is about to be removed.
Unpointed == \A t \in Tasks : thread[t].pc = "remove" => ~PointedTo(thread[t].node)

Safe == NoDangling /\ Calls /\ Fresh /\ Unpointed

LEMMA PendingType ==
  ASSUME TypeOK, NEW t \in Tasks
  PROVE  Pending(t) \subseteq Message
PROOF
<1>1. queue[t] \in Seq(Message) /\ thread[t] \in Operation
  BY DEF TypeOK
<1>2. Range(queue[t]) \subseteq Message
  BY <1>1, ElementOfSeq, LenProperties DEF Range
<1>3. EventMessage(thread[t].node, thread[t].past) \in Message
  BY <1>1 DEF EventMessage, Message, Operation
<1> QED
  BY <1>2, <1>3 DEF Pending

\* A listed invoker is allocated, in no other list, in no timer and in nobody's hand.
LEMMA ListedOnce ==
  ASSUME Invariant, NEW e \in Events, NEW n, InList(e, n)
  PROVE  /\ n \in Invokers /\ heap[n].task \in Tasks
         /\ \A f \in Events : InList(f, n) => f = e
         /\ \A u \in Tasks : ~Holds(u, n)
PROOF
<1>1. n \in Owned[e]
  BY OwnedBy DEF InList
<1>2. n \in Invokers /\ heap[n].task # None
  BY <1>1, PlacesApart DEF Invariant, Ownership, Divides, Allocated
<1>3. heap[n].task \in Tasks
  BY <1>2 DEF Invariant, TypeOK
<1>4. \A p \in Places : n \in Owned[p] => p = e
  BY <1>1, PlacesApart DEF Invariant, Ownership, Divides
<1>5. \A f \in Events : InList(f, n) => f = e
  BY <1>4, OwnedBy, PlacesApart DEF InList
<1>6. \A u \in Tasks : ~Holds(u, n)
  BY <1>4, InHand, PlacesApart DEF Holds, Holding
<1> QED
  BY <1>2, <1>3, <1>5, <1>6

\* So is the invoker of a timer.
LEMMA TimedOnce ==
  ASSUME Invariant, NEW k \in Timers, timer[k] # NoTimer
  PROVE  LET n == timer[k].invoker IN
         /\ n \in Invokers /\ heap[n].task \in Tasks
         /\ \A f \in Events : ~InList(f, n)
         /\ \A u \in Tasks : ~Holds(u, n)
PROOF
<1> DEFINE n == timer[k].invoker
<1>1. n \in Invokers
  BY DEF Invariant, Locals
<1>2. n \in Owned[k]
  BY <1>1, OwnedBy, MessagesAssumption DEF MessagesAssumption
<1>3. heap[n].task # None
  BY <1>2, PlacesApart DEF Invariant, Ownership, Divides, Allocated
<1>4. heap[n].task \in Tasks
  BY <1>1, <1>3 DEF Invariant, TypeOK
<1>5. \A p \in Places : n \in Owned[p] => p = k
  BY <1>2, PlacesApart DEF Invariant, Ownership, Divides
<1>6. \A f \in Events : ~InList(f, n)
  BY <1>5, OwnedBy, PlacesApart DEF InList
<1>7. \A u \in Tasks : ~Holds(u, n)
  BY <1>5, InHand, PlacesApart DEF Holds, Holding
<1> QED
  BY <1>1, <1>4, <1>6, <1>7

\* An invoker that a message points to is allocated and in nobody's hand.
LEMMA PointedOnce ==
  ASSUME NoDangling, NEW n \in Invokers, PointedTo(n)
  PROVE  /\ heap[n].task \in Tasks
         /\ \A u \in Tasks : ~Holds(u, n)
  BY MessagesAssumption DEF MessagesAssumption, NoDangling, PointedTo

\* An invoker a walk stands on is in the list of its event.
LEMMA WalkedListed ==
  ASSUME Invariant, NoDangling, NEW t \in Tasks, thread[t].pc \in Walking, thread[t].node # None
  PROVE  thread[t].event \in Events /\ InList(thread[t].event, thread[t].node)
  BY DEF Invariant, Locals, Knows, NoDangling, Walking

LEMMA InitSafe == Init => Safe
PROOF
<1> SUFFICES ASSUME Init PROVE Safe
  OBVIOUS
<1>1. \A t \in Tasks : thread[t].pc = "idle" /\ queue[t] = << >>
  BY DEF Init, Idle, At
<1>2. \A t \in Tasks : Pending(t) = {}
  BY <1>1 DEF Pending, Range
<1> QED
  BY <1>1, <1>2 DEF Init, Safe, NoDangling, Calls, Fresh, NoStaleParameter, Unpointed, Walking

\* An operation that is no walk, and not about to remove what a message points to.
Steady(op) == op.pc \notin Walking /\ (op.pc = "remove" => ~PointedTo(op.node))

\* A step that sends no event message, sets no parameter and moves no walk, and leaves
\* alone what the messages and the walks point to.
Aside ==
  /\ \A u \in Tasks : \A msg \in Pending(u)' : msg \in Pending(u) \/ msg.invoker = None
  /\ \A n \in Invokers : PointedTo(n) =>
       /\ heap'[n] = heap[n]
       /\ \A u \in Tasks : Holds(u, n)' => Holds(u, n)
       /\ \A e \in Events : InList(e, n)' => InList(e, n)
  /\ \A u \in Tasks : thread'[u] = thread[u] \/ Steady(thread'[u])
  /\ \A u \in Tasks : thread[u].pc \in Walking /\ thread[u].node # None /\ thread'[u] = thread[u] =>
       /\ heap'[thread[u].node] = heap[thread[u].node]
       /\ InList(thread[u].event, thread[u].node)'
  /\ UNCHANGED <<invokes, ended>>

LEMMA UnpointedKept ==
  ASSUME Invariant', Safe, Aside
  PROVE  Unpointed'
PROOF
<1> SUFFICES ASSUME NEW t \in Tasks, thread'[t].pc = "remove",
                    NEW u \in Tasks, NEW msg \in Pending(u)', msg.invoker = thread'[t].node
             PROVE  FALSE
  BY DEF Unpointed, PointedTo
<1>1. thread'[t].node # None
  BY MessagesAssumption DEF MessagesAssumption, Invariant, Locals, Knows
<1>2. PointedTo(thread'[t].node)
  BY <1>1 DEF Aside, PointedTo
<1> QED
  BY <1>2 DEF Aside, Steady, Safe, Unpointed

LEMMA AsideSafe ==
  ASSUME Invariant, Invariant', Safe, Aside
  PROVE  Safe'
PROOF
<1>1. ASSUME NEW t \in Tasks, NEW msg \in Pending(t)', msg.invoker # None
      PROVE  /\ msg \in Pending(t) /\ msg.invoker \in Invokers /\ PointedTo(msg.invoker)
             /\ heap'[msg.invoker] = heap[msg.invoker]
             /\ \A u \in Tasks : Holds(u, msg.invoker)' => Holds(u, msg.invoker)
             /\ \A e \in Events : InList(e, msg.invoker)' => InList(e, msg.invoker)
  <2>1. msg \in Pending(t)
    BY <1>1 DEF Aside
  <2>2. msg.invoker \in Invokers
    BY <1>1, <2>1, PendingType DEF Invariant, Message
  <2>3. PointedTo(msg.invoker)
    BY <2>1 DEF PointedTo
  <2> QED
    BY <2>1, <2>2, <2>3 DEF Aside
<1>2. ASSUME NEW t \in Tasks, NEW msg \in Pending(t)', msg.invoker # None
      PROVE  heap'[msg.invoker].task = t /\ \A u \in Tasks : ~Holds(u, msg.invoker)'
  BY <1>1, <1>2 DEF Safe, NoDangling
<1>3. ASSUME NEW t \in Tasks, thread'[t].pc \in Walking
      PROVE  thread'[t] = thread[t]
  BY <1>3 DEF Aside, Steady
<1>4. ASSUME NEW t \in Tasks, thread'[t].pc \in Walking, thread'[t].node # None
      PROVE  InList(thread[t].event, thread[t].node)'
  BY <1>3, <1>4 DEF Aside
<1>5. NoDangling'
  BY <1>2, <1>4 DEF NoDangling, Walking
<1>6. Calls'
  BY <1>3 DEF Safe, Calls, Aside
<1>7. ASSUME NEW t \in Tasks, thread'[t].pc = "send"
      PROVE  heap'[thread'[t].node].param \notin thread'[t].past
  <2>1. thread'[t] = thread[t]
    BY <1>3, <1>7 DEF Walking
  <2>2. thread[t].node # None
    BY <1>7, <2>1, MessagesAssumption DEF MessagesAssumption, Invariant, Locals, Knows
  <2> QED
    BY <1>7, <2>1, <2>2 DEF Safe, Fresh, Aside, Walking
<1>8. ASSUME NEW t \in Tasks, NEW msg \in Pending(t)', NEW e \in Events, InList(e, msg.invoker)'
      PROVE  msg.past \subseteq ended'[e] \cup {0}
  <2>1. msg.invoker # None
    <3>1. m_invokeres'[e] \in Seq(Invokers)
      BY DEF Invariant, TypeOK
    <3>2. msg.invoker \in Invokers
      BY <1>8, <3>1, SeqRange DEF InList
    <3> QED
      BY <3>2, MessagesAssumption DEF MessagesAssumption
  <2> QED
    BY <1>1, <1>8, <2>1 DEF Safe, Fresh, Aside
<1>9. NoStaleParameter'
  BY <1>1 DEF Safe, Fresh, NoStaleParameter
<1>10. Unpointed'
  BY UnpointedKept
<1> QED
  BY <1>5, <1>6, <1>7, <1>8, <1>9, <1>10 DEF Safe, Fresh

LEMMA QuietPending ==
  ASSUME NEW u \in Tasks, queue'[u] = queue[u],
         thread'[u] = thread[u] \/ thread'[u].pc # "dispatch"
  PROVE  Pending(u)' \subseteq Pending(u)
  BY DEF Pending

\* The step of t to op, which is neither a walk nor a dispatch.
Quiet(t, op) ==
  /\ queue' = queue
  /\ Goto(t, op)
  /\ Steady(op) /\ op.pc # "dispatch"
  /\ UNCHANGED <<invokes, ended>>

LEMMA QuietStep ==
  ASSUME Invariant, NEW t \in Tasks, NEW op, Quiet(t, op)
  PROVE  /\ thread'[t] = op
         /\ \A u \in Tasks \ {t} : thread'[u] = thread[u]
         /\ \A u \in Tasks : \A msg \in Pending(u)' : msg \in Pending(u) \/ msg.invoker = None
         /\ \A u \in Tasks : thread'[u] = thread[u] \/ Steady(thread'[u])
         /\ \A n : ~(op.pc \in Holding /\ op.node = n) => \A u \in Tasks : Holds(u, n)' => Holds(u, n)
PROOF
<1>1. thread'[t] = op /\ \A u \in Tasks \ {t} : thread'[u] = thread[u]
  BY DEF Invariant, TypeOK, Quiet, Goto
<1>2. \A u \in Tasks : \A msg \in Pending(u)' : msg \in Pending(u)
  BY <1>1, QuietPending DEF Quiet
<1>3. \A u \in Tasks : thread'[u] = thread[u] \/ Steady(thread'[u])
  BY <1>1 DEF Quiet
<1>4. ASSUME NEW n, ~(op.pc \in Holding /\ op.node = n), NEW u \in Tasks, Holds(u, n)'
      PROVE  Holds(u, n)
  BY <1>1, <1>4 DEF Holds, Holding
<1> QED
  BY <1>1, <1>2, <1>3, <1>4

LEMMA NewAside ==
  ASSUME Invariant, Safe, NEW t \in Tasks, NEW n \in Invokers, NEW s \in Tasks,
         NEW l \in {"push_back", "timer_create"}, NEW e,
         New(t, n, s, At(l, e, n)), UNCHANGED <<m_invokeres, timer, queue, invokes, ended>>
  PROVE  Aside
PROOF
<1> DEFINE op == At(l, e, n)
<1>1. heap[n] = Free /\ \A x \in Invokers \ {n} : heap'[x] = heap[x]
  BY DEF Invariant, TypeOK, New
<1>2. op.pc = l /\ op.node = n
  BY DEF At
<1> HIDE DEF op
<1>3. Quiet(t, op)
  BY <1>2 DEF Quiet, Steady, Walking, New, Begin, Goto, op
<1>4. heap[n].task \notin Tasks
  BY <1>1, MessagesAssumption DEF MessagesAssumption, Free
<1>5. \A x \in Invokers : PointedTo(x) => x # n
  BY <1>4, PointedOnce DEF Safe
<1>6. ASSUME NEW u \in Tasks, thread[u].pc \in Walking, thread[u].node # None
      PROVE  /\ heap'[thread[u].node] = heap[thread[u].node]
             /\ InList(thread[u].event, thread[u].node)
  <2>1. thread[u].event \in Events /\ InList(thread[u].event, thread[u].node)
    BY <1>6, WalkedListed DEF Safe
  <2>2. thread[u].node \in Invokers \ {n}
    BY <1>4, <2>1, ListedOnce
  <2> QED
    BY <1>1, <2>1, <2>2
<1>7. \A f, x : InList(f, x)' <=> InList(f, x)
  BY DEF InList
<1>8. ASSUME NEW x \in Invokers, PointedTo(x)
      PROVE  /\ heap'[x] = heap[x]
             /\ \A u \in Tasks : Holds(u, x)' => Holds(u, x)
             /\ \A f \in Events : InList(f, x)' => InList(f, x)
  BY <1>1, <1>2, <1>3, <1>5, <1>7, <1>8, QuietStep
<1>9. ASSUME NEW u \in Tasks, thread[u].pc \in Walking, thread[u].node # None, thread'[u] = thread[u]
      PROVE  /\ heap'[thread[u].node] = heap[thread[u].node]
             /\ InList(thread[u].event, thread[u].node)'
  BY <1>6, <1>9 DEF InList
<1> QED
  BY <1>3, <1>8, <1>9, QuietStep DEF Aside

LEMMA PushBackAside ==
  ASSUME Invariant, Safe, NEW t \in Tasks, PushBack(t)
  PROVE  Aside
PROOF
<1> DEFINE e == thread[t].event
<1> DEFINE n == thread[t].node
<1>1. thread[t].pc = "push_back" /\ e \in Events /\ n \in Invokers
  BY DEF Invariant, Locals, Knows, PushBack
<1>2. Quiet(t, Idle)
  BY LabelsHold DEF Quiet, Steady, Walking, PushBack
<1>3. /\ Range(m_invokeres'[e]) = Range(m_invokeres[e]) \cup {n}
      /\ \A f \in Events \ {e} : m_invokeres'[f] = m_invokeres[f]
  <2>1. m_invokeres[e] \in Seq(Invokers) /\ m_invokeres'[e] = Append(m_invokeres[e], n)
    BY <1>1 DEF Invariant, TypeOK, PushBack
  <2>2. Range(Append(m_invokeres[e], n)) = Range(m_invokeres[e]) \cup {n}
    BY <1>1, <2>1, AppendRange
  <2> QED
    BY <1>1, <2>1, <2>2 DEF Invariant, TypeOK, PushBack
<1>4. Holds(t, n)
  BY <1>1 DEF Holds
<1>5. ASSUME NEW x \in Invokers, PointedTo(x)
      PROVE  /\ heap'[x] = heap[x]
             /\ \A u \in Tasks : Holds(u, x)' => Holds(u, x)
             /\ \A f \in Events : InList(f, x)' => InList(f, x)
  <2>1. x # n
    BY <1>4, <1>5, PointedOnce DEF Safe
  <2>2. \A f \in Events : InList(f, x)' => InList(f, x)
    BY <1>3, <2>1 DEF InList
  <2>3. \A u \in Tasks : Holds(u, x)' => Holds(u, x)
    BY <1>2, LabelsHold, QuietStep
  <2> QED
    BY <2>2, <2>3 DEF PushBack
<1>6. ASSUME NEW u \in Tasks, thread[u].pc \in Walking, thread[u].node # None, thread'[u] = thread[u]
      PROVE  /\ heap'[thread[u].node] = heap[thread[u].node]
             /\ InList(thread[u].event, thread[u].node)'
  <2>1. thread[u].event \in Events /\ InList(thread[u].event, thread[u].node)
    BY <1>6, WalkedListed DEF Safe
  <2> QED
    BY <1>3, <1>6, <2>1 DEF InList, PushBack
<1> QED
  BY <1>2, <1>5, <1>6, QuietStep DEF Aside, Quiet

LEMMA DeleteAside ==
  ASSUME Invariant, Safe, NEW t \in Tasks, Delete(t)
  PROVE  Aside
PROOF
<1> DEFINE n == thread[t].node
<1>1. thread[t].pc = "delete" /\ n \in Invokers /\ Holds(t, n)
  BY DEF Invariant, Locals, Knows, Delete, Holds
<1>2. Quiet(t, Idle)
  BY LabelsHold DEF Quiet, Steady, Walking, Delete
<1>3. \A x \in Invokers \ {n} : heap'[x] = heap[x]
  BY <1>1 DEF Invariant, TypeOK, Delete
<1>4. ASSUME NEW x \in Invokers, PointedTo(x)
      PROVE  /\ heap'[x] = heap[x]
             /\ \A u \in Tasks : Holds(u, x)' => Holds(u, x)
             /\ \A f \in Events : InList(f, x)' => InList(f, x)
  <2>1. x # n
    BY <1>1, <1>4, PointedOnce DEF Safe
  <2>2. \A u \in Tasks : Holds(u, x)' => Holds(u, x)
    BY <1>2, LabelsHold, QuietStep
  <2> QED
    BY <1>3, <2>1, <2>2 DEF Delete, InList
<1>5. ASSUME NEW u \in Tasks, thread[u].pc \in Walking, thread[u].node # None, thread'[u] = thread[u]
      PROVE  /\ heap'[thread[u].node] = heap[thread[u].node]
             /\ InList(thread[u].event, thread[u].node)'
  <2>1. thread[u].event \in Events /\ InList(thread[u].event, thread[u].node)
    BY <1>5, WalkedListed DEF Safe
  <2>2. thread[u].node \in Invokers \ {n}
    BY <1>1, <2>1, ListedOnce
  <2> QED
    BY <1>3, <1>5, <2>1, <2>2 DEF InList, Delete
<1> QED
  BY <1>2, <1>4, <1>5, QuietStep DEF Aside, Quiet

\* A quiet step that leaves memory and lists alone and takes nothing in hand.
LEMMA LooseAside ==
  ASSUME Invariant, Safe, NEW t \in Tasks, NEW op, Quiet(t, op),
         op.pc \notin Holding, UNCHANGED <<heap, m_invokeres>>
  PROVE  Aside
PROOF
<1>1. \A e, x : InList(e, x)' <=> InList(e, x)
  BY DEF InList
<1>2. ASSUME NEW u \in Tasks, thread[u].pc \in Walking, thread[u].node # None, thread'[u] = thread[u]
      PROVE  InList(thread[u].event, thread[u].node)'
  <2>1. InList(thread[u].event, thread[u].node)
    BY <1>2, WalkedListed DEF Safe
  <2> QED
    BY <1>2, <2>1 DEF InList
<1>3. \A n : \A u \in Tasks : Holds(u, n)' => Holds(u, n)
  BY QuietStep
<1> QED
  BY <1>1, <1>2, <1>3, QuietStep DEF Aside, Quiet

\* A careful task takes an invoker in hand, to delete it.
LEMMA TakeAside ==
  ASSUME Invariant, Safe, NEW t \in Tasks, NEW p, NEW n \in Invokers, ~PointedTo(n),
         Quiet(t, At("delete", p, n)), heap' = heap,
         \A e \in Events : Range(m_invokeres'[e]) \subseteq Range(m_invokeres[e]),
         \A e \in Events : e # p => m_invokeres'[e] = m_invokeres[e],
         \A u \in AtWork(p) : thread[u].pc \notin Walking
  PROVE  Aside
PROOF
<1> DEFINE op == At("delete", p, n)
<1>1. op.pc = "delete" /\ op.node = n
  BY DEF At
<1> HIDE DEF op
<1>2. Quiet(t, op)
  BY DEF op
<1>3. ASSUME NEW x \in Invokers, PointedTo(x)
      PROVE  /\ \A u \in Tasks : Holds(u, x)' => Holds(u, x)
             /\ \A e \in Events : InList(e, x)' => InList(e, x)
  <2>1. x # n
    BY <1>3
  <2>2. \A u \in Tasks : Holds(u, x)' => Holds(u, x)
    BY <1>1, <1>2, <2>1, QuietStep
  <2> QED
    BY <2>2 DEF InList
<1>4. ASSUME NEW u \in Tasks, thread[u].pc \in Walking, thread[u].node # None, thread'[u] = thread[u]
      PROVE  InList(thread[u].event, thread[u].node)'
  <2>1. thread[u].event \in Events /\ InList(thread[u].event, thread[u].node)
    BY <1>4, WalkedListed DEF Safe
  <2>2. thread[u].event # p
    BY <1>4 DEF AtWork
  <2> QED
    BY <1>4, <2>1, <2>2 DEF InList
<1> QED
  BY <1>2, <1>3, <1>4, QuietStep DEF Aside, Quiet

LEMMA UnregisterAside ==
  ASSUME Careful, Invariant, Safe, NEW t \in Tasks, NEW e \in Events, NEW s, Unregister(t, e, s)
  PROVE  Aside
PROOF
<1>1. PICK n : ~PointedTo(n) /\ Begin(t, At("remove", e, n))
  BY DEF Unregister, MayDelete
<1>2. Quiet(t, At("remove", e, n)) /\ At("remove", e, n).pc \notin Holding
  BY <1>1, BeginIsGoto, LabelsHold DEF Quiet, Steady, Walking, Unregister
<1> QED
  BY <1>2, LooseAside DEF Unregister

LEMMA RemoveAside ==
  ASSUME Invariant, Safe, NEW t \in Tasks, RemoveInvoker(t)
  PROVE  Aside
PROOF
<1> DEFINE e == thread[t].event
<1> DEFINE n == thread[t].node
<1>1. /\ thread[t].pc = "remove" /\ e \in Events /\ n \in Invokers
      /\ InList(e, n) /\ AtWork(e) = {t} /\ ~PointedTo(n)
  BY DEF Invariant, Locals, Knows, Removals, Safe, Unpointed, RemoveInvoker
<1>2. PICK k \in DOMAIN m_invokeres[e] :
        m_invokeres' = [m_invokeres EXCEPT ![e] = RemoveAt(m_invokeres[e], k)]
  BY <1>1 DEF RemoveInvoker
<1>3. m_invokeres[e] \in Seq(Invokers) /\ Distinct(m_invokeres[e])
  BY <1>1 DEF Invariant, TypeOK, Ownership
<1>4. /\ \A f \in Events : Range(m_invokeres'[f]) \subseteq Range(m_invokeres[f])
      /\ \A f \in Events : f # e => m_invokeres'[f] = m_invokeres[f]
  <2>1. Range(RemoveAt(m_invokeres[e], k)) \subseteq Range(m_invokeres[e])
    BY <1>3, RemoveRange
  <2> QED
    BY <1>2, <2>1 DEF Invariant, TypeOK
<1>5. Quiet(t, At("delete", e, n))
  BY LabelsHold DEF Quiet, Steady, Walking, RemoveInvoker
<1>6. \A u \in AtWork(e) : thread[u].pc \notin Walking
  BY <1>1 DEF Walking
<1> QED
  BY <1>1, <1>4, <1>5, <1>6, TakeAside DEF RemoveInvoker

LEMMA DestroyAside ==
  ASSUME Careful, Invariant, Safe, NEW t \in Tasks, NEW k \in Timers, Destroy(t, k)
  PROVE  Aside
PROOF
<1> DEFINE n == timer[k].invoker
<1>1. n \in Invokers /\ AtWork(k) = {} /\ ~PointedTo(n)
  BY DEF Destroy, MayDelete, Invariant, Locals
<1>2. Quiet(t, At("delete", k, n))
  BY BeginIsGoto, LabelsHold DEF Quiet, Steady, Walking, Destroy
<1> QED
  BY <1>1, <1>2, TakeAside DEF Destroy

LEMMA PullAside ==
  ASSUME Invariant, Safe, NEW t \in Tasks, Pull(t)
  PROVE  Aside
PROOF
<1> DEFINE msg == queue[t][1]
<1> DEFINE op == [At("dispatch", None, msg.invoker) EXCEPT !.past = msg.past]
<1>1. /\ op.pc = "dispatch" /\ op.node = msg.invoker /\ op.past = msg.past
  BY DEF At
<1>2. thread[t].pc = "idle" /\ thread' = [thread EXCEPT ![t] = op] /\ queue[t] # << >>
  BY DEF Pull, Begin
<1> HIDE DEF op
<1>3. thread'[t] = op /\ \A u \in Tasks \ {t} : thread'[u] = thread[u]
  BY <1>2 DEF Invariant, TypeOK
<1>4. queue'[t] = Tail(queue[t]) /\ \A u \in Tasks \ {t} : queue'[u] = queue[u]
  BY DEF Pull, Invariant, TypeOK
<1>5. queue[t] \in Seq(Message)
  BY DEF Invariant, TypeOK
<1>6. Range(Tail(queue[t])) \subseteq Range(queue[t]) /\ msg \in Range(queue[t]) /\ msg \in Message
  BY <1>2, <1>5, TailRange
<1>7. EventMessage(op.node, op.past) = msg
  BY <1>1, <1>6 DEF EventMessage, Message
<1>8. Pending(t)' \subseteq Pending(t)
  BY <1>3, <1>4, <1>6, <1>7 DEF Pending
<1>9. \A u \in Tasks : \A m \in Pending(u)' : m \in Pending(u) \/ m.invoker = None
  BY <1>3, <1>4, <1>8, QuietPending
<1>10. \A n, u : u \in Tasks => (Holds(u, n)' => Holds(u, n))
  BY <1>1, <1>3 DEF Holds
<1>11. \A u \in Tasks : thread'[u] = thread[u] \/ Steady(thread'[u])
  BY <1>1, <1>3 DEF Steady, Walking
<1>12. \A e, x : InList(e, x)' <=> InList(e, x)
  BY DEF InList, Pull
<1>13. ASSUME NEW u \in Tasks, thread[u].pc \in Walking, thread[u].node # None, thread'[u] = thread[u]
       PROVE  InList(thread[u].event, thread[u].node)'
  <2>1. InList(thread[u].event, thread[u].node)
    BY <1>13, WalkedListed DEF Safe
  <2> QED
    BY <1>13, <2>1 DEF InList, Pull
<1> QED
  BY <1>9, <1>10, <1>11, <1>12, <1>13 DEF Aside, Pull

LEMMA NotifyAside ==
  ASSUME Invariant, Safe, NEW t \in Tasks, NotifyMessage(t)
  PROVE  Aside
PROOF
<1>1. ASSUME NEW u \in Tasks, NEW m \in Pending(u)'
      PROVE  m \in Pending(u) \/ m.invoker = None
  <2>1. NormalMessage \in Message /\ NormalMessage.invoker = None
    BY DEF NormalMessage, Message
  <2>2. queue[t] \in Seq(Message)
    BY DEF Invariant, TypeOK
  <2>3. Range(Append(queue[t], NormalMessage)) = Range(queue[t]) \cup {NormalMessage}
    BY <2>1, <2>2, AppendRange
  <2>4. Range(queue'[u]) \subseteq Range(queue[u]) \cup {NormalMessage}
    BY <2>3 DEF NotifyMessage, Push, Invariant, TypeOK
  <2> QED
    BY <1>1, <2>1, <2>4 DEF Pending, NotifyMessage
<1>2. \A n, u : Holds(u, n)' => Holds(u, n)
  BY DEF Holds, NotifyMessage
<1>3. \A e, x : InList(e, x)' <=> InList(e, x)
  BY DEF InList, NotifyMessage
<1>4. ASSUME NEW u \in Tasks, thread[u].pc \in Walking, thread[u].node # None
      PROVE  InList(thread[u].event, thread[u].node)'
  <2>1. InList(thread[u].event, thread[u].node)
    BY <1>4, WalkedListed DEF Safe
  <2> QED
    BY <2>1 DEF InList, NotifyMessage
<1> QED
  BY <1>1, <1>2, <1>3, <1>4 DEF Aside, NotifyMessage

LEMMA Sent ==
  ASSUME TypeOK, NEW n \in Invokers, NEW past \in SUBSET Params, SendMsg(n, past),
         NEW u \in Tasks, NEW m \in Range(queue'[u])
  PROVE  m \in Range(queue[u]) \/ (m = EventMessage(n, past) /\ heap[n].task = u)
PROOF
<1>1. CASE queue'[u] = queue[u]
  BY <1>1
<1>2. CASE queue'[u] # queue[u]
  <2>1. /\ heap[n].task \in Tasks
        /\ queue' = [queue EXCEPT ![heap[n].task] = Append(queue[heap[n].task], EventMessage(n, past))]
    BY <1>2 DEF SendMsg, Push
  <2>2. u = heap[n].task /\ queue'[u] = Append(queue[u], EventMessage(n, past))
    BY <1>2, <2>1 DEF TypeOK
  <2>3. queue[u] \in Seq(Message) /\ EventMessage(n, past) \in Message
    BY EventMessageType DEF TypeOK
  <2> QED
    BY <2>2, <2>3, AppendRange
<1> QED
  BY <1>1, <1>2

LEMMA InvokeSafe ==
  ASSUME Invariant, Safe, NEW t \in Tasks, NEW e \in Events, Invoke(t, e)
  PROVE  Safe'
PROOF
<1> DEFINE op == [pc |-> "set_param", event |-> e, node |-> First(e), param |-> invokes + 1,
                  past |-> ended[e] \cup {Uninitialised}]
<1>1. /\ op.pc = "set_param" /\ op.event = e /\ op.node = First(e) /\ op.param = invokes + 1
      /\ op.past = ended[e] \cup {0}
  BY DEF Uninitialised
<1>2. thread[t].pc = "idle" /\ thread' = [thread EXCEPT ![t] = op]
  BY DEF Invoke, Begin
<1> HIDE DEF op
<1>3. thread'[t] = op /\ \A u \in Tasks \ {t} : thread'[u] = thread[u]
  BY <1>2 DEF Invariant, TypeOK
<1>4. invokes \in Nat /\ invokes' = invokes + 1 /\ UNCHANGED <<heap, m_invokeres, queue, ended>>
  BY ParamsAreNumbers DEF Invariant, TypeOK, Invoke
<1>5. \A u \in Tasks : Pending(u)' \subseteq Pending(u)
  BY <1>1, <1>3, <1>4, QuietPending
<1>6. \A u \in Tasks : \A n : Holds(u, n)' => Holds(u, n)
  BY <1>1, <1>3 DEF Holds
<1>7. \A f, n : InList(f, n)' <=> InList(f, n)
  BY <1>4 DEF InList
<1>8. NoDangling'
  <2>1. \A u \in Tasks : \A msg \in Pending(u)' :
          msg.invoker # None => /\ heap'[msg.invoker].task = u
                                /\ \A v \in Tasks : ~Holds(v, msg.invoker)'
    BY <1>4, <1>5, <1>6 DEF Safe, NoDangling
  <2>2. ASSUME NEW u \in Tasks, thread'[u].pc \in {"set_param", "send"}, thread'[u].node # None
        PROVE  thread'[u].node \in Range(m_invokeres'[thread'[u].event])
    <3>1. CASE u = t
      BY <1>1, <1>3, <1>4, <2>2, <3>1, FirstAndFollowing DEF Invariant
    <3>2. CASE u # t
      BY <1>3, <1>4, <2>2, <3>2 DEF Safe, NoDangling, InList
    <3> QED
      BY <3>1, <3>2
  <2> QED
    BY <2>1, <2>2 DEF NoDangling, InList
<1>9. Calls'
  <2>1. \A f \in Events : ended[f] \subseteq 1 .. invokes /\ invokes + 1 \notin ended[f]
    BY <1>4 DEF Safe, Calls
  <2>2. \A u \in Tasks \ {t} : thread[u].pc \in Walking => thread[u].param # invokes + 1
    BY <1>4 DEF Safe, Calls
  <2>3. \A x \in 1 .. invokes : x \in 1 .. invokes + 1
    BY <1>4
  <2>4. invokes + 1 \in 1 .. invokes + 1
    BY <1>4
  <2> QED
    BY <1>1, <1>3, <1>4, <2>1, <2>2, <2>3, <2>4 DEF Safe, Calls
<1>10. Fresh'
  BY <1>1, <1>3, <1>4, <1>5, <1>7 DEF Safe, Fresh, NoStaleParameter
<1>11. Unpointed'
  <2>1. \A u \in Tasks : thread'[u].pc = "remove" => thread'[u] = thread[u]
    BY <1>1, <1>3
  <2> QED
    BY <1>5, <2>1 DEF Safe, Unpointed, PointedTo
<1> QED
  BY <1>8, <1>9, <1>10, <1>11 DEF Safe

LEMMA InvokeEndSafe ==
  ASSUME Invariant, Safe, NEW t \in Tasks, InvokeEnd(t)
  PROVE  Safe'
PROOF
<1> DEFINE e == thread[t].event
<1> DEFINE p == thread[t].param
<1>1. thread[t].pc \in Walking /\ e \in Events
  BY DEF InvokeEnd, Walking, Invariant, Locals, Knows
<1>2. thread'[t].pc = "idle" /\ \A u \in Tasks \ {t} : thread'[u] = thread[u]
  BY LabelsHold DEF Invariant, TypeOK, InvokeEnd, Goto
<1>3. /\ ended'[e] = ended[e] \cup {p} /\ \A f \in Events \ {e} : ended'[f] = ended[f]
      /\ UNCHANGED <<heap, m_invokeres, queue, invokes>>
  BY <1>1 DEF Invariant, TypeOK, InvokeEnd
<1>4. \A u \in Tasks : Pending(u)' \subseteq Pending(u)
  BY <1>2, <1>3, QuietPending
<1>5. \A u \in Tasks : \A n : Holds(u, n)' => Holds(u, n)
  BY <1>2 DEF Holds
<1>6. \A f, n : InList(f, n)' <=> InList(f, n)
  BY <1>3 DEF InList
<1>7. NoDangling'
  <2>1. \A u \in Tasks : \A msg \in Pending(u)' :
          msg.invoker # None => /\ heap'[msg.invoker].task = u
                                /\ \A v \in Tasks : ~Holds(v, msg.invoker)'
    BY <1>3, <1>4, <1>5 DEF Safe, NoDangling
  <2>2. ASSUME NEW u \in Tasks, thread'[u].pc \in {"set_param", "send"}, thread'[u].node # None
        PROVE  thread'[u].node \in Range(m_invokeres'[thread'[u].event])
    BY <1>2, <1>3, <2>2 DEF Safe, NoDangling, InList
  <2> QED
    BY <2>1, <2>2 DEF NoDangling, InList
<1>8. Calls'
  <2>1. p \in 1 .. invokes
    BY <1>1 DEF Safe, Calls
  <2>2. \A f \in Events : ended'[f] \subseteq 1 .. invokes /\ ended[f] \subseteq ended'[f]
    BY <1>3, <2>1 DEF Safe, Calls
  <2>3. \A u \in Tasks \ {t} : thread[u].pc \in Walking => thread[u].param # p
    BY <1>1 DEF Safe, Calls
  <2>4. \A u \in Tasks \ {t} : thread[u].pc \in Walking => thread[u].event \in Events
    BY DEF Invariant, Locals, Knows, Walking
  <2>5. "idle" \notin Walking
    BY DEF Walking
  <2>6. \A u \in Tasks \ {t} : thread[u].pc \in Walking =>
          thread[u].param \notin ended'[thread[u].event]
    BY <1>3, <2>3, <2>4 DEF Safe, Calls
  <2>7. \A u \in Tasks \ {t} : thread[u].pc \in Walking =>
          thread[u].past \subseteq ended'[thread[u].event] \cup {0}
    BY <2>2, <2>4 DEF Safe, Calls
  <2> QED
    BY <1>2, <1>3, <2>2, <2>5, <2>6, <2>7 DEF Safe, Calls
<1>9. Fresh'
  <2>1. \A f \in Events : ended[f] \subseteq ended'[f]
    BY <1>3
  <2> QED
    BY <1>2, <1>3, <1>4, <1>6, <2>1 DEF Safe, Fresh, NoStaleParameter
<1>10. Unpointed'
  <2>1. \A u \in Tasks : thread'[u].pc = "remove" => thread'[u] = thread[u]
    BY <1>2
  <2> QED
    BY <1>4, <2>1 DEF Safe, Unpointed, PointedTo
<1> QED
  BY <1>7, <1>8, <1>9, <1>10 DEF Safe

LEMMA SetParamSafe ==
  ASSUME Invariant, Safe, NEW t \in Tasks, SetParam(t)
  PROVE  Safe'
PROOF
<1> DEFINE n == thread[t].node
<1> DEFINE e == thread[t].event
<1> DEFINE p == thread[t].param
<1>1. thread[t].pc = "set_param" /\ thread[t].pc \in Walking /\ n # None
  BY DEF SetParam, Walking
<1>2. e \in Events /\ InList(e, n)
  BY <1>1, WalkedListed DEF Safe
<1>3. n \in Invokers /\ heap[n].task \in Tasks
  BY <1>2, ListedOnce
<1>4. heap[n] # Free
  BY <1>3, MessagesAssumption DEF MessagesAssumption, Free
<1>5. heap' = [heap EXCEPT ![n] = [heap[n] EXCEPT !.param = p]]
  BY <1>4 DEF SetParam
<1>6. /\ heap'[n].param = p
      /\ \A x \in Invokers : heap'[x].task = heap[x].task
      /\ \A x \in Invokers \ {n} : heap'[x] = heap[x]
  BY <1>3, <1>5 DEF Invariant, TypeOK
<1>7. thread' = [thread EXCEPT ![t] = [thread[t] EXCEPT !.pc = "send"]]
  BY DEF SetParam, Goto
<1>8. /\ thread'[t].pc = "send" /\ thread'[t].event = e /\ thread'[t].node = n
      /\ thread'[t].param = p /\ thread'[t].past = thread[t].past
      /\ \A u \in Tasks \ {t} : thread'[u] = thread[u]
  BY <1>7 DEF Invariant, TypeOK, Operation
<1>9. UNCHANGED <<m_invokeres, queue, invokes, ended>>
  BY DEF SetParam
<1>10. \A u \in Tasks : Pending(u)' \subseteq Pending(u)
  BY <1>8, <1>9, QuietPending
<1>11. \A u \in Tasks : \A x : Holds(u, x)' => Holds(u, x)
  BY <1>8 DEF Holds
<1>12. \A f, x : InList(f, x)' <=> InList(f, x)
  BY <1>9 DEF InList
<1>13. \A u \in Tasks : \A msg \in Pending(u)' : msg.invoker # None => msg.invoker \in Invokers
  BY <1>10, PendingType DEF Invariant, Message
<1>14. NoDangling'
  <2>1. \A u \in Tasks : \A msg \in Pending(u)' :
          msg.invoker # None => /\ heap'[msg.invoker].task = u
                                /\ \A v \in Tasks : ~Holds(v, msg.invoker)'
    BY <1>6, <1>10, <1>11, <1>13 DEF Safe, NoDangling
  <2>2. ASSUME NEW u \in Tasks, thread'[u].pc \in {"set_param", "send"}, thread'[u].node # None
        PROVE  thread'[u].node \in Range(m_invokeres'[thread'[u].event])
    <3>1. CASE u = t
      BY <1>2, <1>8, <1>9, <3>1 DEF InList
    <3>2. CASE u # t
      BY <1>8, <1>9, <2>2, <3>2 DEF Safe, NoDangling, InList
    <3> QED
      BY <3>1, <3>2
  <2> QED
    BY <2>1, <2>2 DEF NoDangling, InList
<1>15. \A u \in Tasks : /\ thread'[u].pc \in Walking => thread[u].pc \in Walking
                       /\ thread'[u].event = thread[u].event
                       /\ thread'[u].param = thread[u].param
                       /\ thread'[u].past = thread[u].past
  BY <1>1, <1>8
<1>16. Calls'
  BY <1>9, <1>15 DEF Safe, Calls
<1>17. p # 0 /\ p \notin ended[e]
  <2>1. p \in 1 .. invokes /\ invokes \in Nat
    BY <1>1, ParamsAreNumbers DEF Safe, Calls, Invariant, TypeOK
  <2> QED
    BY <1>1, <2>1 DEF Safe, Calls
<1>18. ASSUME NEW u \in Tasks, thread'[u].pc = "send"
       PROVE  heap'[thread'[u].node].param \notin thread'[u].past
  <2>1. thread[u].pc \in Walking /\ thread'[u].node = thread[u].node /\ thread[u].node # None
    BY <1>1, <1>8, <1>18, MessagesAssumption DEF MessagesAssumption, Walking, Invariant, Locals, Knows
  <2>2. thread[u].event \in Events /\ InList(thread[u].event, thread[u].node)
    BY <2>1, WalkedListed DEF Safe
  <2>3. CASE thread[u].node = n
    <3>1. thread[u].event = e
      BY <1>2, <2>2, <2>3, ListedOnce
    <3>2. thread[u].past \subseteq ended[e] \cup {0}
      BY <2>1, <3>1 DEF Safe, Calls
    <3> QED
      BY <1>6, <1>15, <1>17, <2>1, <2>3, <3>2
  <2>4. CASE thread[u].node # n
    <3>1. heap'[thread[u].node] = heap[thread[u].node]
      BY <1>6, <2>2, <2>4, ListedOnce
    <3>2. thread[u].pc = "send"
      BY <1>8, <1>18, <2>4
    <3> QED
      BY <1>15, <2>1, <3>1, <3>2 DEF Safe, Fresh
  <2> QED
    BY <2>3, <2>4
<1>19. ASSUME NEW u \in Tasks, NEW msg \in Pending(u)', msg.invoker # None
       PROVE  heap'[msg.invoker].param \notin msg.past
  <2>1. msg \in Pending(u) /\ msg.invoker \in Invokers
    BY <1>10, <1>13, <1>19
  <2>2. CASE msg.invoker = n
    <3>1. msg.past \subseteq ended[e] \cup {0}
      BY <1>2, <2>1, <2>2 DEF Safe, Fresh
    <3> QED
      BY <1>6, <1>17, <2>2, <3>1
  <2>3. CASE msg.invoker # n
    BY <1>6, <1>19, <2>1, <2>3 DEF Safe, Fresh, NoStaleParameter
  <2> QED
    BY <2>2, <2>3
<1>20. \A u \in Tasks : \A msg \in Pending(u)' : \A f \in Events :
         InList(f, msg.invoker)' => msg.past \subseteq ended'[f] \cup {0}
  BY <1>9, <1>10, <1>12 DEF Safe, Fresh
<1>21. Fresh'
  BY <1>18, <1>19, <1>20 DEF Fresh, NoStaleParameter
<1>22. Unpointed'
  <2>1. \A u \in Tasks : thread'[u].pc = "remove" => thread'[u] = thread[u]
    BY <1>8
  <2> QED
    BY <1>10, <2>1 DEF Safe, Unpointed, PointedTo
<1> QED
  BY <1>14, <1>16, <1>21, <1>22 DEF Safe

LEMMA SendSafe ==
  ASSUME Invariant, Safe, NEW t \in Tasks, Send(t)
  PROVE  Safe'
PROOF
<1> DEFINE n == thread[t].node
<1> DEFINE e == thread[t].event
<1> DEFINE past == thread[t].past
<1>1. /\ thread[t].pc = "send" /\ thread[t].pc \in Walking
      /\ n # None /\ past \in SUBSET Params
  BY MessagesAssumption
     DEF MessagesAssumption, Send, Walking, Invariant, Locals, Knows, TypeOK, Operation
<1>2. e \in Events /\ InList(e, n)
  BY <1>1, WalkedListed DEF Safe
<1>3. /\ n \in Invokers /\ heap[n].task \in Tasks
      /\ \A f \in Events : InList(f, n) => f = e
      /\ \A u \in Tasks : ~Holds(u, n)
  BY <1>2, ListedOnce
<1>4. PICK next \in Following(e, n) :
        thread' = [thread EXCEPT ![t] = [thread[t] EXCEPT !.pc = "set_param", !.node = next]]
  BY DEF Send, Goto
<1>5. next \in Range(m_invokeres[e]) \cup {None}
  BY <1>2, <1>4, FirstAndFollowing DEF Invariant
<1>6. /\ thread'[t].pc = "set_param" /\ thread'[t].event = e /\ thread'[t].node = next
      /\ thread'[t].param = thread[t].param /\ thread'[t].past = past
      /\ \A u \in Tasks \ {t} : thread'[u] = thread[u]
  BY <1>4 DEF Invariant, TypeOK, Operation
<1>7. UNCHANGED <<heap, m_invokeres, invokes, ended>> /\ SendMsg(n, past)
  BY DEF Send
<1>8. ASSUME NEW u \in Tasks, NEW msg \in Pending(u)'
      PROVE  msg \in Pending(u) \/ (msg = EventMessage(n, past) /\ heap[n].task = u)
  <2>1. CASE msg \in Range(queue'[u])
    BY <1>1, <1>3, <1>7, <2>1, Sent DEF Pending, Invariant
  <2>2. CASE msg \notin Range(queue'[u])
    BY <1>6, <1>8, <2>2 DEF Pending
  <2> QED
    BY <2>1, <2>2
<1>9. EventMessage(n, past).invoker = n /\ EventMessage(n, past).past = past
  BY DEF EventMessage
<1>10. \A u \in Tasks : \A x : Holds(u, x)' => Holds(u, x)
  BY <1>6 DEF Holds
<1>11. \A f, x : InList(f, x)' <=> InList(f, x)
  BY <1>7 DEF InList
<1>12. NoDangling'
  <2>1. \A u \in Tasks : \A msg \in Pending(u)' :
          msg.invoker # None => /\ heap'[msg.invoker].task = u
                                /\ \A v \in Tasks : ~Holds(v, msg.invoker)'
    BY <1>3, <1>7, <1>8, <1>9, <1>10 DEF Safe, NoDangling
  <2>2. ASSUME NEW u \in Tasks, thread'[u].pc \in {"set_param", "send"}, thread'[u].node # None
        PROVE  thread'[u].node \in Range(m_invokeres'[thread'[u].event])
    <3>1. CASE u = t
      BY <1>5, <1>6, <1>7, <2>2, <3>1
    <3>2. CASE u # t
      BY <1>6, <1>7, <2>2, <3>2 DEF Safe, NoDangling, InList
    <3> QED
      BY <3>1, <3>2
  <2> QED
    BY <2>1, <2>2 DEF NoDangling, InList
<1>13. \A u \in Tasks : /\ thread'[u].pc \in Walking => thread[u].pc \in Walking
                       /\ thread'[u].event = thread[u].event
                       /\ thread'[u].param = thread[u].param
                       /\ thread'[u].past = thread[u].past
  BY <1>1, <1>6
<1>14. Calls'
  BY <1>7, <1>13 DEF Safe, Calls
<1>15. heap[n].param \notin past /\ past \subseteq ended[e] \cup {0}
  BY <1>1 DEF Safe, Fresh, Calls
<1>16. \A u \in Tasks : thread'[u].pc = "send" => thread'[u] = thread[u]
  BY <1>6
<1>17. \A u \in Tasks : thread'[u].pc = "send" => heap'[thread'[u].node].param \notin thread'[u].past
  BY <1>7, <1>16 DEF Safe, Fresh
<1>18. \A u \in Tasks : \A msg \in Pending(u)' : \A f \in Events :
         InList(f, msg.invoker)' => msg.past \subseteq ended'[f] \cup {0}
  BY <1>3, <1>7, <1>8, <1>9, <1>11, <1>15 DEF Safe, Fresh
<1>19. NoStaleParameter'
  BY <1>7, <1>8, <1>9, <1>15 DEF Safe, Fresh, NoStaleParameter
<1>20. \A v \in Tasks : thread[v].pc = "remove" => thread[v].node # n
  <2> SUFFICES ASSUME NEW v \in Tasks, thread[v].pc = "remove", thread[v].node = n
               PROVE  FALSE
    OBVIOUS
  <2>1. /\ thread[v].event \in Events /\ InList(thread[v].event, n)
        /\ AtWork(thread[v].event) = {v}
    BY DEF Invariant, Locals, Knows, Removals
  <2>2. thread[v].event = e
    BY <1>3, <2>1
  <2> QED
    BY <1>1, <2>1, <2>2 DEF AtWork
<1>21. Unpointed'
  <2>1. \A u \in Tasks : thread'[u].pc = "remove" => thread'[u] = thread[u]
    BY <1>6
  <2>2. \A u \in Tasks : \A msg \in Pending(u)' : msg \in Pending(u) \/ msg.invoker = n
    BY <1>8, <1>9
  <2> QED
    BY <1>20, <2>1, <2>2 DEF Safe, Unpointed, PointedTo
<1> QED
  BY <1>12, <1>14, <1>17, <1>18, <1>19, <1>21 DEF Safe, Fresh

LEMMA TimerExpiredSafe ==
  ASSUME Invariant, Safe, NEW k \in Timers, TimerExpired(k)
  PROVE  Safe'
PROOF
<1> DEFINE n == timer[k].invoker
<1>1. timer[k] # NoTimer /\ SendMsg(n, {}) /\ UNCHANGED <<heap, m_invokeres, thread, invokes, ended>>
  BY DEF TimerExpired, NoTimer
<1>2. /\ n \in Invokers
      /\ \A f \in Events : ~InList(f, n)
      /\ \A u \in Tasks : ~Holds(u, n)
  BY <1>1, TimedOnce
<1>3. ASSUME NEW u \in Tasks, NEW msg \in Pending(u)'
      PROVE  msg \in Pending(u) \/ (msg = EventMessage(n, {}) /\ heap[n].task = u)
  <2>1. CASE msg \in Range(queue'[u])
    <3>1. {} \in SUBSET Params
      OBVIOUS
    <3> QED
      BY <1>1, <1>2, <2>1, <3>1, Sent DEF Pending, Invariant
  <2>2. CASE msg \notin Range(queue'[u])
    BY <1>1, <1>3, <2>2 DEF Pending
  <2> QED
    BY <2>1, <2>2
<1>4. EventMessage(n, {}).invoker = n /\ EventMessage(n, {}).past = {}
  BY DEF EventMessage
<1>5. \A u, x : Holds(u, x)' <=> Holds(u, x)
  BY <1>1 DEF Holds
<1>6. \A f, x : InList(f, x)' <=> InList(f, x)
  BY <1>1 DEF InList
<1>7. NoDangling'
  <2>1. \A u \in Tasks : \A msg \in Pending(u)' :
          msg.invoker # None => /\ heap'[msg.invoker].task = u
                                /\ \A v \in Tasks : ~Holds(v, msg.invoker)'
    BY <1>1, <1>2, <1>3, <1>4, <1>5 DEF Safe, NoDangling
  <2>2. \A u \in Tasks : thread'[u].pc \in {"set_param", "send"} /\ thread'[u].node # None =>
          thread'[u].node \in Range(m_invokeres'[thread'[u].event])
    BY <1>1 DEF Safe, NoDangling, InList
  <2> QED
    BY <2>1, <2>2 DEF NoDangling, InList
<1>8. Calls'
  BY <1>1 DEF Safe, Calls
<1>9. \A u \in Tasks : \A msg \in Pending(u)' : \A f \in Events :
        InList(f, msg.invoker)' => msg.past \subseteq ended'[f] \cup {0}
  BY <1>1, <1>3, <1>4, <1>6 DEF Safe, Fresh
<1>10. NoStaleParameter'
  BY <1>1, <1>3, <1>4 DEF Safe, Fresh, NoStaleParameter
<1>11. \A u \in Tasks : thread'[u].pc = "send" => heap'[thread'[u].node].param \notin thread'[u].past
  BY <1>1 DEF Safe, Fresh
<1>12. \A v \in Tasks : thread[v].pc = "remove" => thread[v].node # n
  BY <1>2 DEF Invariant, Locals, Knows, Removals
<1>13. Unpointed'
  <2>1. \A u \in Tasks : \A msg \in Pending(u)' : msg \in Pending(u) \/ msg.invoker = n
    BY <1>3, <1>4
  <2> QED
    BY <1>1, <1>12, <2>1 DEF Safe, Unpointed, PointedTo
<1> QED
  BY <1>7, <1>8, <1>9, <1>10, <1>11, <1>13 DEF Safe, Fresh

LEMMA StepSafe ==
  ASSUME Careful, Invariant, Safe, [Next]_vars
  PROVE  Safe'
PROOF
<1>0. Invariant'
  BY StepInvariant
<1>1. CASE UNCHANGED vars
  BY <1>1 DEF vars, Safe, NoDangling, Calls, Fresh, NoStaleParameter, Unpointed, PointedTo,
              Pending, Holds, InList
<1>2. ASSUME NEW t \in Tasks, TaskStep(t)
      PROVE  Safe'
  <2>1. CASE NewFails(t)
    <3>1. Quiet(t, At("stuck", None, None)) /\ At("stuck", None, None).pc \notin Holding
      BY <2>1, BeginIsGoto, LabelsHold DEF Quiet, Steady, Walking, Holding, NewFails
    <3> QED
      BY <1>0, <2>1, <3>1, LooseAside, AsideSafe DEF NewFails
  <2>2. CASE PushBack(t)
    BY <1>0, <2>2, PushBackAside, AsideSafe
  <2>3. CASE Delete(t)
    BY <1>0, <2>3, DeleteAside, AsideSafe
  <2>4. CASE SetParam(t)
    BY <2>4, SetParamSafe
  <2>5. CASE Send(t)
    BY <2>5, SendSafe
  <2>6. CASE InvokeEnd(t)
    BY <2>6, InvokeEndSafe
  <2>7. CASE TimerCreate(t)
    <3>1. Quiet(t, Idle)
      BY <2>7, LabelsHold DEF Quiet, Steady, Walking, TimerCreate
    <3> QED
      BY <1>0, <2>7, <3>1, LabelsHold, LooseAside, AsideSafe DEF TimerCreate
  <2>8. CASE NotifyMessage(t)
    BY <1>0, <2>8, NotifyAside, AsideSafe
  <2>9. CASE Pull(t)
    BY <1>0, <2>9, PullAside, AsideSafe
  <2>10. CASE Dispatch(t)
    <3>1. Quiet(t, Idle)
      BY <2>10, LabelsHold DEF Quiet, Steady, Walking, Dispatch
    <3> QED
      BY <1>0, <2>10, <3>1, LabelsHold, LooseAside, AsideSafe DEF Dispatch
  <2>11. ASSUME NEW e \in Events, Invoke(t, e)
         PROVE  Safe'
    BY <2>11, InvokeSafe
  <2>12. ASSUME NEW e \in Events, NEW s \in Tasks, Register(t, e, s)
         PROVE  Safe'
    BY <1>0, <2>12, NewAside, AsideSafe DEF Register
  <2>13. ASSUME NEW e \in Events, NEW s \in Tasks, Unregister(t, e, s)
         PROVE  Safe'
    BY <1>0, <2>13, UnregisterAside, AsideSafe
  <2>14. ASSUME NEW k \in Timers, Destroy(t, k)
         PROVE  Safe'
    BY <1>0, <2>14, DestroyAside, AsideSafe
  <2>15. ASSUME NEW k \in Timers, NEW s \in Tasks, NewTimeEvent(t, k, s)
         PROVE  Safe'
    BY <1>0, <2>15, NewAside, AsideSafe DEF NewTimeEvent
  <2>16. CASE RemoveInvoker(t)
    BY <1>0, <2>16, RemoveAside, AsideSafe
  <2> QED
    BY <1>2, <2>1, <2>2, <2>3, <2>4, <2>5, <2>6, <2>7, <2>8, <2>9, <2>10, <2>11, <2>12, <2>13,
       <2>14, <2>15, <2>16 DEF TaskStep
<1>3. ASSUME NEW k \in Timers, TimerExpired(k)
      PROVE  Safe'
  BY <1>3, TimerExpiredSafe
<1> QED
  BY <1>1, <1>2, <1>3 DEF Next, TaskStep

LEMMA CarefulIsSafe == ASSUME Careful PROVE Spec => [](Invariant /\ Safe)
PROOF
<1>1. Invariant /\ Safe /\ [Next]_vars => (Invariant /\ Safe)'
  BY StepInvariant, StepSafe
<1> QED
  BY InitInvariant, InitSafe, <1>1, PTL DEF Spec

(* An application that deletes invokers with care never leaves a message in a *)
(* queue, or a walk over a list, that points to freed memory: Invoke, timers  *)
(* and Register need no lock for that.                                        *)
THEOREM NothingDangles == ASSUME Careful PROVE Spec => []NoDangling
PROOF
<1>1. Safe => NoDangling
  BY DEF Safe
<1> QED
  BY <1>1, CarefulIsSafe, PTL

(* For the same applications: although the calls of Invoke overwrite one      *)
(* another's parameter, a callback never runs with the parameter of a call    *)
(* that had ended before the call that caused it began.                       *)
THEOREM ParametersAreFresh == ASSUME Careful PROVE Spec => []NoStaleParameter
PROOF
<1>1. Safe => NoStaleParameter
  BY DEF Safe, Fresh
<1> QED
  BY <1>1, CarefulIsSafe, PTL

(* With such an application Unregister ends a subscription: no message in any *)
(* queue points to an invoker that has been deleted.  (The run                *)
(* messages_unregister shows what happens with any other application.)        *)
THEOREM CarefulUnregister == ASSUME Careful PROVE Spec => []UnregisteredIsSilent
PROOF
<1>1. NoDangling => UnregisteredIsSilent
  <2> SUFFICES ASSUME NoDangling, NEW n \in Invokers, heap[n] = Free, PointedTo(n)
               PROVE  FALSE
    BY DEF UnregisteredIsSilent
  <2>1. PICK t \in Tasks : \E msg \in Pending(t) : msg.invoker = n
    BY DEF PointedTo
  <2>2. n # None
    BY MessagesAssumption
  <2>3. heap[n].task = t
    BY <2>1, <2>2 DEF NoDangling
  <2>4. heap[n].task = None
    BY DEF Free
  <2> QED
    BY <2>3, <2>4, MessagesAssumption
<1> QED
  BY <1>1, NothingDangles, PTL

==============================================================================
