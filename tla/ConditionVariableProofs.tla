---------------------- MODULE ConditionVariableProofs ----------------------
(***************************************************************************)
(* Theorems about the two classes with a mutex and a condition variable:   *)
(* BlockingSPSCQueue, for every set of producers and consumers, every set  *)
(* of items and every capacity; and Heartbeat, for every interval, timeout *)
(* and slack that satisfy its assumptions: the read thread does not give   *)
(* up on a process that is alive, and the destructor is prompt.            *)
(***************************************************************************)
EXTENDS BlockingSPSCQueue, Heartbeat, SequenceTheorems, TLAPS

(***************************************************************************)
(* The queue.                                                              *)
(***************************************************************************)
\* Appending to what waits is appending to what came in.
LEMMA PushKeepsOrder ==
  ASSUME NEW d \in Seq(Items), NEW q \in Seq(Items), NEW i \in Items
  PROVE  Append(d \o q, i) = d \o Append(q, i)
<1>1. <<i>> \in Seq(Items) /\ d \o q \in Seq(Items)
  OBVIOUS
<1>2. /\ Append(d \o q, i) = (d \o q) \o <<i>>
      /\ Append(q, i) = q \o <<i>>
  BY <1>1, AppendIsConcat
<1>3. (d \o q) \o <<i>> = d \o (q \o <<i>>)
  BY <1>1, ConcatAssociative
<1> QED
  BY <1>2, <1>3

\* Moving the oldest waiting item to what came out keeps the whole.
LEMMA PopKeepsOrder ==
  ASSUME NEW d \in Seq(Items), NEW q \in Seq(Items), q # <<>>
  PROVE  Append(d, Head(q)) \o Tail(q) = d \o q
<1> DEFINE h == <<Head(q)>>
<1>1. Head(q) \in Items /\ h \in Seq(Items) /\ Tail(q) \in Seq(Items)
  BY HeadTailProperties
<1>2. h \o Tail(q) = q
  <2>1. h \o Tail(q) \in Seq(Items) /\ Len(h \o Tail(q)) = Len(q)
    BY <1>1, HeadTailProperties, ConcatProperties
  <2>2. \A i \in 1 .. Len(q) : (h \o Tail(q))[i] = q[i]
    BY <1>1, HeadTailProperties, ConcatProperties
  <2> QED
    BY <2>1, <2>2, SeqEqual
<1>3. Append(d, Head(q)) = d \o h
  BY <1>1, AppendIsConcat
<1>4. (d \o h) \o Tail(q) = d \o (h \o Tail(q))
  BY <1>1, ConcatAssociative
<1> QED
  BY <1>2, <1>3, <1>4
-----------------------------------------------------------------------------
\* Every variable keeps its type, whatever the threads do.
THEOREM TypeCorrect == SafeSpec => []TypeOK
<1>1. Init => TypeOK
  BY DEF Init, TypeOK, Threads, ProducerPCs, ConsumerPCs
<1>2. TypeOK /\ [Next]_vars => TypeOK'
  <2> SUFFICES ASSUME TypeOK, [Next]_vars
               PROVE  TypeOK'
    OBVIOUS
  <2> USE ThreadsAssumption DEF TypeOK, Threads, ProducerPCs, ConsumerPCs, Goto
  <2>1. ASSUME NEW p \in Producers, NEW l \in {"emplace", "try_emplace"}, NEW i \in Items,
               CallEmplace(p, l, i)
        PROVE  TypeOK'
    BY <2>1 DEF CallEmplace
  <2>2. ASSUME NEW p \in Producers, Push(p), Goto(p, "notify_empty")
        PROVE  TypeOK'
    <3>1. queue' \in Seq(Items) /\ emplaced' \in Seq(Items)
      BY <2>2, AppendProperties DEF Push
    <3> QED
      BY <2>2, <3>1 DEF Push
  <2>3. ASSUME NEW p \in Producers, Emplace(p) \/ TryEmplace(p)
        PROVE  TypeOK'
    BY <2>2, <2>3 DEF Emplace, TryEmplace
  <2>4. ASSUME NEW p \in Producers, NotifyEmpty(p)
        PROVE  TypeOK'
    BY <2>4 DEF NotifyEmpty
  <2>5. ASSUME NEW c \in Consumers, CallPop(c)
        PROVE  TypeOK'
    BY <2>5 DEF CallPop
  <2>6. ASSUME NEW c \in Consumers, Pop(c)
        PROVE  TypeOK'
    <3>1. CASE queue # <<>>
      <4>1. Head(queue) \in Items /\ Tail(queue) \in Seq(Items)
        BY <3>1, HeadTailProperties
      <4>2. Append(popped, Head(queue)) \in Seq(Items)
        BY <4>1, AppendProperties
      <4> QED
        BY <2>6, <3>1, <4>1, <4>2 DEF Pop
    <3>2. CASE queue = <<>>
      BY <2>6, <3>2 DEF Pop
    <3> QED
      BY <3>1, <3>2
  <2>7. ASSUME NEW c \in Consumers, NotifyFull(c)
        PROVE  TypeOK'
    BY <2>7 DEF NotifyFull
  <2>8. ASSUME NEW t \in Threads, SpuriousWake(t)
        PROVE  TypeOK'
    BY <2>8 DEF SpuriousWake
  <2>9. CASE UNCHANGED vars
    BY <2>9 DEF vars
  <2> QED
    BY <2>1, <2>3, <2>4, <2>5, <2>6, <2>7, <2>8, <2>9
       DEF Next, ProducerStep, ConsumerStep
<1> QED
  BY <1>1, <1>2, PTL DEF SafeSpec

-----------------------------------------------------------------------------
\* The queue is bounded and first-in first-out, for every interleaving.
THEOREM QueueIsFIFO == SafeSpec => []FIFO
<1>1. Init => FIFO
  BY CapacityAssumption DEF Init, FIFO
<1>2. TypeOK /\ FIFO /\ [Next]_vars => FIFO'
  <2> SUFFICES ASSUME TypeOK, FIFO, [Next]_vars
               PROVE  FIFO'
    OBVIOUS
  <2> USE CapacityAssumption DEF TypeOK, FIFO
  <2>1. ASSUME NEW p \in Producers, Push(p), Len(queue) < Capacity
        PROVE  FIFO'
    <3>1. item[p] \in Items
      BY DEF Threads
    <3>2. Append(emplaced, item[p]) = popped \o Append(queue, item[p])
      BY <3>1, PushKeepsOrder
    <3>3. Len(Append(queue, item[p])) = Len(queue) + 1
      BY <3>1, AppendProperties
    <3> QED
      BY <2>1, <3>2, <3>3 DEF Push
  <2>2. ASSUME NEW p \in Producers, Emplace(p) \/ TryEmplace(p)
        PROVE  FIFO'
    BY <2>1, <2>2 DEF Emplace, TryEmplace
  <2>3. ASSUME NEW c \in Consumers, Pop(c)
        PROVE  FIFO'
    <3>1. CASE queue # <<>>
      <4>1. popped' \o queue' = popped \o queue
        BY <2>3, <3>1, PopKeepsOrder DEF Pop
      <4>2. Len(queue') = Len(queue) - 1
        BY <2>3, <3>1, HeadTailProperties DEF Pop
      <4>3. emplaced' = emplaced
        BY <2>3, <3>1 DEF Pop
      <4> QED
        BY <4>1, <4>2, <4>3
    <3>2. CASE queue = <<>>
      BY <2>3, <3>2 DEF Pop
    <3> QED
      BY <3>1, <3>2
  <2>4. CASE UNCHANGED <<queue, emplaced, popped>>
    BY <2>4
  <2> QED
    BY <2>2, <2>3, <2>4
       DEF Next, ProducerStep, ConsumerStep, CallEmplace, CallPop, NotifyEmpty, NotifyFull,
           SpuriousWake, vars
<1> QED
  BY <1>1, <1>2, TypeCorrect, PTL DEF SafeSpec

\* Although pop and emplace notify after they have released the mutex, nobody
\* sleeps on a condition that holds unless a notification is on its way.
THEOREM WakeupsAreNotLost == SafeSpec => []NoLostWakeup
<1>1. Init => NoLostWakeup
  BY CapacityAssumption DEF Init, NoLostWakeup, Threads
<1>2. TypeOK /\ NoLostWakeup /\ [Next]_vars => NoLostWakeup'
  <2> SUFFICES ASSUME TypeOK, NoLostWakeup, [Next]_vars
               PROVE  NoLostWakeup'
    OBVIOUS
  <2> USE ThreadsAssumption DEF TypeOK, NoLostWakeup, Threads, ProducerPCs, ConsumerPCs, Goto
  <2>1. ASSUME NEW p \in Producers, NEW l \in {"emplace", "try_emplace"}, NEW i \in Items,
               CallEmplace(p, l, i)
        PROVE  NoLostWakeup'
    BY <2>1 DEF CallEmplace
  <2>2. ASSUME NEW p \in Producers, Push(p), Goto(p, "notify_empty"), pc[p] # "notify_empty"
        PROVE  NoLostWakeup'
    <3>1. item[p] \in Items /\ Len(queue') = Len(queue) + 1 /\ pc'[p] = "notify_empty"
      BY <2>2, AppendProperties DEF Push
    <3> QED
      BY <2>2, <3>1, CapacityAssumption DEF Push
  <2>3. ASSUME NEW p \in Producers, Emplace(p) \/ TryEmplace(p)
        PROVE  NoLostWakeup'
    BY <2>2, <2>3, CapacityAssumption DEF Emplace, TryEmplace
  <2>4. ASSUME NEW p \in Producers, NotifyEmpty(p)
        PROVE  NoLostWakeup'
    BY <2>4 DEF NotifyEmpty
  <2>5. ASSUME NEW c \in Consumers, CallPop(c)
        PROVE  NoLostWakeup'
    BY <2>5 DEF CallPop
  <2>6. ASSUME NEW c \in Consumers, Pop(c)
        PROVE  NoLostWakeup'
    <3>1. CASE queue # <<>>
      <4>1. pc'[c] = "notify_full" /\ Tail(queue) \in Seq(Items)
        BY <2>6, <3>1, HeadTailProperties DEF Pop
      <4> QED
        BY <2>6, <3>1, <4>1 DEF Pop
    <3>2. CASE queue = <<>>
      BY <2>6, <3>2 DEF Pop
    <3> QED
      BY <3>1, <3>2
  <2>7. ASSUME NEW c \in Consumers, NotifyFull(c)
        PROVE  NoLostWakeup'
    BY <2>7 DEF NotifyFull
  <2>8. ASSUME NEW t \in Threads, SpuriousWake(t)
        PROVE  NoLostWakeup'
    BY <2>8 DEF SpuriousWake
  <2>9. CASE UNCHANGED vars
    BY <2>9 DEF vars
  <2> QED
    BY <2>1, <2>3, <2>4, <2>5, <2>6, <2>7, <2>8, <2>9
       DEF Next, ProducerStep, ConsumerStep
<1> QED
  BY <1>1, <1>2, TypeCorrect, PTL DEF SafeSpec
-----------------------------------------------------------------------------
\* Every step of the queue's threads is one step of the bounded FIFO, or none.
THEOREM RefinesFifo == SafeSpec => Fifo!SafeSpec
<1> USE ThreadsAssumption DEF Threads, Fifo!Threads, AbstractOp
<1>1. Init => Fifo!Init
  BY DEF Init, Fifo!Init
<1>2. TypeOK /\ [Next]_vars => [Fifo!Next]_Fifo!vars
  <2> SUFFICES ASSUME TypeOK, [Next]_vars
               PROVE  [Fifo!Next]_Fifo!vars
    OBVIOUS
  <2> USE DEF TypeOK, ProducerPCs, ConsumerPCs, Goto
  <2>1. ASSUME NEW p \in Producers, NEW l \in {"emplace", "try_emplace"}, NEW i \in Items,
               CallEmplace(p, l, i)
        PROVE  Fifo!Call(p)
    BY <2>1 DEF CallEmplace, Fifo!Call
  <2>2. ASSUME NEW p \in Producers, pc[p] \in {"emplace", "try_emplace"}, Push(p),
               Len(queue) < Capacity, Goto(p, "notify_empty")
        PROVE  Fifo!Put(p)
    BY <2>2 DEF Push, Fifo!Put
  <2>3. ASSUME NEW p \in Producers, Emplace(p)
        PROVE  Fifo!Put(p) \/ UNCHANGED Fifo!vars
    BY <2>2, <2>3 DEF Emplace, Fifo!vars
  <2>4. ASSUME NEW p \in Producers, TryEmplace(p)
        PROVE  Fifo!Put(p) \/ Fifo!Refuse(p)
    <3>1. CASE Len(queue) < Capacity /\ Push(p) /\ Goto(p, "notify_empty")
      BY <2>2, <2>4, <3>1 DEF TryEmplace
    <3>2. CASE Len(queue) >= Capacity /\ Goto(p, "idle")
               /\ UNCHANGED <<queue, item, emplaced, popped>>
      BY <2>4, <3>2 DEF TryEmplace, Fifo!Refuse
    <3> QED
      BY <2>4, <3>1, <3>2 DEF TryEmplace
  <2>5. ASSUME NEW p \in Producers, NotifyEmpty(p)
        PROVE  Fifo!Return(p)
    BY <2>5 DEF NotifyEmpty, Fifo!Return
  <2>6. ASSUME NEW c \in Consumers, CallPop(c)
        PROVE  Fifo!Call(c)
    BY <2>6 DEF CallPop, Fifo!Call
  <2>7. ASSUME NEW c \in Consumers, Pop(c)
        PROVE  Fifo!Take(c) \/ UNCHANGED Fifo!vars
    BY <2>7 DEF Pop, Fifo!Take, Fifo!vars
  <2>8. ASSUME NEW c \in Consumers, NotifyFull(c)
        PROVE  Fifo!Return(c)
    BY <2>8 DEF NotifyFull, Fifo!Return
  <2>9. ASSUME NEW t \in Threads, SpuriousWake(t)
        PROVE  UNCHANGED Fifo!vars
    BY <2>9 DEF SpuriousWake, Fifo!vars
  <2>10. CASE UNCHANGED vars
    BY <2>10 DEF vars, Fifo!vars
  <2> QED
    BY <2>1, <2>3, <2>4, <2>5, <2>6, <2>7, <2>8, <2>9, <2>10
       DEF Next, ProducerStep, ConsumerStep, Fifo!Next
<1> QED
  BY <1>1, <1>2, TypeCorrect, PTL DEF SafeSpec, Fifo!SafeSpec

-----------------------------------------------------------------------------
(***************************************************************************)
(* The heartbeats.                                                         *)
(***************************************************************************)
\* The heartbeat thread is never later than it may be.
LagBounded == /\ sender \notin Gone => lag <= (IF sender = "start" THEN Startup ELSE Slack)
              /\ sender \in InWaitFor => slept <= Interval + lag

\* How long the read thread can have waited, by where the heartbeat thread is.
WaitBounded ==
  on /\ ~unread /\ reader = "receiving" =>
    /\ sender = "start" => wait <= lag
    /\ sender \in {"test", "send"} => wait <= Startup + lag \/ wait <= Interval + Slack + lag
    /\ sender \in {"lock", "check"} => wait <= lag
    /\ sender \in InWaitFor => wait <= slept + Slack

\* A notification is not lost: once the destructor joins, the heartbeat thread
\* does not begin to wait again, and runs.
Stopping == /\ on <=> stop = "no"
            /\ sender = "start" => stop = "no"
            /\ stop = "no" => joining = 0
            /\ stop = "notify" => joining = 0
            /\ ~on => sender # "sleep"
            /\ stop = "join" /\ sender = "waiting" => woken
            /\ stop = "join" /\ sender \notin Gone => joining <= lag

\* The inductive invariant.
HeartbeatInv == HeartbeatTypeOK /\ LagBounded /\ WaitBounded /\ Stopping /\ NoFalseTimeout

(***************************************************************************)
(* In every reachable state of a controller and a read thread, the wait,   *)
(* the lag and the stop flag are related as above.                         *)
(***************************************************************************)
THEOREM HeartbeatInvariance == HeartbeatSpec => []HeartbeatInv
<1>. USE TimeAssumption, SlackAssumption DEF TimeAssumption, SlackAssumption
<1>0. 0 <= Timeout
  OBVIOUS
<1>1. HeartbeatInit => HeartbeatInv
  <2>. SUFFICES ASSUME HeartbeatInit PROVE HeartbeatInv
    OBVIOUS
  <2>. USE DEF HeartbeatInit, InWaitFor, Gone
  <2>1. HeartbeatTypeOK
    BY <1>0 DEF HeartbeatTypeOK
  <2>2. LagBounded
    BY DEF LagBounded
  <2>3. WaitBounded
    BY DEF WaitBounded
  <2>4. Stopping
    BY DEF Stopping
  <2>5. NoFalseTimeout
    BY DEF NoFalseTimeout
  <2>. QED
    BY <2>1, <2>2, <2>3, <2>4, <2>5 DEF HeartbeatInv
<1>2. HeartbeatInv /\ [HeartbeatNext]_heartbeatVars => HeartbeatInv'
  <2>. SUFFICES ASSUME HeartbeatInv, [HeartbeatNext]_heartbeatVars
                PROVE  HeartbeatInv'
    OBVIOUS
  <2>. USE DEF HeartbeatInv, HeartbeatTypeOK, LagBounded, WaitBounded, Stopping, NoFalseTimeout, InWaitFor, Gone
  <2>1. CASE Start
    BY <2>1 DEF Start
  <2>2. CASE Test
    BY <2>2 DEF Test
  <2>3. CASE Send
    BY <2>3 DEF Send
  <2>4. CASE Lock
    BY <2>4 DEF Lock
  <2>5. CASE Check
    BY <2>5 DEF Check
  <2>6. CASE Sleep
    BY <2>6 DEF Sleep
  <2>7. CASE Wake
    BY <2>7 DEF Wake
  <2>8. CASE Relock
    BY <2>8 DEF Relock
  <2>9. CASE Die
    BY <2>9 DEF Die
  <2>10. CASE Clear
    BY <2>10 DEF Clear, thread
  <2>11. CASE Notify
    <3>1. /\ stop = "notify" /\ stop' = "join" /\ woken' \in BOOLEAN
          /\ sender = "waiting" => woken'
          /\ UNCHANGED <<sender, mutex, slept, lag, on, joining, unread, reader, wait>>
      BY <2>11, Zenon DEF Notify
    <3>. QED
      BY <3>1
  <2>12. CASE Read
    <3>1. /\ unread' = FALSE /\ wait' = 0
          /\ UNCHANGED <<sender, mutex, woken, slept, lag, on, stop, joining, reader>>
      BY <2>12 DEF Read, thread
    <3>2. HeartbeatTypeOK'
      BY <1>0, <3>1
    <3>3. LagBounded'
      BY <3>1
    <3>4. Stopping'
      BY <3>1
    <3>5. NoFalseTimeout'
      BY <3>1
    <3>6. WaitBounded'
      BY <3>1
    <3>. QED
      BY <3>2, <3>3, <3>4, <3>5, <3>6
  <2>13. CASE GiveUp
    <3>1. /\ reader = "receiving" /\ ~unread /\ wait = Timeout /\ reader' = "threw"
          /\ UNCHANGED <<sender, mutex, woken, slept, lag, on, stop, joining, unread, wait>>
      BY <2>13 DEF GiveUp, thread
    <3>2. sender \in Gone \/ ~on
      \* Everywhere else, the read thread has waited for less than Timeout.
      BY <3>1
    <3>. QED
      BY <3>1, <3>2
  <2>14. CASE Tick
    BY <2>14 DEF Tick, CanRun
  <2>15. CASE UNCHANGED heartbeatVars
    BY <2>15 DEF heartbeatVars, thread
  <2>. QED
    BY <2>1, <2>2, <2>3, <2>4, <2>5, <2>6, <2>7, <2>8, <2>9, <2>10, <2>11, <2>12, <2>13, <2>14,
       <2>15 DEF HeartbeatNext, ThreadStep, ReaderStep
<1>. QED
  BY <1>1, <1>2, PTL DEF HeartbeatSpec

(***************************************************************************)
(* Every variable keeps its type, and mutex_ its holder.                   *)
(***************************************************************************)
THEOREM HeartbeatTypes == HeartbeatSpec => []HeartbeatTypeOK
<1>1. HeartbeatInv => HeartbeatTypeOK
  BY DEF HeartbeatInv
<1>. QED
  BY <1>1, HeartbeatInvariance, PTL

(***************************************************************************)
(* With Interval + 2 * Slack < Timeout and Startup + Slack < Timeout, the  *)
(* read thread does not time out on a live process that sends heartbeats.  *)
(***************************************************************************)
THEOREM NoFalseTimeouts == HeartbeatSpec => []NoFalseTimeout
<1>1. HeartbeatInv => NoFalseTimeout
  BY DEF HeartbeatInv
<1>. QED
  BY <1>1, HeartbeatInvariance, PTL

(***************************************************************************)
(* Whatever the interval, ~HeartbeatController waits for at most Slack.    *)
(***************************************************************************)
THEOREM JoinsArePrompt == HeartbeatSpec => []JoinIsPrompt
<1>1. HeartbeatInv => JoinIsPrompt
  BY TimeAssumption DEF HeartbeatInv, HeartbeatTypeOK, LagBounded, Stopping, JoinIsPrompt
<1>. QED
  BY <1>1, HeartbeatInvariance, PTL
=============================================================================
