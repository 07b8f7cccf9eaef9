------------------------- MODULE BlockingSPSCQueue -------------------------
(***************************************************************************)
(* BlockingSPSCQueue<T> (neuropod/internal/blocking_spsc_queue.hh): the    *)
(* bounded queue between the reader thread of an IPCMessageQueue and the   *)
(* thread in recv_message.                                                 *)
(*                                                                         *)
(* Each operation holds mutex_ for one critical section and notifies after *)
(* it has released the mutex.  A critical section is one step, the         *)
(* notification is another, and a thread asleep on a condition variable    *)
(* has a pc of its own; wait() releases the mutex and falls asleep in one  *)
(* step and evaluates its predicate again once woken.  The class says SPSC *)
(* but notifies all, so the threads are sets here.                         *)
(***************************************************************************)
EXTENDS Naturals, Sequences

CONSTANTS Producers,   \* threads that call emplace and try_emplace
          Consumers,   \* threads that call pop
          Items,       \* what is queued
          Capacity,    \* capacity_
          MaxItems     \* model bound: no emplace is called once so many items went in

ASSUME CapacityAssumption == Capacity \in Nat \ {0}
ASSUME ThreadsAssumption  == Producers \cap Consumers = {}
ASSUME MaxItemsAssumption == MaxItems \in Nat

VARIABLES queue,       \* queue_
          pc,          \* where each thread is
          item,        \* the argument of an emplace, the result of a pop
          emplaced,    \* history: the items that went in, in order
          popped       \* history: the items that came out, in order

vars == <<queue, pc, item, emplaced, popped>>

Threads == Producers \cup Consumers

ProducerPCs == {"idle", "emplace", "full_cv", "try_emplace", "notify_empty"}
ConsumerPCs == {"idle", "pop", "empty_cv", "notify_full"}

TypeOK == /\ queue \in Seq(Items)
          /\ pc \in [Threads -> ProducerPCs \cup ConsumerPCs]
          /\ \A t \in Producers : pc[t] \in ProducerPCs
          /\ \A t \in Consumers : pc[t] \in ConsumerPCs
          /\ item \in [Threads -> Items]
          /\ emplaced \in Seq(Items)
          /\ popped \in Seq(Items)

Init == /\ queue = <<>>
        /\ pc = [t \in Threads |-> "idle"]
        /\ item \in [Threads -> Items]
        /\ emplaced = <<>>
        /\ popped = <<>>

Goto(t, l) == pc' = [pc EXCEPT ![t] = l]

-----------------------------------------------------------------------------
\* A thread enters emplace, try_emplace or pop.
CallEmplace(p, l, i) == /\ pc[p] = "idle"
                        /\ Len(emplaced) < MaxItems
                        /\ Goto(p, l)
                        /\ item' = [item EXCEPT ![p] = i]
                        /\ UNCHANGED <<queue, emplaced, popped>>

CallPop(c) == /\ pc[c] = "idle"
              /\ Goto(c, "pop")
              /\ UNCHANGED <<queue, item, emplaced, popped>>

Push(p) == /\ queue' = Append(queue, item[p])
           /\ emplaced' = Append(emplaced, item[p])
           /\ UNCHANGED <<item, popped>>

\* Defect: try_emplace keeps the last place of the queue free.
TryEmplaceEarlyRefusal(p) == /\ pc[p] = "try_emplace"
                             /\ \/ /\ Len(queue) < Capacity - 1
                                   /\ Push(p)
                                   /\ Goto(p, "notify_empty")
                                \/ /\ Len(queue) >= Capacity - 1
                                   /\ Goto(p, "idle")
                                   /\ UNCHANGED <<queue, item, emplaced, popped>>

\* The critical section of try_emplace.
TryEmplace(p) == /\ pc[p] = "try_emplace"
                 /\ \/ /\ Len(queue) < Capacity
                       /\ Push(p)
                       /\ Goto(p, "notify_empty")
                    \/ /\ Len(queue) >= Capacity
                       /\ Goto(p, "idle")
                       /\ UNCHANGED <<queue, item, emplaced, popped>>

\* The critical section of emplace, from the lock or from a wake-up.
Emplace(p) == /\ pc[p] = "emplace"
              /\ \/ /\ Len(queue) < Capacity
                    /\ Push(p)
                    /\ Goto(p, "notify_empty")
                 \/ /\ Len(queue) >= Capacity
                    /\ Goto(p, "full_cv")
                    /\ UNCHANGED <<queue, item, emplaced, popped>>

\* The critical section of pop, from the lock or from a wake-up.
Pop(c) == /\ pc[c] = "pop"
          /\ \/ /\ queue # <<>>
                /\ item' = [item EXCEPT ![c] = Head(queue)]
                /\ queue' = Tail(queue)
                /\ popped' = Append(popped, Head(queue))
                /\ Goto(c, "notify_full")
                /\ UNCHANGED emplaced
             \/ /\ queue = <<>>
                /\ Goto(c, "empty_cv")
                /\ UNCHANGED <<queue, item, emplaced, popped>>

\* Defect: both sides sleep on one condition variable and wake in pop's loop.
NotifyEveryone(p) ==
  /\ pc[p] = "notify_empty"
  /\ pc' = [t \in Threads |-> IF t = p THEN "idle"
                              ELSE IF pc[t] \in {"empty_cv", "full_cv"} THEN "pop" ELSE pc[t]]
  /\ UNCHANGED <<queue, item, emplaced, popped>>

\* notify_all: every sleeper of the condition variable will take the mutex and
\* look again.
NotifyEmpty(p) ==
  /\ pc[p] = "notify_empty"
  /\ pc' = [t \in Threads |-> IF t = p THEN "idle"
                              ELSE IF pc[t] = "empty_cv" THEN "pop" ELSE pc[t]]
  /\ UNCHANGED <<queue, item, emplaced, popped>>

\* Defect: pop does not notify full_cv_.
SkipNotifyFull(c) == /\ pc[c] = "notify_full"
                     /\ Goto(c, "idle")
                     /\ UNCHANGED <<queue, item, emplaced, popped>>

NotifyFull(c) ==
  /\ pc[c] = "notify_full"
  /\ pc' = [t \in Threads |-> IF t = c THEN "idle"
                              ELSE IF pc[t] = "full_cv" THEN "emplace" ELSE pc[t]]
  /\ UNCHANGED <<queue, item, emplaced, popped>>

\* A condition variable may wake a thread for no reason.
SpuriousWake(t) == /\ \/ pc[t] = "full_cv" /\ Goto(t, "emplace")
                      \/ pc[t] = "empty_cv" /\ Goto(t, "pop")
                   /\ UNCHANGED <<queue, item, emplaced, popped>>

-----------------------------------------------------------------------------
ProducerStep(p) == Emplace(p) \/ TryEmplace(p) \/ NotifyEmpty(p)
ConsumerStep(c) == Pop(c) \/ NotifyFull(c)

Next == \/ \E p \in Producers :
             \/ \E l \in {"emplace", "try_emplace"}, i \in Items : CallEmplace(p, l, i)
             \/ ProducerStep(p)
        \/ \E c \in Consumers : CallPop(c) \/ ConsumerStep(c)
        \/ \E t \in Threads : SpuriousWake(t)

(***************************************************************************)
(* A thread that holds no lock and does not sleep is run by the system.    *)
(* No call is ever promised, and no spurious wake-up.                      *)
(***************************************************************************)
Fairness == /\ \A p \in Producers : WF_vars(ProducerStep(p))
            /\ \A c \in Consumers : WF_vars(ConsumerStep(c))

SafeSpec == Init /\ [][Next]_vars
Spec     == SafeSpec /\ Fairness

-----------------------------------------------------------------------------
(***************************************************************************)
(* The queue never holds more than capacity_ items, and what came out is   *)
(* what went in, in the same order, without loss or duplication            *)
(* (emplace, try_emplace and pop together).                                *)
(***************************************************************************)
FIFO == /\ Len(queue) <= Capacity
        /\ emplaced = popped \o queue

(***************************************************************************)
(* Notifying after the mutex is released loses no wake-up: a consumer      *)
(* sleeps beside an item, or a producer beside free room, only while a     *)
(* thread that will notify it is on its way to do so.                      *)
(***************************************************************************)
NoLostWakeup ==
  /\ (queue # <<>> /\ \E c \in Consumers : pc[c] = "empty_cv")
        => \E p \in Producers : pc[p] = "notify_empty"
  /\ (Len(queue) < Capacity /\ \E p \in Producers : pc[p] = "full_cv")
        => \E c \in Consumers : pc[c] = "notify_full"

\* What a caller sees of a thread's pc.
AbstractOp == [t \in Threads |->
                 CASE pc[t] = "full_cv" -> "emplace"
                   [] pc[t] = "empty_cv" -> "pop"
                   [] pc[t] \in {"notify_empty", "notify_full"} -> "done"
                   [] OTHER -> pc[t]]

Fifo == INSTANCE BoundedFIFO WITH op <- AbstractOp

(***************************************************************************)
(* The mutex, the two condition variables and the late notifications       *)
(* implement a bounded FIFO whose operations are atomic, and no caller     *)
(* stays asleep that the FIFO would serve.                                 *)
(***************************************************************************)
ImplementsFifo == Fifo!Spec
=============================================================================
