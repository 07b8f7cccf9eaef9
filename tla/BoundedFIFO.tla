---------------------------- MODULE BoundedFIFO ----------------------------
(***************************************************************************)
(* What neuropod/internal/blocking_spsc_queue.hh promises to its callers,  *)
(* with no mutex, no condition variable and no sleeping thread: a bounded  *)
(* queue whose operations take effect in one step between the call and the *)
(* return.  BlockingSPSCQueue is shown to implement it.                    *)
(***************************************************************************)
EXTENDS Naturals, Sequences

CONSTANTS Producers, Consumers, Items, Capacity

VARIABLES queue,      \* the items in the queue, oldest first
          op,         \* what each thread is doing
          item        \* the item each producer offers or each consumer received

vars == <<queue, op, item>>

Threads == Producers \cup Consumers

Init == /\ queue = <<>>
        /\ op = [t \in Threads |-> "idle"]
        /\ item \in [Threads -> Items]

Call(t) == /\ op[t] = "idle"
           /\ \/ /\ t \in Producers
                 /\ \E o \in {"emplace", "try_emplace"} : op' = [op EXCEPT ![t] = o]
                 /\ \E i \in Items : item' = [item EXCEPT ![t] = i]
              \/ /\ t \in Consumers
                 /\ op' = [op EXCEPT ![t] = "pop"]
                 /\ UNCHANGED item
           /\ UNCHANGED queue

\* An accepted item goes to the back.
Put(t) == /\ op[t] \in {"emplace", "try_emplace"}
          /\ Len(queue) < Capacity
          /\ queue' = Append(queue, item[t])
          /\ op' = [op EXCEPT ![t] = "done"]
          /\ UNCHANGED item

\* Only `try_emplace` gives up, and only while the queue is full.
Refuse(t) == /\ op[t] = "try_emplace"
             /\ Len(queue) >= Capacity
             /\ op' = [op EXCEPT ![t] = "idle"]
             /\ UNCHANGED <<queue, item>>

\* The oldest item comes out first.
Take(t) == /\ op[t] = "pop"
           /\ queue # <<>>
           /\ item' = [item EXCEPT ![t] = Head(queue)]
           /\ queue' = Tail(queue)
           /\ op' = [op EXCEPT ![t] = "done"]

Return(t) == /\ op[t] = "done"
             /\ op' = [op EXCEPT ![t] = "idle"]
             /\ UNCHANGED <<queue, item>>

Next == \E t \in Threads : Call(t) \/ Put(t) \/ Refuse(t) \/ Take(t) \/ Return(t)

(***************************************************************************)
(* Nobody is promised to be the one served, but while there is room and    *)
(* somebody emplaces, some item goes in; while there is an item and        *)
(* somebody pops, some item comes out; and a finished call returns.        *)
(***************************************************************************)
Fairness == /\ WF_vars(\E t \in Producers : Put(t))
            /\ WF_vars(\E t \in Consumers : Take(t))
            /\ \A t \in Threads : WF_vars(Return(t))

SafeSpec == Init /\ [][Next]_vars
Spec     == SafeSpec /\ Fairness
=============================================================================
