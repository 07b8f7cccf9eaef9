-------------------------- MODULE IPCMessageQueue --------------------------
(***************************************************************************)
(* IPCMessageQueue (neuropod/multiprocess/mq/): the two endpoints of a     *)
(* bidirectional queue between a main and a worker process.  Each endpoint *)
(* has a bounded interprocess queue it receives from (wire), a reader      *)
(* thread that moves user messages to a bounded in-process queue (out), a  *)
(* heartbeat thread, and a table of what it moved to the other process and *)
(* must keep in scope until a DONE comes back (inTransit).                 *)
(*                                                                         *)
(* Users send, receive and release messages; the deleter of a released     *)
(* message sends its DONE.  An endpoint is destroyed when no user holds it *)
(* or one of its messages (every message holds a shared_ptr to it).  Time  *)
(* is not modelled: a receive may time out whenever its wire is empty and  *)
(* the other side has stopped its heartbeats or has died (Heartbeat.tla    *)
(* has the clock).  wire is an external boost message_queue, which blocks  *)
(* a sender while it is full; out is BlockingSPSCQueue.tla's FIFO.         *)
(***************************************************************************)
EXTENDS Naturals, Sequences, FiniteSets

CONSTANTS MaxQueueSize,   \* MAX_QUEUE_SIZE, of the wires and of the out queues
          MaxMessages,    \* model bound: how many user messages each endpoint sends
          MaxHeartbeats,  \* model bound: unread heartbeats in a wire
          MaySenders,     \* model bound: threads of an endpoint inside a send
          Mortal          \* the endpoints whose process may die at any moment

ASSUME QueueSizeAssumption == MaxQueueSize \in Nat \ {0}

Peers == {"main", "worker"}
Other(p) == IF p = "main" THEN "worker" ELSE "main"

ASSUME MessagesAssumption == MaxMessages \in [Peers -> Nat]

Ids == UNION {1 .. MaxMessages[p] : p \in Peers}

VARIABLES wire,       \* the messages in each endpoint's recv_queue_
          out,        \* out_queue_
          reader,     \* where the read thread is: receive, emplace, exited
          pending,    \* the user message an emplace is waiting with
          shutdown,   \* shutdown_started_
          inTransit,  \* the ids in in_transit_
          sent,       \* how many user messages each endpoint has made
          sending,    \* the user messages whose thread is in send_queue_->send
          held,       \* the messages that recv_message returned and are in scope
          acking,     \* the ids whose deleter is in send_queue_->send
          hb,         \* the heartbeat thread: waiting, sending or exited
          life,       \* the endpoint: open, or how far its destructor is
          alive       \* whether the process runs

user == <<sent, sending, held, acking>>
vars == <<wire, out, reader, pending, shutdown, inTransit, user, hb, life, alive>>

\* The WireFormat fields the queue itself looks at.
Msg(t, i, d) == [type |-> t, id |-> i, done |-> d]
Heartbeat      == Msg("HEARTBEAT", 0, FALSE)
ShutdownQueues == Msg("SHUTDOWN_QUEUES", 0, FALSE)
Done(i)        == Msg("DONE", i, FALSE)
User(i, d)     == Msg("USER_PAYLOAD", i, d)

UserMessages == {User(i, d) : i \in Ids, d \in BOOLEAN}
WireMessages == UserMessages \cup {Heartbeat, ShutdownQueues} \cup {Done(i) : i \in Ids}

SeqsUpTo(S, n) == UNION {[1 .. k -> S] : k \in 0 .. n}

TypeOK ==
  \A p \in Peers :
    /\ wire[p] \in SeqsUpTo(WireMessages, MaxQueueSize)
    /\ out[p] \in SeqsUpTo(UserMessages \cup {ShutdownQueues}, MaxQueueSize)
    /\ reader[p] \in {"receive", "emplace", "exited"}
    /\ pending[p] \in SeqsUpTo(UserMessages, 1)
    /\ pending[p] # <<>> <=> reader[p] = "emplace"
    /\ shutdown[p] \in BOOLEAN
    /\ inTransit[p] \subseteq Ids
    /\ sent[p] \in 0 .. MaxMessages[p]
    /\ sending[p] \subseteq UserMessages
    /\ held[p] \subseteq UserMessages
    /\ acking[p] \subseteq Ids
    /\ hb[p] \in {"waiting", "sending", "exited"}
    /\ life[p] \in {"open", "stop_heartbeat", "send_shutdown", "join", "closed"}
    /\ alive[p] \in BOOLEAN

Init == /\ wire = [p \in Peers |-> <<>>]
        /\ out = [p \in Peers |-> <<>>]
        /\ reader = [p \in Peers |-> "receive"]
        /\ pending = [p \in Peers |-> <<>>]
        /\ shutdown = [p \in Peers |-> FALSE]
        /\ inTransit = [p \in Peers |-> {}]
        /\ sent = [p \in Peers |-> 0]
        /\ sending = [p \in Peers |-> {}]
        /\ held = [p \in Peers |-> {}]
        /\ acking = [p \in Peers |-> {}]
        /\ hb = [p \in Peers |-> "sending"]
        /\ life = [p \in Peers |-> "open"]
        /\ alive = [p \in Peers |-> TRUE]

Set(f, p, v) == [f EXCEPT ![p] = v]

\* A blocking send into the queue that q receives from.
Put(q, m) == /\ Len(wire[q]) < MaxQueueSize
             /\ wire' = Set(wire, q, Append(wire[q], m))
-----------------------------------------------------------------------------
\* Defect: what the message moves is not added to the table.
SendBeginUnkept(p, d) ==
  LET i == sent[p] + 1 IN
  /\ alive[p] /\ life[p] = "open"
  /\ i <= MaxMessages[p]
  /\ Cardinality(sending[p]) < MaySenders
  /\ sent' = Set(sent, p, i)
  /\ sending' = Set(sending, p, sending[p] \cup {User(i, d)})
  /\ UNCHANGED <<wire, out, reader, pending, shutdown, inTransit, held, acking, hb, life, alive>>

\* send_message and send_message_move: what the message moves is kept before
\* the message is sent.
SendBegin(p, d) ==
  LET i == sent[p] + 1 IN
  /\ alive[p] /\ life[p] = "open"
  /\ i <= MaxMessages[p]
  /\ Cardinality(sending[p]) < MaySenders
  /\ sent' = Set(sent, p, i)
  /\ sending' = Set(sending, p, sending[p] \cup {User(i, d)})
  /\ inTransit' = IF d THEN Set(inTransit, p, inTransit[p] \cup {i}) ELSE inTransit
  /\ UNCHANGED <<wire, out, reader, pending, shutdown, held, acking, hb, life, alive>>

Send(p, m) == /\ alive[p]
              /\ m \in sending[p]
              /\ Put(Other(p), m)
              /\ sending' = Set(sending, p, sending[p] \ {m})
              /\ UNCHANGED <<out, reader, pending, shutdown, inTransit, sent, held, acking, hb,
                             life, alive>>

\* Defect: the DONE does not wait for the deleter.
RecvAcksAtOnce(p) ==
  /\ alive[p] /\ life[p] = "open"
  /\ out[p] # <<>>
  /\ held' = Set(held, p, held[p] \cup {Head(out[p])})
  /\ acking' = IF Head(out[p]).done THEN Set(acking, p, acking[p] \cup {Head(out[p]).id})
               ELSE acking
  /\ out' = Set(out, p, Tail(out[p]))
  /\ UNCHANGED <<wire, reader, pending, shutdown, inTransit, sent, sending, hb, life, alive>>

\* recv_message, called by the one thread that may call it.
Recv(p) == /\ alive[p] /\ life[p] = "open"
           /\ out[p] # <<>>
           /\ held' = Set(held, p, held[p] \cup {Head(out[p])})
           /\ out' = Set(out, p, Tail(out[p]))
           /\ UNCHANGED <<wire, reader, pending, shutdown, inTransit, sent, sending, acking, hb,
                          life, alive>>

\* Defect: the deleter does not look at requires_done_msg.
ReleaseAcksEverything(p, m) ==
  /\ alive[p]
  /\ m \in held[p]
  /\ held' = Set(held, p, held[p] \ {m})
  /\ acking' = Set(acking, p, acking[p] \cup {m.id})
  /\ UNCHANGED <<wire, out, reader, pending, shutdown, inTransit, sent, sending, hb, life, alive>>

\* The last copy of a received message goes out of scope.
Release(p, m) == /\ alive[p]
                 /\ m \in held[p]
                 /\ held' = Set(held, p, held[p] \ {m})
                 /\ acking' = IF m.done THEN Set(acking, p, acking[p] \cup {m.id}) ELSE acking
                 /\ UNCHANGED <<wire, out, reader, pending, shutdown, inTransit, sent, sending,
                                hb, life, alive>>

\* The deleter's DONE.
Ack(p, i) == /\ alive[p]
             /\ i \in acking[p]
             /\ Put(Other(p), Done(i))
             /\ acking' = Set(acking, p, acking[p] \ {i})
             /\ UNCHANGED <<out, reader, pending, shutdown, inTransit, sent, sending, held, hb,
                            life, alive>>
-----------------------------------------------------------------------------
\* Defect: a shutdown does not wait for the DONE messages.
NextReadAtOnce(started, kept) == IF started THEN "exited" ELSE "receive"

\* The end of the read loop's body: leave once a shutdown has begun and
\* nothing is in transit.
NextRead(started, kept) == IF started /\ kept = {} THEN "exited" ELSE "receive"

\* What try_emplace leaves in out_queue_.
TryPushed(p, m) == IF Len(out[p]) < MaxQueueSize THEN Append(out[p], m) ELSE out[p]

\* One round of read_worker_loop, up to a blocking emplace.
Read(p) ==
  LET m == Head(wire[p]) IN
  /\ alive[p] /\ reader[p] = "receive" /\ wire[p] # <<>>
  /\ wire' = Set(wire, p, Tail(wire[p]))
  /\ \/ /\ m.type = "HEARTBEAT"
        /\ UNCHANGED <<out, reader, pending, shutdown, inTransit>>
     \/ /\ m.type = "DONE"
        /\ inTransit' = Set(inTransit, p, inTransit[p] \ {m.id})
        /\ reader' = Set(reader, p, NextRead(shutdown[p], inTransit'[p]))
        /\ UNCHANGED <<out, pending, shutdown>>
     \/ /\ m.type = "SHUTDOWN_QUEUES"
        /\ shutdown' = Set(shutdown, p, TRUE)
        /\ out' = Set(out, p, TryPushed(p, m))
        /\ reader' = Set(reader, p, NextRead(TRUE, inTransit[p]))
        /\ UNCHANGED <<pending, inTransit>>
     \/ /\ m.type = "USER_PAYLOAD"
        /\ pending' = Set(pending, p, <<m>>)
        /\ reader' = Set(reader, p, "emplace")
        /\ UNCHANGED <<out, shutdown, inTransit>>
  /\ UNCHANGED <<user, hb, life, alive>>

\* Defect: the message is left where it was taken from.
EmplaceAgain(p) == /\ alive[p] /\ reader[p] = "emplace"
                   /\ Len(out[p]) < MaxQueueSize
                   /\ out' = Set(out, p, out[p] \o pending[p])
                   /\ reader' = Set(reader, p, NextRead(shutdown[p], inTransit[p]))
                   /\ UNCHANGED <<wire, pending, shutdown, inTransit, user, hb, life, alive>>

\* Defect: the read loop does not wait for room in out_queue_.
EmplaceTries(p) == /\ alive[p] /\ reader[p] = "emplace"
                   /\ out' = Set(out, p, TryPushed(p, Head(pending[p])))
                   /\ pending' = Set(pending, p, <<>>)
                   /\ reader' = Set(reader, p, NextRead(shutdown[p], inTransit[p]))
                   /\ UNCHANGED <<wire, shutdown, inTransit, user, hb, life, alive>>

\* out_queue_.emplace, which waits while the queue is full.
Emplace(p) == /\ alive[p] /\ reader[p] = "emplace"
              /\ Len(out[p]) < MaxQueueSize
              /\ out' = Set(out, p, out[p] \o pending[p])
              /\ pending' = Set(pending, p, <<>>)
              /\ reader' = Set(reader, p, NextRead(shutdown[p], inTransit[p]))
              /\ UNCHANGED <<wire, shutdown, inTransit, user, hb, life, alive>>

\* timed_receive gives up: the exception leaves the read thread, which ends the
\* process.
Timeout(p) == /\ alive[p] /\ reader[p] = "receive" /\ wire[p] = <<>>
              /\ hb[Other(p)] = "exited" \/ ~alive[Other(p)]
              /\ alive' = Set(alive, p, FALSE)
              /\ UNCHANGED <<wire, out, reader, pending, shutdown, inTransit, user, hb, life>>
-----------------------------------------------------------------------------
\* The heartbeat thread wakes up, and sends unless it has been stopped.
HeartbeatWake(p) ==
  /\ alive[p] /\ hb[p] = "waiting"
  /\ \/ /\ life[p] = "open"
        /\ Cardinality({k \in DOMAIN wire[Other(p)] : wire[Other(p)][k] = Heartbeat}) < MaxHeartbeats
        /\ hb' = Set(hb, p, "sending")
     \/ /\ life[p] # "open"
        /\ hb' = Set(hb, p, "exited")
  /\ UNCHANGED <<wire, out, reader, pending, shutdown, inTransit, user, life, alive>>

HeartbeatSend(p) == /\ alive[p] /\ hb[p] = "sending"
                    /\ Put(Other(p), Heartbeat)
                    /\ hb' = Set(hb, p, "waiting")
                    /\ UNCHANGED <<out, reader, pending, shutdown, inTransit, user, life, alive>>
-----------------------------------------------------------------------------
\* ~IPCMessageQueue, run by whoever drops the last reference.
Destroy(p) == /\ alive[p] /\ life[p] = "open"
              /\ sending[p] = {} /\ held[p] = {} /\ acking[p] = {}
              /\ life' = Set(life, p, "stop_heartbeat")
              /\ UNCHANGED <<wire, out, reader, pending, shutdown, inTransit, user, hb, alive>>

JoinHeartbeat(p) == /\ alive[p] /\ life[p] = "stop_heartbeat" /\ hb[p] = "exited"
                    /\ life' = Set(life, p, "send_shutdown")
                    /\ UNCHANGED <<wire, out, reader, pending, shutdown, inTransit, user, hb,
                                   alive>>

\* Defect: SHUTDOWN_QUEUES goes into the wrong queue.
SendShutdownToPeer(p) ==
  /\ alive[p] /\ life[p] = "send_shutdown"
  /\ Put(Other(p), ShutdownQueues)
  /\ life' = Set(life, p, "join")
  /\ UNCHANGED <<out, reader, pending, shutdown, inTransit, user, hb, alive>>

\* The endpoint sends SHUTDOWN_QUEUES to its own reader.
SendShutdown(p) == /\ alive[p] /\ life[p] = "send_shutdown"
                   /\ Put(p, ShutdownQueues)
                   /\ life' = Set(life, p, "join")
                   /\ UNCHANGED <<out, reader, pending, shutdown, inTransit, user, hb, alive>>

\* The reader is joined and the members are destroyed, unread messages too.
JoinReader(p) == /\ alive[p] /\ life[p] = "join" /\ reader[p] = "exited"
                 /\ life' = Set(life, p, "closed")
                 /\ out' = Set(out, p, <<>>)
                 /\ UNCHANGED <<wire, reader, pending, shutdown, inTransit, user, hb, alive>>

Crash(p) == /\ p \in Mortal /\ alive[p]
            /\ alive' = Set(alive, p, FALSE)
            /\ UNCHANGED <<wire, out, reader, pending, shutdown, inTransit, user, hb, life>>
-----------------------------------------------------------------------------
UserStep(p) == \/ \E d \in BOOLEAN : SendBegin(p, d)
               \/ \E m \in UserMessages : Send(p, m) \/ Release(p, m)
               \/ \E i \in Ids : Ack(p, i)
               \/ Recv(p)
ReaderStep(p)     == Read(p) \/ Emplace(p) \/ Timeout(p)
HeartbeatStep(p)  == HeartbeatWake(p) \/ HeartbeatSend(p)
DestructorStep(p) == JoinHeartbeat(p) \/ SendShutdown(p) \/ JoinReader(p)

Next == \E p \in Peers : \/ UserStep(p) \/ ReaderStep(p) \/ HeartbeatStep(p)
                         \/ Destroy(p) \/ DestructorStep(p) \/ Crash(p)

(***************************************************************************)
(* Threads that can run do run: the reader, the heartbeat thread, the      *)
(* destructor and every send that has begun; heartbeats, two seconds       *)
(* apart, do not take each place of a wire before a send that waits for    *)
(* one.  Users read what has arrived and let go of it while the endpoint   *)
(* is open.  Nobody has to send or to destroy anything, and no process has *)
(* to crash.                                                               *)
(***************************************************************************)
Fairness ==
  \A p \in Peers :
    /\ WF_vars(ReaderStep(p))
    /\ WF_vars(HeartbeatStep(p))
    /\ SF_vars(\/ \E m \in UserMessages : Send(p, m)
               \/ \E i \in Ids : Ack(p, i)
               \/ DestructorStep(p))
    /\ WF_vars(Recv(p) \/ \E m \in UserMessages : Release(p, m))

SafeSpec == Init /\ [][Next]_vars
Spec     == SafeSpec /\ Fairness
-----------------------------------------------------------------------------
\* The user messages of a queue, and those on their way to p, oldest first.
Users(s) == LET first[n \in 0 .. Len(s)] ==
                  IF n = 0 THEN <<>>
                  ELSE IF s[n].type = "USER_PAYLOAD" THEN Append(first[n - 1], s[n])
                  ELSE first[n - 1]
            IN  first[Len(s)]
Unread(p) == Users(out[p]) \o pending[p] \o Users(wire[p])

\* Where a message that moved something to p still needs it.
Arriving(p) == {i \in Ids : \E k \in DOMAIN Unread(p) : Unread(p)[k] = User(i, TRUE)}
Using(p)    == {m.id : m \in {n \in held[p] : n.done}}
DonesTo(p)  == {i \in Ids : \E k \in DOMAIN wire[p] : wire[p][k] = Done(i)}
Unsent(p)   == {m.id : m \in {n \in sending[p] : n.done}}

(***************************************************************************)
(* What a message moves stays in scope in the sending process while the    *)
(* message waits, is on its way or is held by the other side, also while   *)
(* the sender is destroying its endpoint.                                  *)
(***************************************************************************)
PayloadsStayInScope ==
  \A p \in Peers : Unsent(p) \cup Arriving(Other(p)) \cup Using(Other(p)) \subseteq inTransit[p]

(***************************************************************************)
(* Until an endpoint has closed or a process has died, everything in       *)
(* transit is accounted for in exactly one place between the two           *)
(* processes: nothing is kept that no DONE will free, and no DONE is sent  *)
(* twice.                                                                  *)
(***************************************************************************)
TransitIsAccounted ==
  \A p \in Peers :
    LET q == Other(p)
        places == <<Unsent(p), Arriving(q), Using(q), acking[q], DonesTo(p)>>
    IN life[q] # "closed"
         => /\ inTransit[p] = UNION {places[k] : k \in DOMAIN places}
            /\ \A j, k \in DOMAIN places : j # k => places[j] \cap places[k] = {}

(***************************************************************************)
(* Once an endpoint's destructor has returned, the other process neither   *)
(* holds nor will receive a message whose payload is gone with it.         *)
(***************************************************************************)
NothingOutlivesItsSender ==
  \A p \in Peers : life[p] = "closed" => Arriving(Other(p)) \cup Using(Other(p)) = {}

\* The reader waits for room that only a user of the endpoint could make.
Stuck(p) == reader[p] = "emplace" /\ Len(out[p]) = MaxQueueSize

(***************************************************************************)
(* ~IPCMessageQueue returns, or its process ends with the timeout, unless  *)
(* its reader ends up waiting in emplace with more messages unread than    *)
(* the out queue holds: nobody calls recv_message any more, so it waits    *)
(* for ever, although the comment at ipc_message_queue_impl.hh:112 means   *)
(* to avoid a blocking shutdown; try_emplace does so for SHUTDOWN_QUEUES   *)
(* alone.  The users of the other endpoint let go of what they receive.    *)
(***************************************************************************)
DestructorReturns ==
  \A p \in Peers : (life[p] # "open") ~> (life[p] = "closed" \/ ~alive[p] \/ Stuck(p))

(***************************************************************************)
(* What a message moves is freed again, unless its receiver is destroyed   *)
(* or one of the processes ends: DONE messages get through past heartbeats *)
(* and user messages in both directions.                                   *)
(***************************************************************************)
PayloadsAreFreed ==
  \A p \in Peers : \A i \in 1 .. MaxMessages[p] :
    i \in inTransit[p]
      ~> i \notin inTransit[p] \/ life[Other(p)] # "open" \/ ~alive[p] \/ ~alive[Other(p)]

Channel == INSTANCE AckedChannel
             WITH Messages <- UserMessages,
                  closed <- {p \in Peers : life[p] = "closed"},
                  unread <- [p \in Peers |-> IF life[p] = "closed" THEN <<>> ELSE Unread(p)],
                  payloads <- inTransit

(***************************************************************************)
(* Wires, reader threads, the transferrable table and DONE messages        *)
(* implement a pair of FIFO channels with payloads that outlive their use. *)
(***************************************************************************)
ImplementsChannel == Channel!Spec
=============================================================================
