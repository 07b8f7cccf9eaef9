---------------------------- MODULE AckedChannel ----------------------------
(***************************************************************************)
(* What an IPCMessageQueue (neuropod/multiprocess/mq/) promises its users, *)
(* with no threads, wires or acknowledgements: each direction is a FIFO    *)
(* channel, and what is moved with a message stays in scope until the      *)
(* receiver has let go of the message.  IPCMessageQueue is shown to        *)
(* implement it.                                                           *)
(***************************************************************************)
EXTENDS Naturals, Sequences

CONSTANTS Peers,      \* the two endpoints
          Messages    \* messages: records with an id and whether they move a payload (done)

VARIABLES unread,     \* the messages that each endpoint will receive, in order
          held,       \* the messages that each endpoint's user has in scope
          payloads,   \* the ids of the messages whose payloads each endpoint keeps alive
          closed      \* the endpoints that were destroyed

vars == <<unread, held, payloads, closed>>

Other(p) == CHOOSE q \in Peers : q # p

Init == /\ unread = [p \in Peers |-> <<>>]
        /\ held = [p \in Peers |-> {}]
        /\ payloads = [p \in Peers |-> {}]
        /\ closed = {}

\* A payload is kept before its message can be seen.
Keep(p, i) == /\ payloads' = [payloads EXCEPT ![p] = @ \cup {i}]
              /\ UNCHANGED <<unread, held, closed>>

\* Nobody receives what is sent to a closed endpoint.
Send(p, m) == /\ m.done => m.id \in payloads[p]
              /\ unread' = IF Other(p) \in closed THEN unread
                           ELSE [unread EXCEPT ![Other(p)] = Append(@, m)]
              /\ UNCHANGED <<held, payloads, closed>>

Receive(p) == /\ unread[p] # <<>>
              /\ held' = [held EXCEPT ![p] = @ \cup {Head(unread[p])}]
              /\ unread' = [unread EXCEPT ![p] = Tail(@)]
              /\ UNCHANGED <<payloads, closed>>

Release(p, m) == /\ m \in held[p]
                 /\ held' = [held EXCEPT ![p] = @ \ {m}]
                 /\ UNCHANGED <<unread, payloads, closed>>

\* A payload is freed only when its message is not on its way and not held.
Free(p, i) ==
  /\ i \in payloads[p]
  /\ \A m \in held[Other(p)] : m.done => m.id # i
  /\ \A k \in DOMAIN unread[Other(p)] : unread[Other(p)][k].done => unread[Other(p)][k].id # i
  /\ payloads' = [payloads EXCEPT ![p] = @ \ {i}]
  /\ UNCHANGED <<unread, held, closed>>

\* An endpoint that closes drops what nobody received.
Close(p) == /\ held[p] = {}
            /\ unread' = [unread EXCEPT ![p] = <<>>]
            /\ closed' = closed \cup {p}
            /\ UNCHANGED <<held, payloads>>

Next == \E p \in Peers : \/ Receive(p)
                         \/ Close(p)
                         \/ \E m \in Messages : Keep(p, m.id) \/ Send(p, m) \/ Release(p, m)
                                                              \/ Free(p, m.id)

Spec == Init /\ [][Next]_vars
=============================================================================
