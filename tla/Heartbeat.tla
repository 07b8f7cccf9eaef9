----------------------------- MODULE Heartbeat -----------------------------
(***************************************************************************)
(* HeartbeatController (neuropod/multiprocess/mq/heartbeat.hh) in one      *)
(* process, and in the other one the read thread that expects its          *)
(* heartbeats (IPCMessageQueue::read_worker_loop), with a discrete clock.  *)
(*                                                                         *)
(* The controller's thread sends, and then waits on a condition variable   *)
(* until the interval has passed or its destructor has cleared             *)
(* send_heartbeat_.  Only heartbeats are in the wire here: other messages  *)
(* can only make the read thread's wait shorter.  Slack bounds the time    *)
(* that the thread, when it could run, takes from one wait to the next,    *)
(* its send included, and Startup the time from the creation of the read   *)
(* thread to that of the heartbeat thread in the other process.            *)
(***************************************************************************)
EXTENDS Naturals

CONSTANTS Interval,  \* HEARTBEAT_INTERVAL_MS
          Timeout,   \* MESSAGE_TIMEOUT_MS
          Slack,     \* environment: how late the heartbeat thread may be
          Startup    \* environment: how late the other process may start

\* The static_assert, and the types.
ASSUME TimeAssumption == /\ Interval \in Nat /\ Timeout \in Nat /\ Slack \in Nat /\ Startup \in Nat
                         /\ Timeout > Interval

\* What the environment has to grant besides.
ASSUME SlackAssumption == Interval + 2 * Slack < Timeout /\ Startup + Slack < Timeout

VARIABLES sender,    \* the heartbeat thread
          mutex,     \* who holds mutex_
          on,        \* send_heartbeat_
          woken,     \* whether the waiting thread was notified
          slept,     \* how long ago wait_for was called
          lag,       \* how long the heartbeat thread has been able to run
          stop,      \* the destructor: not called, before notify_all, in join
          joining,   \* how long it has been in join
          unread,    \* whether the wire holds a heartbeat
          reader,    \* the read thread: in timed_receive, or it threw
          wait       \* how long ago timed_receive was called, up to Timeout

thread == <<sender, mutex, woken, slept, lag>>
heartbeatVars == <<thread, on, stop, joining, unread, reader, wait>>

InWaitFor == {"sleep", "waiting", "relock"}
Gone == {"exited", "dead"}

HeartbeatTypeOK == /\ sender \in {"start", "test", "send", "lock", "check"} \cup InWaitFor \cup Gone
                   /\ mutex \in {"free", "thread"}
                   /\ mutex = "thread" => sender \in {"check", "sleep", "dead"}
                   /\ sender \in {"check", "sleep"} => mutex = "thread"
                   /\ on \in BOOLEAN /\ woken \in BOOLEAN
                   /\ slept \in Nat /\ lag \in Nat /\ joining \in Nat
                   /\ stop \in {"no", "notify", "join"}
                   /\ unread \in BOOLEAN
                   /\ reader \in {"receiving", "threw"}
                   /\ wait \in Nat /\ wait <= Timeout

HeartbeatInit == /\ sender = "start" /\ mutex = "free" /\ on = TRUE /\ woken = FALSE
                 /\ slept = 0 /\ lag = 0 /\ stop = "no" /\ joining = 0
                 /\ unread = FALSE /\ reader = "receiving" /\ wait = 0
-----------------------------------------------------------------------------
Start == /\ sender = "start"
         /\ sender' = "test" /\ lag' = 0
         /\ UNCHANGED <<mutex, woken, slept, on, stop, joining, unread, reader, wait>>

\* while (send_heartbeat_)
Test == /\ sender = "test"
        /\ sender' = IF on THEN "send" ELSE "exited"
        /\ UNCHANGED <<mutex, woken, slept, lag, on, stop, joining, unread, reader, wait>>

Send == /\ sender = "send"
        /\ sender' = "lock" /\ unread' = TRUE
        /\ UNCHANGED <<mutex, woken, slept, lag, on, stop, joining, reader, wait>>

Lock == /\ sender = "lock" /\ mutex = "free"
        /\ sender' = "check" /\ mutex' = "thread"
        /\ UNCHANGED <<woken, slept, lag, on, stop, joining, unread, reader, wait>>

\* Defect: the lock is kept when wait_for need not wait.
CheckKeepsLock == /\ sender = "check"
                  /\ slept' = 0
                  /\ sender' = IF on THEN "sleep" ELSE "test"
                  /\ UNCHANGED <<mutex, woken, lag, on, stop, joining, unread, reader, wait>>

\* wait_for looks at its predicate before it waits.
Check == /\ sender = "check"
         /\ slept' = 0
         /\ \/ /\ on
               /\ sender' = "sleep"
               /\ UNCHANGED mutex
            \/ /\ ~on
               /\ sender' = "test" /\ mutex' = "free"
         /\ UNCHANGED <<woken, lag, on, stop, joining, unread, reader, wait>>

\* It gives up the lock and waits, in one step.
Sleep == /\ sender = "sleep"
         /\ sender' = "waiting" /\ mutex' = "free" /\ woken' = FALSE
         /\ UNCHANGED <<slept, lag, on, stop, joining, unread, reader, wait>>

\* notify_all, the end of the interval, or nothing at all wakes it up.
Wake == /\ sender = "waiting"
        /\ sender' = "relock"
        /\ UNCHANGED <<mutex, woken, slept, lag, on, stop, joining, unread, reader, wait>>

\* With the lock again it returns, or waits for the rest of the interval.
Relock == /\ sender = "relock" /\ mutex = "free"
          /\ \/ /\ ~on \/ slept >= Interval
                /\ sender' = "test"
                /\ UNCHANGED mutex
             \/ /\ on /\ slept < Interval
                /\ sender' = "sleep" /\ mutex' = "thread"
          /\ UNCHANGED <<woken, slept, lag, on, stop, joining, unread, reader, wait>>

\* The sending process dies.
Die == /\ sender \notin Gone
       /\ sender' = "dead"
       /\ UNCHANGED <<mutex, woken, slept, lag, on, stop, joining, unread, reader, wait>>
-----------------------------------------------------------------------------
\* Defect: send_heartbeat_ is cleared without the lock.
ClearUnlocked == /\ stop = "no" /\ sender # "dead" /\ sender # "start"
                 /\ on' = FALSE /\ stop' = "notify"
                 /\ UNCHANGED <<thread, joining, unread, reader, wait>>

\* ~HeartbeatController: its critical section, then notify_all, then join.
Clear == /\ stop = "no" /\ sender # "dead" /\ sender # "start"
         /\ mutex = "free"
         /\ on' = FALSE /\ stop' = "notify"
         /\ UNCHANGED <<thread, joining, unread, reader, wait>>

Notify == /\ stop = "notify" /\ sender # "dead"
          /\ stop' = "join"
          /\ woken' = (woken \/ sender = "waiting")
          /\ UNCHANGED <<sender, mutex, slept, lag, on, joining, unread, reader, wait>>
-----------------------------------------------------------------------------
\* Defect: the deadline is not computed for each message.
ReadKeepsDeadline == /\ reader = "receiving" /\ unread
                     /\ unread' = FALSE
                     /\ UNCHANGED <<thread, on, stop, joining, reader, wait>>

\* timed_receive returns a heartbeat, and is called again with a new deadline.
Read == /\ reader = "receiving" /\ unread
        /\ unread' = FALSE /\ wait' = 0
        /\ UNCHANGED <<thread, on, stop, joining, reader>>

\* Defect: receive instead of timed_receive.
NeverGiveUp == /\ reader = "receiving" /\ ~unread /\ wait > Timeout
               /\ reader' = "threw"
               /\ UNCHANGED <<thread, on, stop, joining, unread, wait>>

\* timed_receive fails only if there is nothing at its deadline.
GiveUp == /\ reader = "receiving" /\ ~unread /\ wait = Timeout
          /\ reader' = "threw"
          /\ UNCHANGED <<thread, on, stop, joining, unread, wait>>
-----------------------------------------------------------------------------
CanRun == sender \notin Gone /\ (sender = "waiting" => woken \/ slept >= Interval)

Tick == /\ CanRun => lag < (IF sender = "start" THEN Startup ELSE Slack)
        /\ lag' = IF CanRun THEN lag + 1 ELSE 0
        /\ slept' = IF sender \in InWaitFor THEN slept + 1 ELSE slept
        /\ joining' = IF stop = "join" /\ sender \notin Gone THEN joining + 1 ELSE joining
        /\ wait' = IF wait < Timeout THEN wait + 1 ELSE wait
        /\ UNCHANGED <<sender, mutex, on, woken, stop, unread, reader>>

ThreadStep == Start \/ Test \/ Send \/ Lock \/ Check \/ Sleep \/ Wake \/ Relock
ReaderStep == Read \/ GiveUp

HeartbeatNext == ThreadStep \/ Die \/ Clear \/ Notify \/ ReaderStep \/ Tick

\* Time passes, and the read thread does what it can.
HeartbeatSpec == HeartbeatInit /\ [][HeartbeatNext]_heartbeatVars /\ WF_heartbeatVars(Tick) /\ WF_heartbeatVars(ReaderStep)
-----------------------------------------------------------------------------
(***************************************************************************)
(* The read thread does not give up on a process that is alive and has not *)
(* stopped its heartbeats (the static_assert's purpose).                   *)
(***************************************************************************)
NoFalseTimeout == sender \notin Gone /\ on => reader = "receiving"

(***************************************************************************)
(* The destructor does not wait for the rest of the interval: a heartbeat  *)
(* thread that is about to wait does not miss its notification.            *)
(***************************************************************************)
JoinIsPrompt == stop = "join" /\ sender \notin Gone => joining <= Slack

(***************************************************************************)
(* The death of a process, or the end of its heartbeats, is noticed.       *)
(***************************************************************************)
SilenceIsNoticed == (sender \in Gone) ~> (reader = "threw")
=============================================================================
