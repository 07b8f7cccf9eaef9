---------------------------- MODULE Multiprocess ----------------------------
(***************************************************************************)
(* Out-of-process execution (neuropod/multiprocess/): a                    *)
(* MultiprocessNeuropodBackend, the worker process that it spawns, and the *)
(* control channel between them, whose two ends each check the order of    *)
(* messages with a TransitionVerifier.                                     *)
(*                                                                         *)
(* The channel is AckedChannel, which IPCMessageQueue implements; a DONE   *)
(* on its way back is an id in acks.  Several threads may call infer and   *)
(* load_model at a time: nothing but the verifier keeps them apart.  The   *)
(* handlers of the worker may throw, either process may die, and a process *)
(* that hears no heartbeats is ended by its reader thread's exception.     *)
(*                                                                         *)
(* Assumed: five seconds (MESSAGE_TIMEOUT_MS) are longer than any step, so *)
(* a process is only silent for that long when it is gone or waits for     *)
(* something that does not come.                                           *)
(***************************************************************************)
EXTENDS Naturals, Sequences, FiniteSets

CONSTANTS Threads,   \* the threads of the main process that call the backend
          MaxCalls,  \* model bound: calls of infer and load_model, in total
          Throwing,  \* the messages whose handlers in the worker may throw
          Large,     \* the messages whose payload may not fit inline
          Mortal     \* the processes that may die at any moment

Peers == {"main", "worker"}
MessageType == {"LOAD_NEUROPOD", "LOAD_SUCCESS", "ADD_INPUT", "INFER", "RETURN_OUTPUT", "SHUTDOWN",
                "EXCEPTION"}
Calls == 1 .. MaxCalls

ASSUME CallsAssumption    == MaxCalls \in Nat
ASSUME ThrowingAssumption == Throwing \subseteq {"LOAD_NEUROPOD", "ADD_INPUT", "INFER"}

\* A message about a call, sent because of a message of type cause.  done is
\* requires_done_msg; from is the calls whose inputs went into an output.
Msg(type, call, cause, done, from) ==
  [id |-> <<type, call, cause>>, done |-> done, from |-> from]
Type(m) == m.id[1]
Call(m) == m.id[2]

Messages == {Msg(t, i, c, d, f) : t \in MessageType, i \in 0 .. MaxCalls, c \in MessageType,
                                  d \in BOOLEAN, f \in SUBSET Calls}

\* A payload that moves tensors always needs a DONE, a large one because it is
\* sent in a block of shared memory.
NeedsDone(type) == IF type \in {"ADD_INPUT", "RETURN_OUTPUT"} THEN {TRUE}
                   ELSE {FALSE} \cup {type \in Large}

VARIABLES unread, held, payloads, closed,   \* the channel
          acks,      \* the ids whose DONE is on its way to each end
          last,      \* last_type_ of each verifier, or "none"
          main,      \* how far the backend's constructor or destructor is
          loaded,    \* is_model_loaded_
          calls,     \* how many calls were made
          client,    \* the call that each thread is in
          worker,    \* the worker loop: where it is, what it received, its answer
          inputs     \* the calls whose inputs are in the worker's map

channel == <<unread, held, payloads, closed>>
vars == <<channel, acks, last, main, loaded, calls, client, worker, inputs>>

Chan == INSTANCE AckedChannel

Nothing == Msg("SHUTDOWN", 0, "SHUTDOWN", FALSE, {})
Idle    == [at |-> "idle", op |-> "infer", call |-> 0, msg |-> Nothing]
At(t, l) == client' = [client EXCEPT ![t].at = l]
WorkerAt(l) == worker' = [worker EXCEPT !.at = l]

\* The ways in which the worker process ends.
Ended == {"exited", "rejected", "timedout", "crashed"}

TypeOK ==
  /\ DOMAIN unread = Peers /\ DOMAIN held = Peers /\ DOMAIN payloads = Peers /\ DOMAIN acks = Peers
  /\ \A p \in Peers : /\ \A k \in DOMAIN unread[p] : unread[p][k] \in Messages
                      /\ held[p] \subseteq Messages
                      /\ acks[p] \subseteq payloads[p]
                      /\ payloads[p] \subseteq {m.id : m \in Messages}
  /\ closed \subseteq Peers
  /\ last \in [Peers -> MessageType \cup {"none"}]
  /\ main \in {"constructing", "open", "shutdown", "waiting", "closing", "closed", "dead"}
  /\ loaded \in BOOLEAN
  /\ calls \in 0 .. MaxCalls
  /\ client \in [Threads -> [at : {"idle", "verify", "keep", "send", "recv", "accepted", "rejected"},
                             op : {"load", "infer"}, call : 0 .. MaxCalls, msg : Messages]]
  /\ worker \in [at : {"recv", "handle", "keep", "send", "bottom", "destroy"} \cup Ended,
                 got : Messages, reply : Messages]
  /\ inputs \subseteq Calls

Init == /\ Chan!Init
        /\ acks = [p \in Peers |-> {}]
        /\ last = [p \in Peers |-> "none"]
        /\ main \in {"constructing", "open"}   \* load_model_at_construction or not
        /\ loaded = FALSE
        /\ calls = 0
        /\ client = [t \in Threads |-> Idle]
        /\ worker = [at |-> "recv", got |-> Nothing, reply |-> Nothing]
        /\ inputs = {}
-----------------------------------------------------------------------------
\* Defect: a call may follow one that got no output.
RetryTransitions == {<<"none", "LOAD_NEUROPOD">>,
                     <<"LOAD_NEUROPOD", "LOAD_SUCCESS">>, <<"LOAD_SUCCESS", "ADD_INPUT">>,
                     <<"LOAD_SUCCESS", "LOAD_NEUROPOD">>, <<"ADD_INPUT", "INFER">>,
                     <<"INFER", "RETURN_OUTPUT">>, <<"RETURN_OUTPUT", "ADD_INPUT">>,
                     <<"RETURN_OUTPUT", "LOAD_NEUROPOD">>, <<"INFER", "ADD_INPUT">>}

\* allowed_transitions, and LOAD_NEUROPOD as the first message.
Transitions == {<<"none", "LOAD_NEUROPOD">>,
                <<"LOAD_NEUROPOD", "LOAD_SUCCESS">>, <<"LOAD_SUCCESS", "ADD_INPUT">>,
                <<"LOAD_SUCCESS", "LOAD_NEUROPOD">>, <<"ADD_INPUT", "INFER">>,
                <<"INFER", "RETURN_OUTPUT">>, <<"RETURN_OUTPUT", "ADD_INPUT">>,
                <<"RETURN_OUTPUT", "LOAD_NEUROPOD">>}

AlwaysAllowed == {"SHUTDOWN", "EXCEPTION"}

\* assert_transition_allowed throws unless this holds.
Allowed(p, type) == type \in AlwaysAllowed \/ <<last[p], type>> \in Transitions

\* Defect: an exception starts the protocol over.
PassedOrReset(p, type) == CASE type = "SHUTDOWN"  -> last
                            [] type = "EXCEPTION" -> [last EXCEPT ![p] = "RETURN_OUTPUT"]
                            [] OTHER              -> [last EXCEPT ![p] = type]

\* last_type_ after a message that is allowed.
Passed(p, type) == IF type \in AlwaysAllowed THEN last ELSE [last EXCEPT ![p] = type]

\* Defect: every message is acknowledged.
LetGoAcksEverything(p, m) ==
  /\ Chan!Release(p, m)
  /\ acks' = [acks EXCEPT ![Chan!Other(p)] = @ \cup {m.id}]

\* The deleter of a received message.
LetGo(p, m) ==
  /\ Chan!Release(p, m)
  /\ acks' = IF m.done THEN [acks EXCEPT ![Chan!Other(p)] = @ \cup {m.id}] ELSE acks

\* p's reader thread gets a DONE.
Done(p, i) == /\ IF p = "main" THEN main \notin {"closed", "dead"} ELSE worker.at \notin Ended
              /\ i \in acks[p]
              /\ Chan!Free(p, i)
              /\ acks' = [acks EXCEPT ![p] = @ \ {i}]
              /\ UNCHANGED <<last, main, loaded, calls, client, worker, inputs>>
-----------------------------------------------------------------------------
Busy == main \in {"constructing", "open"}   \* the backend can be used, by its constructor at least

Begin(t, op, type) ==
  /\ client[t].at = "idle" /\ calls < MaxCalls
  /\ calls' = calls + 1
  /\ \E d \in NeedsDone(type) :
       client' = [client EXCEPT ![t] = [at |-> "verify", op |-> op, call |-> calls + 1,
                                        msg |-> Msg(type, calls + 1, type, d, {})]]
  /\ UNCHANGED <<channel, acks, last, main, loaded, worker, inputs>>

\* load_model, by the constructor or by a user.  It throws if the model is loaded.
LoadModel(t) == /\ main = "open" \/ (main = "constructing" /\ calls = 0)
                /\ ~loaded
                /\ Begin(t, "load", "LOAD_NEUROPOD")

\* infer, up to infer_internal.  It throws unless the model is loaded.
Infer(t) == /\ main = "open" /\ loaded
            /\ Begin(t, "infer", "ADD_INPUT")

\* A call throws.  If it is the constructor's, the members of the backend are
\* destroyed and the destructor does not run.
Throw(t) == /\ client' = [client EXCEPT ![t] = Idle]
            /\ main' = IF main = "constructing" THEN "closing" ELSE main

\* send_message: the verifier first, then the queue.
Verify(t) ==
  LET m == client[t].msg IN
  /\ Busy /\ client[t].at = "verify"
  /\ \/ /\ Allowed("main", Type(m))
        /\ last' = Passed("main", Type(m))
        /\ At(t, IF m.done THEN "keep" ELSE "send")
        /\ UNCHANGED main
     \/ /\ ~Allowed("main", Type(m))
        /\ Throw(t)
        /\ UNCHANGED last
  /\ UNCHANGED <<channel, acks, loaded, calls, worker, inputs>>

Keep(t) == /\ Busy /\ client[t].at = "keep"
           /\ Chan!Keep("main", client[t].msg.id)
           /\ At(t, "send")
           /\ UNCHANGED <<acks, last, main, loaded, calls, worker, inputs>>

\* After its ADD_INPUT, infer_internal sends an INFER, and then waits.
Send(t) ==
  LET m == client[t].msg IN
  /\ Busy /\ client[t].at = "send"
  /\ Chan!Send("main", m)
  /\ \/ /\ Type(m) = "ADD_INPUT"
        /\ \E d \in NeedsDone("INFER") :
             client' = [client EXCEPT ![t].at = "verify",
                                      ![t].msg = Msg("INFER", Call(m), "INFER", d, {})]
     \/ /\ Type(m) # "ADD_INPUT"
        /\ At(t, "recv")
  /\ UNCHANGED <<acks, last, main, loaded, calls, worker, inputs>>

\* recv_message: the verifier sees what was received.
Recv(t) ==
  LET m == Head(unread["main"]) IN
  /\ Busy /\ client[t].at = "recv"
  /\ Chan!Receive("main")
  /\ client' = [client EXCEPT ![t].at = IF Allowed("main", Type(m)) THEN "accepted" ELSE "rejected",
                              ![t].msg = m]
  /\ last' = IF Allowed("main", Type(m)) THEN Passed("main", Type(m)) ELSE last
  /\ UNCHANGED <<acks, main, loaded, calls, worker, inputs>>

Succeeds(c) == /\ c.at = "accepted"
               /\ Type(c.msg) = IF c.op = "load" THEN "LOAD_SUCCESS" ELSE "RETURN_OUTPUT"

\* The end of a call: what it received goes out of scope.
Return(t) ==
  LET c == client[t] IN
  /\ Busy /\ c.at \in {"accepted", "rejected"}
  /\ LetGo("main", c.msg)
  /\ \/ /\ Succeeds(c)
        /\ client' = [client EXCEPT ![t] = Idle]
        /\ main' = "open"
        /\ loaded' = (loaded \/ c.op = "load")
     \/ /\ ~Succeeds(c)
        /\ Throw(t)
        /\ UNCHANGED loaded
  /\ UNCHANGED <<last, calls, worker, inputs>>
-----------------------------------------------------------------------------
\* ~MultiprocessNeuropodBackend, once no thread uses the backend.
Destroy == /\ main = "open" /\ \A t \in Threads : client[t].at = "idle"
           /\ main' = "shutdown"
           /\ UNCHANGED <<channel, acks, last, loaded, calls, client, worker, inputs>>

SendShutdown == /\ main = "shutdown"
                /\ Chan!Send("main", Nothing)
                /\ main' = "waiting"
                /\ UNCHANGED <<acks, last, loaded, calls, client, worker, inputs>>

\* waitpid returns.
Reap == /\ main = "waiting" /\ worker.at \in Ended
        /\ main' = "closing"
        /\ UNCHANGED <<channel, acks, last, loaded, calls, client, worker, inputs>>

\* The destructor of the queue waits for the DONE of all it has sent.
Close == /\ main = "closing" /\ payloads["main"] = {}
         /\ Chan!Close("main")
         /\ main' = "closed"
         /\ UNCHANGED <<acks, last, loaded, calls, client, worker, inputs>>
-----------------------------------------------------------------------------
\* An error in recv_message is outside of the loop's try block.
WorkerRecv ==
  LET m == Head(unread["worker"]) IN
  /\ worker.at = "recv"
  /\ Chan!Receive("worker")
  /\ worker' = [at |-> IF Allowed("worker", Type(m)) THEN "handle" ELSE "rejected",
                got |-> m, reply |-> Nothing]
  /\ last' = IF Allowed("worker", Type(m)) THEN Passed("worker", Type(m)) ELSE last
  /\ UNCHANGED <<acks, main, loaded, calls, client, inputs>>

\* send_message in the worker.  The verifier's exception is caught like any other
\* and, like them, sent back.
Answer(type, from) ==
  LET got == worker.got
      t   == IF Allowed("worker", type) THEN type ELSE "EXCEPTION"
  IN /\ last' = Passed("worker", t)
     /\ \E d \in NeedsDone(t) :
          worker' = [worker EXCEPT !.at = IF d THEN "keep" ELSE "send",
                                   !.reply = Msg(t, Call(got), Type(got), d, from)]

\* The body of the try block, up to the sending of an answer.  The main process
\* sends no other type, so the "Unhandled message type" branch has no action.
HandleLoad == /\ Type(worker.got) = "LOAD_NEUROPOD"
              /\ inputs' = {}
              /\ Answer("LOAD_SUCCESS", {})

HandleAddInput == /\ Type(worker.got) = "ADD_INPUT"
                  /\ inputs' = inputs \cup {Call(worker.got)}
                  /\ WorkerAt("bottom")
                  /\ UNCHANGED last

HandleInfer == /\ Type(worker.got) = "INFER"
               /\ Answer("RETURN_OUTPUT", inputs)
               /\ UNCHANGED inputs

\* Defect: only an exception of a load is sent back.
HandleThrowsQuietly == /\ Type(worker.got) \in Throwing
                       /\ UNCHANGED inputs
                       /\ IF Type(worker.got) = "LOAD_NEUROPOD" THEN Answer("EXCEPTION", {})
                          ELSE WorkerAt("bottom") /\ UNCHANGED last

\* A handler throws; that of ADD_INPUT may have added some of the inputs.
HandleThrows == /\ Type(worker.got) \in Throwing
                /\ \/ UNCHANGED inputs
                   \/ /\ Type(worker.got) = "ADD_INPUT"
                      /\ inputs' = inputs \cup {Call(worker.got)}
                /\ Answer("EXCEPTION", {})

Handle == /\ worker.at = "handle"
          /\ HandleLoad \/ HandleAddInput \/ HandleInfer \/ HandleThrows
          /\ UNCHANGED <<channel, acks, main, loaded, calls, client>>

\* SHUTDOWN leaves the loop and destroys the control channel.
HandleShutdown == /\ worker.at = "handle" /\ Type(worker.got) = "SHUTDOWN"
                  /\ LetGo("worker", worker.got)
                  /\ WorkerAt("destroy")
                  /\ UNCHANGED <<last, main, loaded, calls, client, inputs>>

WorkerKeep == /\ worker.at = "keep"
              /\ Chan!Keep("worker", worker.reply.id)
              /\ WorkerAt("send")
              /\ UNCHANGED <<acks, last, main, loaded, calls, client, inputs>>

\* The inputs are cleared after an output was sent.
WorkerSend == /\ worker.at = "send"
              /\ Chan!Send("worker", worker.reply)
              /\ inputs' = IF Type(worker.reply) = "RETURN_OUTPUT" THEN {} ELSE inputs
              /\ WorkerAt("bottom")
              /\ UNCHANGED <<acks, last, main, loaded, calls, client>>

\* The bottom of the loop: what was received goes out of scope.
WorkerBottom == /\ worker.at = "bottom"
                /\ LetGo("worker", worker.got)
                /\ worker' = [at |-> "recv", got |-> Nothing, reply |-> Nothing]
                /\ UNCHANGED <<last, main, loaded, calls, client, inputs>>

WorkerClose == /\ worker.at = "destroy" /\ payloads["worker"] = {}
               /\ Chan!Close("worker")
               /\ WorkerAt("exited")
               /\ UNCHANGED <<acks, last, main, loaded, calls, client, inputs>>
-----------------------------------------------------------------------------
\* An end of the channel waits for a DONE that nobody will send.
Stuck(p) == payloads[p] \ acks[p] # {}

\* Once its heartbeats have stopped, a process is silent.
WorkerSilent == \/ worker.at \in Ended \ {"exited"}
                \/ worker.at \in {"destroy", "exited"} /\ \E p \in Peers : Stuck(p)
MainSilent   == main \in {"closed", "dead"}

\* A reader thread's exception ends its process.
MainTimeout == /\ ~MainSilent /\ WorkerSilent
               /\ main' = "dead"
               /\ UNCHANGED <<channel, acks, last, loaded, calls, client, worker, inputs>>

\* Defect: only a worker that waits for a message notices.
WorkerTimeoutInLoop == /\ MainSilent /\ worker.at = "recv"
                       /\ WorkerAt("timedout")
                       /\ UNCHANGED <<channel, acks, last, main, loaded, calls, client, inputs>>

WorkerTimeout == /\ MainSilent /\ worker.at \notin Ended
                 /\ WorkerAt("timedout")
                 /\ UNCHANGED <<channel, acks, last, main, loaded, calls, client, inputs>>

MainCrash == /\ "main" \in Mortal /\ ~MainSilent
             /\ main' = "dead"
             /\ UNCHANGED <<channel, acks, last, loaded, calls, client, worker, inputs>>

WorkerCrash == /\ "worker" \in Mortal /\ worker.at \notin Ended
               /\ WorkerAt("crashed")
               /\ UNCHANGED <<channel, acks, last, main, loaded, calls, client, inputs>>
-----------------------------------------------------------------------------
ClientStep(t)  == Verify(t) \/ Keep(t) \/ Send(t) \/ Recv(t) \/ Return(t)
DestructorStep == SendShutdown \/ Reap \/ Close \/ MainTimeout
WorkerStep     == \/ WorkerRecv \/ Handle \/ HandleShutdown \/ WorkerKeep \/ WorkerSend
                  \/ WorkerBottom \/ WorkerClose \/ WorkerTimeout
DoneStep       == \E p \in Peers : \E i \in acks[p] : Done(p, i)

Next == \/ \E t \in Threads : LoadModel(t) \/ Infer(t) \/ ClientStep(t)
        \/ Destroy \/ DestructorStep
        \/ WorkerStep \/ DoneStep
        \/ MainCrash \/ WorkerCrash

(***************************************************************************)
(* A call, a destructor, the worker and the reader threads go on when they *)
(* can.  Nobody has to call anything, and no process has to die.           *)
(***************************************************************************)
Fairness == /\ \A t \in Threads : WF_vars(ClientStep(t))
            /\ WF_vars(DestructorStep)
            /\ WF_vars(WorkerStep)
            /\ WF_vars(DoneStep)

SafeSpec == Init /\ [][Next]_vars
Spec     == SafeSpec /\ Fairness
-----------------------------------------------------------------------------
(***************************************************************************)
(* What a call receives is the answer to that call and not an earlier one, *)
(* and an output was computed from no other call's inputs, whatever threw  *)
(* before and however threads interleave (infer_internal, the worker's     *)
(* inputs map).                                                            *)
(***************************************************************************)
AnswersMatch ==
  \A t \in Threads : client[t].at = "accepted" =>
    /\ Call(client[t].msg) = client[t].call
    /\ client[t].msg.from \subseteq {client[t].call}

(***************************************************************************)
(* At most one thread waits in recv_message, which is not thread safe: the *)
(* verifier turns away every concurrent call before it gets there.         *)
(***************************************************************************)
SingleReceiver == Cardinality({t \in Threads : client[t].at = "recv"}) <= 1

(***************************************************************************)
(* The worker's verifier never sees a transition that it rejects, which    *)
(* would end the worker: what the main process's verifier lets pass, and   *)
(* the worker's own answers, keep the two in step.                         *)
(***************************************************************************)
WorkerNeverRejects == worker.at # "rejected"

(***************************************************************************)
(* Neither direction holds more than two messages that nobody has          *)
(* received, so that no out_queue_ (MAX_QUEUE_SIZE 20) fills up.           *)
(***************************************************************************)
BacklogIsBounded == \A p \in Peers : Len(unread[p]) <= 2

(***************************************************************************)
(* The process that uses the backend is not ended by it.                   *)
(***************************************************************************)
MainSurvives == main # "dead"

(***************************************************************************)
(* Every call returns or throws, or the main process ends: a call that     *)
(* waits for an answer gets one, and the destructor outlasts the worker.   *)
(***************************************************************************)
CallsReturn ==
  /\ \A t \in Threads : (client[t].at # "idle") ~> (client[t].at = "idle" \/ main = "dead")
  /\ (main = "shutdown") ~> (main \in {"closed", "dead"})

(***************************************************************************)
(* When the main process has gone or closed its channel, in whatever state *)
(* the worker was, the worker process ends too.                            *)
(***************************************************************************)
NoOrphanWorker == (main \in {"closed", "dead"}) ~> (worker.at \in Ended)
=============================================================================
