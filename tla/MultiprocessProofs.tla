------------------------- MODULE MultiprocessProofs -------------------------
(***************************************************************************)
(* Theorems about Multiprocess, for any number of threads and calls,       *)
(* whichever handlers throw and whichever process dies when: the types,    *)
(* and that the two verifiers keep the two processes in step.              *)
(***************************************************************************)
EXTENDS Multiprocess, SequenceTheorems, FiniteSetTheorems, TLAPS

Ids == {m.id : m \in Messages}

ClientStates == [at : {"idle", "verify", "keep", "send", "recv", "accepted", "rejected"},
                 op : {"load", "infer"}, call : 0 .. MaxCalls, msg : Messages]
WorkerStates == [at : {"recv", "handle", "keep", "send", "bottom", "destroy"} \cup Ended,
                 got : Messages, reply : Messages]

\* The types, with sequences as sequences.
ChannelTypes ==
  /\ unread \in [Peers -> Seq(Messages)]
  /\ held \in [Peers -> SUBSET Messages]
  /\ payloads \in [Peers -> SUBSET Ids]
  /\ acks \in [Peers -> SUBSET Ids]
  /\ closed \subseteq Peers

ControlTypes ==
  /\ last \in [Peers -> MessageType \cup {"none"}]
  /\ main \in {"constructing", "open", "shutdown", "waiting", "closing", "closed", "dead"}
  /\ loaded \in BOOLEAN
  /\ calls \in 0 .. MaxCalls
  /\ client \in [Threads -> ClientStates]
  /\ worker \in WorkerStates
  /\ inputs \subseteq Calls

\* What needs a DONE is kept by its sender until the DONE is back.
Acked ==
  \A p, q \in Peers : p # q =>
    /\ acks[p] \subseteq payloads[p]
    /\ \A m \in held[q] : m.done => m.id \in payloads[p]
    /\ \A k \in DOMAIN unread[q] : unread[q][k].done => unread[q][k].id \in payloads[p]

-----------------------------------------------------------------------------
\* A queue whose last message may be SHUTDOWN.
Stops(s) == \E k \in DOMAIN s : Type(s[k]) = "SHUTDOWN"
Count(s) == IF Stops(s) THEN Len(s) - 1 ELSE Len(s)
StopsLast(s) == \A k \in DOMAIN s : Type(s[k]) = "SHUTDOWN" => k = Len(s)

ToWorker == unread["worker"]
ToMain   == unread["main"]
Sent     == last["main"]      \* how far the main process's verifier is
Seen     == last["worker"]    \* and the worker's

Requests  == {"LOAD_NEUROPOD", "ADD_INPUT", "INFER"}
Successes == {"LOAD_SUCCESS", "RETURN_OUTPUT"}
Answers   == Successes \cup {"EXCEPTION"}
Rest      == Successes \cup {"none"}

\* A thread is in a conversation with the worker once the verifier has let its
\* message pass, until it has received something.
Posting(t) == client[t].at \in {"keep", "send"}
Between(t) == client[t].at = "verify" /\ Type(client[t].msg) = "INFER"
Waiting(t) == client[t].at = "recv"
Acting(t)  == Posting(t) \/ Between(t) \/ Waiting(t)

\* There is one conversation at a time, and the verifier says how far it is.
Clients ==
  /\ \A t, u \in Threads : Acting(t) /\ Acting(u) => t = u
  /\ \A t \in Threads :
       /\ client[t].at = "verify" \/ Posting(t)
            => /\ Type(client[t].msg) \in Requests
               /\ Call(client[t].msg) = client[t].call /\ client[t].call # 0
       /\ Posting(t) => Sent = Type(client[t].msg)
       /\ Between(t) => Sent = "ADD_INPUT"
       /\ Waiting(t) => Sent \in {"LOAD_NEUROPOD", "INFER"}

\* SHUTDOWN is the last message that the main process sends.
Over == main \notin {"constructing", "open", "shutdown"}

Shutdowns ==
  /\ StopsLast(ToWorker)
  /\ Stops(ToWorker) => Over /\ Count(ToWorker) <= 1
  /\ main \in {"shutdown", "waiting"} => \A t \in Threads : client[t].at = "idle"
  /\ worker.at = "handle" /\ Type(worker.got) = "SHUTDOWN" => ToWorker = <<>> /\ Over
  /\ worker.at \in {"destroy", "exited"} => ToWorker = <<>> /\ Over
  /\ "worker" \in closed => worker.at = "exited"

\* What the worker still has to answer, and the answers on their way.
Handling == worker.at = "handle" /\ Type(worker.got) # "SHUTDOWN"
Replying == worker.at \in {"keep", "send"}
Open     == Count(ToWorker) + (IF Handling THEN 1 ELSE 0) + (IF Replying THEN 1 ELSE 0) + Len(ToMain)

\* How many answers there may still be, seen from the main process.
Owed == IF Sent = "INFER" THEN IF \E t \in Threads : Waiting(t) THEN 2 ELSE 1
        ELSE IF \/ Sent = "LOAD_NEUROPOD" /\ \E t \in Threads : Waiting(t)
                \/ Sent = "ADD_INPUT" /\ \E t \in Threads : Between(t) THEN 1
        ELSE 0

\* The requests that the worker has not seen follow on what it has seen, and
\* on their last one follows what the main process's verifier has let pass.
Newest == IF Count(ToWorker) > 0 THEN Type(ToWorker[Count(ToWorker)]) ELSE Seen

RequestsInStep ==
  /\ \A k \in 1 .. Count(ToWorker) : Type(ToWorker[k]) \in Requests
  /\ Count(ToWorker) > 0 => <<Seen, Type(ToWorker[1])>> \in Transitions
  /\ Count(ToWorker) > 1 => /\ Count(ToWorker) = 2
                            /\ Type(ToWorker[1]) = "ADD_INPUT" /\ Type(ToWorker[2]) = "INFER"
  /\ Handling => Type(worker.got) = Seen /\ Seen \in Requests
  /\ worker.at # "rejected"

MainInStep ==
  /\ \A t \in Threads : /\ Posting(t) => <<Newest, Type(client[t].msg)>> \in Transitions
                        /\ Between(t) => Newest = "ADD_INPUT"
  /\ (\A t \in Threads : ~ Posting(t))
       => Newest = Sent \/ (Newest \in Successes /\ <<Sent, Newest>> \in Transitions)

AnswersInStep ==
  /\ Replying => Type(worker.reply) \in Answers
  /\ Replying /\ Type(worker.reply) \in Successes => Count(ToWorker) = 0 /\ Seen = Type(worker.reply)
  /\ \A k \in DOMAIN ToMain :
       /\ Type(ToMain[k]) \in Answers
       /\ Type(ToMain[k]) \in Successes
            => /\ k = Len(ToMain) /\ Count(ToWorker) = 0 /\ ~ Handling /\ ~ Replying
               /\ Seen = Type(ToMain[k]) /\ inputs = {}
  /\ Replying /\ Type(worker.reply) = "LOAD_SUCCESS" => inputs = {}
  /\ Sent \in Rest => inputs = {}

InStep == Open <= Owed /\ RequestsInStep /\ MainInStep /\ AnswersInStep

\* All of it is about one call.
About(c) ==
  /\ \A t \in Threads : Acting(t) => client[t].call = c
  /\ \A k \in 1 .. Count(ToWorker) : Call(ToWorker[k]) = c
  /\ Handling => Call(worker.got) = c
  /\ Replying => Call(worker.reply) = c /\ worker.reply.from \subseteq {c}
  /\ \A k \in DOMAIN ToMain : Call(ToMain[k]) = c /\ ToMain[k].from \subseteq {c}
  /\ inputs \subseteq {c}
  /\ c # 0 \/ (Count(ToWorker) = 0 /\ ~ Handling)

OneCall == \E c \in 0 .. MaxCalls : About(c)

IInv == /\ ChannelTypes /\ ControlTypes /\ Acked
        /\ Clients /\ Shutdowns /\ InStep /\ OneCall /\ AnswersMatch

-----------------------------------------------------------------------------
\* Messages and queues of them.
LEMMA MessageIs ==
  /\ \A m \in Messages : /\ Type(m) \in MessageType /\ Call(m) \in 0 .. MaxCalls
                         /\ m.done \in BOOLEAN /\ m.from \subseteq Calls /\ m.id \in Ids
  /\ \A t \in MessageType, i \in 0 .. MaxCalls, c \in MessageType, d \in BOOLEAN, f \in SUBSET Calls :
       Msg(t, i, c, d, f) \in Messages
  /\ \A t, i, c, d, f : /\ Type(Msg(t, i, c, d, f)) = t /\ Call(Msg(t, i, c, d, f)) = i
                        /\ Msg(t, i, c, d, f).done = d /\ Msg(t, i, c, d, f).from = f
<1>1. \A t, i, c, d, f : /\ Type(Msg(t, i, c, d, f)) = t /\ Call(Msg(t, i, c, d, f)) = i
                         /\ Msg(t, i, c, d, f).done = d /\ Msg(t, i, c, d, f).from = f
  BY DEF Type, Call, Msg
<1>2. \A t \in MessageType, i \in 0 .. MaxCalls, c \in MessageType, d \in BOOLEAN, f \in SUBSET Calls :
        Msg(t, i, c, d, f) \in Messages
  BY DEF Messages
<1>3. ASSUME NEW m \in Messages
      PROVE  /\ Type(m) \in MessageType /\ Call(m) \in 0 .. MaxCalls
             /\ m.done \in BOOLEAN /\ m.from \subseteq Calls /\ m.id \in Ids
  <2>1. PICK t \in MessageType, i \in 0 .. MaxCalls, c \in MessageType, d \in BOOLEAN, f \in SUBSET Calls :
          m = Msg(t, i, c, d, f)
    BY DEF Messages
  <2> QED
    BY <1>1, <2>1 DEF Ids
<1> QED
  BY <1>1, <1>2, <1>3

LEMMA NothingIs ==
  /\ Nothing \in Messages /\ Type(Nothing) = "SHUTDOWN" /\ Nothing.done = FALSE
<1>1. "SHUTDOWN" \in MessageType /\ 0 \in 0 .. MaxCalls /\ {} \in SUBSET Calls
  BY CallsAssumption DEF MessageType
<1>2. Msg("SHUTDOWN", 0, "SHUTDOWN", FALSE, {}) \in Messages
  <2>1. FALSE \in BOOLEAN
    OBVIOUS
  <2> QED
    BY <1>1, <2>1, MessageIs, Zenon
<1> QED
  BY <1>2 DEF Nothing, Msg, Type

LEMMA QueueGrows ==
  ASSUME NEW S, NEW s \in Seq(S), NEW m \in S, ~ Stops(s)
  PROVE  /\ Count(s) = Len(s) /\ Len(Append(s, m)) = Len(s) + 1
         /\ Append(s, m)[Len(s) + 1] = m
         /\ \A k \in 1 .. Len(s) : Append(s, m)[k] = s[k]
         /\ Type(m) # "SHUTDOWN"
              => /\ ~ Stops(Append(s, m)) /\ StopsLast(Append(s, m))
                 /\ Count(Append(s, m)) = Count(s) + 1
         /\ Type(m) = "SHUTDOWN"
              => /\ Stops(Append(s, m)) /\ StopsLast(Append(s, m))
                 /\ Count(Append(s, m)) = Count(s)
<1> DEFINE t == Append(s, m)
<1>1. /\ Len(s) \in Nat /\ Len(t) = Len(s) + 1 /\ t[Len(s) + 1] = m
      /\ \A k \in 1 .. Len(s) : t[k] = s[k]
      /\ DOMAIN s = 1 .. Len(s) /\ DOMAIN t = 1 .. Len(s) + 1
  OBVIOUS
<1> HIDE DEF t
<1>2. Count(s) = Len(s) /\ \A k \in 1 .. Len(s) : Type(s[k]) # "SHUTDOWN"
  BY <1>1 DEF Count, Stops
<1>3. \A k \in DOMAIN t : k \in 1 .. Len(s) \/ k = Len(s) + 1
  BY <1>1
<1>4. CASE Type(m) = "SHUTDOWN"
  <2>1. Stops(t) /\ StopsLast(t)
    BY <1>1, <1>2, <1>3, <1>4 DEF Stops, StopsLast
  <2> QED
    BY <1>1, <1>2, <1>4, <2>1 DEF Count, t
<1>5. CASE Type(m) # "SHUTDOWN"
  <2>1. ~ Stops(t) /\ StopsLast(t)
    BY <1>1, <1>2, <1>3, <1>5 DEF Stops, StopsLast
  <2> QED
    BY <1>1, <1>2, <1>5, <2>1 DEF Count, t
<1> QED
  BY <1>4, <1>5

LEMMA QueueShrinks ==
  ASSUME NEW S, NEW s \in Seq(S), s # <<>>, StopsLast(s)
  PROVE  /\ Head(s) = s[1] /\ Head(s) \in S /\ Tail(s) \in Seq(S) /\ StopsLast(Tail(s))
         /\ Len(s) \in Nat /\ Len(Tail(s)) = Len(s) - 1 /\ Count(s) \in Nat
         /\ \A k \in 1 .. Len(s) - 1 : Tail(s)[k] = s[k + 1]
         /\ Stops(Tail(s)) => Stops(s)
         /\ Type(Head(s)) = "SHUTDOWN" => Tail(s) = <<>> /\ Count(s) = 0 /\ Count(Tail(s)) = 0
         /\ Type(Head(s)) # "SHUTDOWN" => Count(s) > 0 /\ Count(Tail(s)) = Count(s) - 1
<1> DEFINE t == Tail(s)
<1>1. /\ Len(s) \in Nat /\ Len(s) > 0 /\ Len(t) = Len(s) - 1 /\ Head(s) = s[1] /\ Head(s) \in S
      /\ t \in Seq(S) /\ \A k \in 1 .. Len(s) - 1 : t[k] = s[k + 1]
      /\ DOMAIN s = 1 .. Len(s) /\ DOMAIN t = 1 .. Len(s) - 1
      /\ (Len(t) = 0 => t = <<>>)
  OBVIOUS
<1> HIDE DEF t
<1>2. \A k \in DOMAIN t : k + 1 \in DOMAIN s /\ t[k] = s[k + 1] /\ (k + 1 = Len(s) => k = Len(t))
  BY <1>1
<1>3. StopsLast(t) /\ (Stops(t) => Stops(s))
  BY <1>2 DEF StopsLast, Stops
<1>4. CASE Type(Head(s)) = "SHUTDOWN"
  <2>1. Len(s) = 1 /\ Stops(s)
    BY <1>1, <1>4 DEF StopsLast, Stops
  <2>2. t = <<>> /\ ~ Stops(t) /\ Len(t) = 0
    BY <1>1, <2>1 DEF Stops
  <2> QED
    BY <1>1, <1>3, <1>4, <2>1, <2>2 DEF Count, t
<1>5. CASE Type(Head(s)) # "SHUTDOWN"
  <2>1. Stops(s) => Stops(t)
    <3>1. \A k \in DOMAIN s : k # 1 => k - 1 \in DOMAIN t /\ t[k - 1] = s[k]
      BY <1>1
    <3> QED
      BY <1>1, <1>5, <3>1 DEF Stops
  <2>2. Stops(s) => Len(s) > 1
    BY <1>1, <1>5 DEF Stops
  <2> QED
    BY <1>1, <1>3, <1>5, <2>1, <2>2 DEF Count, t
<1> QED
  BY <1>4, <1>5

LEMMA CountIs ==
  ASSUME NEW S, NEW s \in Seq(S)
  PROVE  /\ Len(s) \in Nat /\ Count(s) \in Nat /\ Count(s) <= Len(s) /\ Len(s) <= Count(s) + 1
         /\ 1 .. Count(s) \subseteq DOMAIN s /\ DOMAIN s = 1 .. Len(s)
         /\ ~ Stops(s) => Count(s) = Len(s)
<1>1. Len(s) \in Nat /\ DOMAIN s = 1 .. Len(s)
  OBVIOUS
<1>2. Stops(s) => Len(s) > 0
  BY <1>1 DEF Stops
<1>3. Count(s) \in Nat /\ Count(s) <= Len(s) /\ Len(s) <= Count(s) + 1
  BY <1>1, <1>2 DEF Count
<1>4. 1 .. Count(s) \subseteq 1 .. Len(s)
  BY <1>1, <1>3
<1>5. ~ Stops(s) => Count(s) = Len(s)
  BY DEF Count
<1> QED
  BY <1>1, <1>3, <1>4, <1>5, Zenon

-----------------------------------------------------------------------------
\* What the channel's steps do.
LEMMA Others == /\ Chan!Other("main") = "worker" /\ Chan!Other("worker") = "main"
                /\ "main" \in Peers /\ "worker" \in Peers /\ "main" # "worker"
                /\ \A p \in Peers : /\ Chan!Other(p) \in Peers /\ Chan!Other(p) # p
                                    /\ \A q \in Peers : q # p => q = Chan!Other(p)
  BY DEF Chan!Other, Peers

LEMMA KeepIs ==
  ASSUME ChannelTypes, Acked, NEW p \in Peers, NEW i \in Ids, Chan!Keep(p, i), acks' = acks
  PROVE  ChannelTypes' /\ Acked' /\ UNCHANGED <<unread, held, closed>>
<1>1. /\ payloads' \in [Peers -> SUBSET Ids] /\ \A q \in Peers : payloads[q] \subseteq payloads'[q]
      /\ UNCHANGED <<unread, held, closed>>
  BY DEF Chan!Keep, ChannelTypes
<1> QED
  BY <1>1 DEF ChannelTypes, Acked

LEMMA SendIs ==
  ASSUME ChannelTypes, Acked, NEW p \in Peers, NEW m \in Messages, Chan!Send(p, m), acks' = acks
  PROVE  /\ ChannelTypes' /\ Acked' /\ UNCHANGED <<held, payloads, closed>>
         /\ unread'[p] = unread[p]
         /\ unread'[Chan!Other(p)] = IF Chan!Other(p) \in closed THEN unread[Chan!Other(p)]
                                     ELSE Append(unread[Chan!Other(p)], m)
<1> DEFINE q == Chan!Other(p)
<1>1. q \in Peers /\ q # p /\ unread[q] \in Seq(Messages)
  BY Others DEF ChannelTypes
<1>2. /\ m.done => m.id \in payloads[p]
      /\ UNCHANGED <<held, payloads, closed>>
      /\ unread' = IF q \in closed THEN unread ELSE [unread EXCEPT ![q] = Append(unread[q], m)]
  BY DEF Chan!Send
<1> HIDE DEF q
<1>3. Append(unread[q], m) \in Seq(Messages)
  BY <1>1, AppendProperties
<1>4. unread' \in [Peers -> Seq(Messages)] /\ unread'[p] = unread[p]
      /\ unread'[q] = IF q \in closed THEN unread[q] ELSE Append(unread[q], m)
  BY <1>1, <1>2, <1>3 DEF ChannelTypes
<1>5. \A k \in DOMAIN unread'[q] : \/ k \in DOMAIN unread[q] /\ unread'[q][k] = unread[q][k]
                                 \/ unread'[q][k] = m
  <2>1. DOMAIN Append(unread[q], m) = 1 .. (Len(unread[q]) + 1) /\ DOMAIN unread[q] = 1 .. Len(unread[q])
        /\ Append(unread[q], m)[Len(unread[q]) + 1] = m /\ Len(unread[q]) \in Nat
        /\ \A k \in 1 .. Len(unread[q]) : Append(unread[q], m)[k] = unread[q][k]
    BY <1>1
  <2>2. \A k \in 1 .. (Len(unread[q]) + 1) : k \in 1 .. Len(unread[q]) \/ k = Len(unread[q]) + 1
    BY <2>1
  <2> QED
    BY <1>4, <2>1, <2>2
<1>6. Acked'
  <2> SUFFICES ASSUME NEW a \in Peers, NEW b \in Peers, a # b
               PROVE  /\ acks[a] \subseteq payloads[a]
                      /\ \A n \in held[b] : n.done => n.id \in payloads[a]
                      /\ \A k \in DOMAIN unread'[b] : unread'[b][k].done => unread'[b][k].id \in payloads[a]
    BY <1>2 DEF Acked
  <2>1. (b = p \/ b = q) /\ (b = q => a = p)
    BY Others DEF q, Peers
  <2> QED
    BY <1>2, <1>4, <1>5, <2>1 DEF Acked
<1> QED
  BY <1>2, <1>4, <1>6 DEF ChannelTypes, q

LEMMA ReceiveIs ==
  ASSUME ChannelTypes, Acked, NEW p \in Peers, Chan!Receive(p), acks' = acks
  PROVE  /\ ChannelTypes' /\ Acked' /\ UNCHANGED <<payloads, closed>>
         /\ unread[p] # <<>> /\ unread'[p] = Tail(unread[p])
         /\ Head(unread[p]) \in Messages /\ Head(unread[p]) \in held'[p]
         /\ \A q \in Peers : q # p => unread'[q] = unread[q]
<1>1. /\ unread[p] # <<>> /\ unread[p] \in Seq(Messages)
      /\ held' = [held EXCEPT ![p] = held[p] \cup {Head(unread[p])}]
      /\ unread' = [unread EXCEPT ![p] = Tail(unread[p])]
      /\ UNCHANGED <<payloads, closed>>
  BY DEF Chan!Receive, ChannelTypes
<1>2. /\ Head(unread[p]) \in Messages /\ Tail(unread[p]) \in Seq(Messages) /\ Head(unread[p]) = unread[p][1]
      /\ 1 \in DOMAIN unread[p]
      /\ \A k \in DOMAIN Tail(unread[p]) : k + 1 \in DOMAIN unread[p] /\ Tail(unread[p])[k] = unread[p][k + 1]
  BY <1>1
<1>3. /\ unread' \in [Peers -> Seq(Messages)] /\ unread'[p] = Tail(unread[p])
      /\ held' \in [Peers -> SUBSET Messages] /\ held'[p] = held[p] \cup {Head(unread[p])}
      /\ \A q \in Peers : q # p => unread'[q] = unread[q] /\ held'[q] = held[q]
  BY <1>1, <1>2 DEF ChannelTypes
<1>4. Acked'
  <2> SUFFICES ASSUME NEW a \in Peers, NEW b \in Peers, a # b
               PROVE  /\ acks[a] \subseteq payloads[a]
                      /\ \A n \in held'[b] : n.done => n.id \in payloads[a]
                      /\ \A k \in DOMAIN unread'[b] : unread'[b][k].done => unread'[b][k].id \in payloads[a]
    BY <1>1 DEF Acked
  <2>1. CASE b = p
    <3>1. \A k \in DOMAIN unread[p] : unread[p][k].done => unread[p][k].id \in payloads[a]
      BY <2>1 DEF Acked
    <3>2. Head(unread[p]).done => Head(unread[p]).id \in payloads[a]
      BY <1>2, <3>1
    <3>3. \A n \in held'[b] : n.done => n.id \in payloads[a]
      BY <1>3, <2>1, <3>2 DEF Acked
    <3>4. \A k \in DOMAIN unread'[b] : unread'[b][k].done => unread'[b][k].id \in payloads[a]
      <4>1. \A k \in DOMAIN Tail(unread[p]) :
              Tail(unread[p])[k].done => Tail(unread[p])[k].id \in payloads[a]
        BY <1>2, <3>1, Zenon
      <4> QED
        BY <1>3, <2>1, <4>1
    <3> QED
      BY <3>3, <3>4 DEF Acked
  <2>2. CASE b # p
    BY <1>3, <2>2 DEF Acked
  <2> QED
    BY <2>1, <2>2
<1> QED
  BY <1>1, <1>2, <1>3, <1>4 DEF ChannelTypes

LEMMA LetGoIs ==
  ASSUME ChannelTypes, Acked, NEW p \in Peers, NEW m \in Messages, LetGo(p, m)
  PROVE  ChannelTypes' /\ Acked' /\ UNCHANGED <<unread, payloads, closed>>
<1> DEFINE q == Chan!Other(p)
<1>1. q \in Peers /\ q # p
  BY Others
<1>2. /\ m \in held[p] /\ held' = [held EXCEPT ![p] = held[p] \ {m}]
      /\ UNCHANGED <<unread, payloads, closed>>
      /\ acks' = IF m.done THEN [acks EXCEPT ![q] = acks[q] \cup {m.id}] ELSE acks
  BY DEF LetGo, Chan!Release
<1>3. m.id \in Ids /\ (m.done => m.id \in payloads[q])
  BY <1>1, <1>2, MessageIs DEF Acked
<1> HIDE DEF q
<1>4. /\ held' \in [Peers -> SUBSET Messages] /\ acks' \in [Peers -> SUBSET Ids]
      /\ \A x \in Peers : held'[x] \subseteq held[x]
      /\ \A x \in Peers : acks'[x] = acks[x] \/ (acks'[x] = acks[x] \cup {m.id} /\ x = q /\ m.done)
  BY <1>1, <1>2, <1>3 DEF ChannelTypes
<1> QED
  BY <1>2, <1>3, <1>4 DEF ChannelTypes, Acked

LEMMA FreeIs ==
  ASSUME ChannelTypes, Acked, NEW p \in Peers, NEW i, Chan!Free(p, i),
         acks' = [acks EXCEPT ![p] = acks[p] \ {i}]
  PROVE  ChannelTypes' /\ Acked' /\ UNCHANGED <<unread, held, closed>>
<1> DEFINE q == Chan!Other(p)
<1>1. q \in Peers /\ q # p /\ \A x \in Peers : x # p => x = q
  BY Others
<1>2. /\ payloads' = [payloads EXCEPT ![p] = payloads[p] \ {i}] /\ UNCHANGED <<unread, held, closed>>
      /\ \A m \in held[q] : m.done => m.id # i
      /\ \A k \in DOMAIN unread[q] : unread[q][k].done => unread[q][k].id # i
  BY DEF Chan!Free
<1> HIDE DEF q
<1>3. /\ payloads' \in [Peers -> SUBSET Ids] /\ acks' \in [Peers -> SUBSET Ids]
      /\ payloads'[p] = payloads[p] \ {i} /\ acks'[p] = acks[p] \ {i}
      /\ \A x \in Peers : x # p => payloads'[x] = payloads[x] /\ acks'[x] = acks[x]
  BY <1>2 DEF ChannelTypes
<1>4. Acked'
  <2> SUFFICES ASSUME NEW a \in Peers, NEW b \in Peers, a # b
               PROVE  /\ acks'[a] \subseteq payloads'[a]
                      /\ \A n \in held[b] : n.done => n.id \in payloads'[a]
                      /\ \A k \in DOMAIN unread[b] : unread[b][k].done => unread[b][k].id \in payloads'[a]
    BY <1>2 DEF Acked
  <2>1. CASE a = p
    <3>1. b = q
      BY <1>1, <2>1
    <3> QED
      BY <1>2, <1>3, <2>1, <3>1 DEF Acked
  <2>2. CASE a # p
    BY <1>3, <2>2 DEF Acked
  <2> QED
    BY <2>1, <2>2
<1> QED
  BY <1>2, <1>3, <1>4 DEF ChannelTypes

LEMMA CloseIs ==
  ASSUME ChannelTypes, Acked, NEW p \in Peers, Chan!Close(p), acks' = acks
  PROVE  /\ ChannelTypes' /\ Acked' /\ UNCHANGED <<held, payloads>> /\ closed' = closed \cup {p}
         /\ unread'[p] = <<>> /\ \A q \in Peers : q # p => unread'[q] = unread[q]
<1>1. /\ unread' = [unread EXCEPT ![p] = <<>>] /\ closed' = closed \cup {p}
      /\ UNCHANGED <<held, payloads>> /\ <<>> \in Seq(Messages)
  BY EmptySeq DEF Chan!Close
<1>2. /\ unread' \in [Peers -> Seq(Messages)]
      /\ unread'[p] = <<>> /\ \A q \in Peers : q # p => unread'[q] = unread[q]
  BY <1>1 DEF ChannelTypes
<1>3. DOMAIN <<>> = {}
  OBVIOUS
<1>4. Acked'
  <2> SUFFICES ASSUME NEW a \in Peers, NEW b \in Peers, a # b
               PROVE  /\ acks[a] \subseteq payloads[a]
                      /\ \A n \in held[b] : n.done => n.id \in payloads[a]
                      /\ \A k \in DOMAIN unread'[b] : unread'[b][k].done => unread'[b][k].id \in payloads[a]
    BY <1>1 DEF Acked
  <2>1. unread'[b] = <<>> \/ unread'[b] = unread[b]
    BY <1>2
  <2> QED
    BY <1>3, <2>1 DEF Acked
<1> QED
  BY <1>1, <1>2, <1>4 DEF ChannelTypes

LEMMA ChannelSame ==
  ASSUME ChannelTypes, Acked, UNCHANGED <<channel, acks>>
  PROVE  ChannelTypes' /\ Acked'
  BY DEF ChannelTypes, Acked, channel

-----------------------------------------------------------------------------
\* Threads, the worker and their messages.
Typed == ChannelTypes /\ ControlTypes /\ Acked

LEMMA NeedsDoneIs ==
  ASSUME NEW type, NEW d \in NeedsDone(type)
  PROVE  d \in BOOLEAN
  BY DEF NeedsDone

LEMMA AtIs ==
  ASSUME client \in [Threads -> ClientStates], NEW t \in Threads,
         NEW l \in {"idle", "verify", "keep", "send", "recv", "accepted", "rejected"}, At(t, l)
  PROVE  /\ client' \in [Threads -> ClientStates]
         /\ client'[t].at = l /\ client'[t].msg = client[t].msg /\ client'[t].call = client[t].call
         /\ \A u \in Threads : u # t => client'[u] = client[u]
  BY DEF At, ClientStates

LEMMA ClientIs ==
  ASSUME client \in [Threads -> ClientStates], NEW t \in Threads, NEW c \in ClientStates,
         client' = [client EXCEPT ![t] = c]
  PROVE  /\ client' \in [Threads -> ClientStates] /\ client'[t] = c
         /\ \A u \in Threads : u # t => client'[u] = client[u]
  OBVIOUS

LEMMA IdleIs == Idle \in ClientStates /\ Idle.at = "idle"
  BY NothingIs, CallsAssumption DEF Idle, ClientStates

LEMMA WorkerAtIs ==
  ASSUME worker \in WorkerStates,
         NEW l \in {"recv", "handle", "keep", "send", "bottom", "destroy"} \cup Ended, WorkerAt(l)
  PROVE  /\ worker' \in WorkerStates
         /\ worker'.at = l /\ worker'.got = worker.got /\ worker'.reply = worker.reply
  BY DEF WorkerAt, WorkerStates

\* A step that the conversation is indifferent to.
Frame ==
  /\ ToWorker' = ToWorker /\ (ToMain' = ToMain \/ ToMain' = <<>>)
  /\ last' = last /\ inputs' = inputs
  /\ \A t \in Threads :
       /\ Posting(t)' <=> Posting(t)
       /\ Between(t)' <=> Between(t)
       /\ Waiting(t)' <=> Waiting(t)
       /\ Acting(t) => client'[t].msg = client[t].msg /\ client'[t].call = client[t].call
  /\ Handling' => Handling /\ worker'.got = worker.got
  /\ Replying' => Replying /\ worker'.reply = worker.reply
  /\ worker'.at # "rejected" \/ worker.at = "rejected"

LEMMA FrameKeeps ==
  ASSUME Typed, InStep, OneCall, Frame
  PROVE  InStep' /\ OneCall'
<1>1. Owed' = Owed
  BY DEF Frame, Owed, Sent
<1>2. ToWorker \in Seq(Messages) /\ ToMain \in Seq(Messages)
  BY Others DEF Typed, ChannelTypes, ToWorker, ToMain
<1>3. Count(ToWorker)' = Count(ToWorker) /\ Count(ToWorker) \in Nat
  BY <1>2, CountIs DEF Frame
<1>4. Len(ToMain') \in Nat /\ Len(ToMain) \in Nat /\ Len(ToMain') <= Len(ToMain)
  <2>1. Len(<<>>) = 0 /\ Len(ToMain) \in Nat
    BY <1>2
  <2> QED
    BY <2>1 DEF Frame
<1>5. Open' <= Open /\ Open \in Nat /\ Open' \in Nat
  <2>1. (Handling' => Handling) /\ (Replying' => Replying)
    BY DEF Frame
  <2> QED
    BY <1>3, <1>4, <2>1 DEF Open
<1>6. Open' <= Owed'
  <2>1. Open <= Owed /\ Owed \in Nat
    BY DEF InStep, Owed
  <2> QED
    BY <1>1, <1>5, <2>1
<1>7. ToWorker' = ToWorker /\ Newest' = Newest /\ Sent' = Sent /\ Seen' = Seen /\ inputs' = inputs
  BY DEF Frame, Newest, Sent, Seen
<1>8. RequestsInStep'
  BY <1>3, <1>7 DEF Frame, InStep, RequestsInStep
<1>9. MainInStep'
  BY <1>7 DEF Frame, InStep, MainInStep, Acting
<1>10. AnswersInStep'
  <2>1. AnswersInStep
    BY DEF InStep
  <2>2. /\ Replying' => Type(worker'.reply) \in Answers
        /\ Replying' /\ Type(worker'.reply) \in Successes
             => Count(ToWorker') = 0 /\ Seen' = Type(worker'.reply)
        /\ Replying' /\ Type(worker'.reply) = "LOAD_SUCCESS" => inputs' = {}
        /\ Sent' \in Rest => inputs' = {}
    BY <1>3, <1>7, <2>1 DEF Frame, AnswersInStep
  <2>3. ASSUME NEW k \in DOMAIN ToMain'
        PROVE  /\ Type(ToMain'[k]) \in Answers
               /\ Type(ToMain'[k]) \in Successes
                    => /\ k = Len(ToMain') /\ Count(ToWorker') = 0 /\ ~ Handling' /\ ~ Replying'
                       /\ Seen' = Type(ToMain'[k]) /\ inputs' = {}
    <3>1. CASE ToMain' = ToMain
      BY <1>3, <1>7, <2>1, <2>3, <3>1 DEF Frame, AnswersInStep
    <3>2. CASE ToMain' = <<>>
      BY <2>3, <3>2
    <3> QED
      BY <3>1, <3>2 DEF Frame
  <2> QED
    BY <2>2, <2>3 DEF AnswersInStep
<1>11. OneCall'
  <2>1. PICK c \in 0 .. MaxCalls : About(c)
    BY DEF OneCall
  <2>2. About(c)'
    <3>1. \A t \in Threads : Acting(t)' => client'[t].call = c
      BY <2>1 DEF About, Frame, Acting
    <3>2. \A k \in DOMAIN ToMain' : Call(ToMain'[k]) = c /\ ToMain'[k].from \subseteq {c}
      <4>1. CASE ToMain' = ToMain
        BY <2>1, <4>1 DEF About
      <4>2. CASE ToMain' = <<>>
        BY <4>2
      <4> QED
        BY <4>1, <4>2 DEF Frame
    <3>3. /\ Handling' => Call(worker'.got) = c
          /\ Replying' => Call(worker'.reply) = c /\ worker'.reply.from \subseteq {c}
          /\ \A k \in 1 .. Count(ToWorker') : Call(ToWorker'[k]) = c
          /\ inputs' \subseteq {c}
          /\ c # 0 \/ (Count(ToWorker') = 0 /\ ~ Handling')
      BY <1>3, <1>7, <2>1 DEF About, Frame
    <3> QED
      BY <3>1, <3>2, <3>3 DEF About
  <2> QED
    BY <2>2 DEF OneCall
<1> QED
  BY <1>6, <1>8, <1>9, <1>10, <1>11 DEF InStep

\* What a thread that stands still keeps.
LEMMA ClientsSame ==
  ASSUME Clients, AnswersMatch, UNCHANGED <<client, last>>
  PROVE  Clients' /\ AnswersMatch'
  BY DEF Clients, AnswersMatch, Acting, Posting, Between, Waiting, Sent

LEMMA FrameIs ==
  ASSUME IInv, Frame, ChannelTypes', ControlTypes', Acked', Clients', Shutdowns', AnswersMatch'
  PROVE  IInv'
<1>1. InStep' /\ OneCall'
  BY FrameKeeps DEF IInv, Typed
<1> QED
  BY <1>1 DEF IInv

-----------------------------------------------------------------------------
\* The steps of the main process and of the reader threads in which nobody calls.
LEMMA MainFrame ==
  ASSUME IInv, UNCHANGED <<last, client, worker, inputs>>,
         ToWorker' = ToWorker, ToMain' = ToMain \/ ToMain' = <<>>,
         ChannelTypes', ControlTypes', Acked', Shutdowns'
  PROVE  IInv'
<1>1. Frame
  BY DEF Frame, Posting, Between, Waiting, Handling, Replying
<1>2. Clients' /\ AnswersMatch'
  BY ClientsSame DEF IInv
<1> QED
  BY <1>1, <1>2, FrameIs

LEMMA MainMoves ==
  ASSUME IInv, UNCHANGED <<channel, acks, last, loaded, calls, client, worker, inputs>>,
         main' \in {"shutdown", "closing", "dead"},
         main' = "shutdown" => main = "open" /\ \A t \in Threads : client[t].at = "idle"
  PROVE  IInv'
<1>1. ChannelTypes' /\ Acked'
  BY ChannelSame DEF IInv
<1>2. ControlTypes'
  BY DEF IInv, ControlTypes
<1>3. ToWorker' = ToWorker /\ ToMain' = ToMain /\ UNCHANGED closed
  BY DEF channel, ToWorker, ToMain
<1>4. Shutdowns'
  BY <1>3 DEF IInv, Shutdowns, Over
<1> QED
  BY <1>1, <1>2, <1>3, <1>4, MainFrame

LEMMA DestroyKeeps == ASSUME IInv, Destroy PROVE IInv'
  BY MainMoves DEF Destroy

LEMMA ReapKeeps == ASSUME IInv, Reap PROVE IInv'
  BY MainMoves DEF Reap

LEMMA MainTimeoutKeeps == ASSUME IInv, MainTimeout PROVE IInv'
  BY MainMoves DEF MainTimeout

LEMMA MainCrashKeeps == ASSUME IInv, MainCrash PROVE IInv'
  BY MainMoves DEF MainCrash

LEMMA CloseKeeps == ASSUME IInv, Close PROVE IInv'
<1>1. ChannelTypes' /\ Acked' /\ closed' = closed \cup {"main"}
      /\ ToMain' = <<>> /\ ToWorker' = ToWorker
  BY CloseIs, Others DEF IInv, Close, ToMain, ToWorker
<1>2. ControlTypes'
  BY DEF IInv, ControlTypes, Close
<1>3. Shutdowns'
  BY <1>1 DEF IInv, Shutdowns, Over, Close
<1> QED
  BY <1>1, <1>2, <1>3, MainFrame DEF Close

LEMMA DoneKeeps == ASSUME IInv, NEW p \in Peers, NEW i \in acks[p], Done(p, i) PROVE IInv'
<1>1. ChannelTypes' /\ Acked' /\ UNCHANGED <<unread, held, closed>>
  BY FreeIs DEF IInv, Done
<1>2. ControlTypes'
  BY DEF IInv, ControlTypes, Done
<1>3. ToWorker' = ToWorker /\ ToMain' = ToMain
  BY <1>1 DEF ToWorker, ToMain
<1>4. Shutdowns'
  BY <1>1, <1>3 DEF IInv, Shutdowns, Over, Done
<1> QED
  BY <1>1, <1>2, <1>3, <1>4, MainFrame DEF Done

-----------------------------------------------------------------------------
\* The worker's steps outside of the conversation.
LEMMA WorkerFrame ==
  ASSUME IInv, UNCHANGED <<last, main, loaded, calls, client, inputs>>,
         ToWorker' = ToWorker, ToMain' = ToMain, worker' \in WorkerStates,
         worker'.at \notin {"handle", "keep", "rejected"},
         worker'.at = "send" => worker.at = "keep" /\ worker'.reply = worker.reply,
         ChannelTypes', Acked', Shutdowns'
  PROVE  IInv'
<1>1. ControlTypes'
  BY DEF IInv, ControlTypes
<1>2. Frame
  BY DEF Frame, Posting, Between, Waiting, Handling, Replying
<1>3. Clients' /\ AnswersMatch'
  BY ClientsSame DEF IInv
<1> QED
  BY <1>1, <1>2, <1>3, FrameIs

LEMMA WorkerKeepKeeps == ASSUME IInv, WorkerKeep PROVE IInv'
<1>1. worker \in WorkerStates /\ worker.reply.id \in Ids
  BY MessageIs DEF IInv, ControlTypes, WorkerStates
<1>2. ChannelTypes' /\ Acked' /\ UNCHANGED <<unread, held, closed>>
  BY <1>1, KeepIs, Others DEF IInv, WorkerKeep
<1>3. ToWorker' = ToWorker /\ ToMain' = ToMain
  BY <1>2 DEF ToWorker, ToMain
<1>4. worker' \in WorkerStates /\ worker'.at = "send" /\ worker'.reply = worker.reply
  BY <1>1, WorkerAtIs DEF WorkerKeep
<1>5. Shutdowns'
  BY <1>2, <1>3, <1>4 DEF IInv, Shutdowns, Over, WorkerKeep
<1> QED
  BY <1>2, <1>3, <1>4, <1>5, WorkerFrame DEF WorkerKeep

LEMMA HandleShutdownKeeps == ASSUME IInv, HandleShutdown PROVE IInv'
<1>1. worker \in WorkerStates /\ worker.got \in Messages
  BY DEF IInv, ControlTypes, WorkerStates
<1>2. ChannelTypes' /\ Acked' /\ UNCHANGED <<unread, payloads, closed>>
  BY <1>1, LetGoIs, Others DEF IInv, HandleShutdown
<1>3. ToWorker' = ToWorker /\ ToMain' = ToMain
  BY <1>2 DEF ToWorker, ToMain
<1>4. worker' \in WorkerStates /\ worker'.at = "destroy"
  BY <1>1, WorkerAtIs DEF HandleShutdown
<1>5. Shutdowns'
  BY <1>2, <1>3, <1>4 DEF IInv, Shutdowns, Over, HandleShutdown
<1> QED
  BY <1>2, <1>3, <1>4, <1>5, WorkerFrame DEF HandleShutdown

LEMMA WorkerBottomKeeps == ASSUME IInv, WorkerBottom PROVE IInv'
<1>1. worker.got \in Messages
  BY DEF IInv, ControlTypes, WorkerStates
<1>2. ChannelTypes' /\ Acked' /\ UNCHANGED <<unread, payloads, closed>>
  BY <1>1, LetGoIs, Others DEF IInv, WorkerBottom
<1>3. ToWorker' = ToWorker /\ ToMain' = ToMain
  BY <1>2 DEF ToWorker, ToMain
<1>4. worker' \in WorkerStates /\ worker'.at = "recv"
  BY NothingIs DEF WorkerBottom, WorkerStates
<1>5. Shutdowns'
  BY <1>2, <1>3, <1>4 DEF IInv, Shutdowns, Over, WorkerBottom
<1> QED
  BY <1>2, <1>3, <1>4, <1>5, WorkerFrame DEF WorkerBottom

LEMMA WorkerCloseKeeps == ASSUME IInv, WorkerClose PROVE IInv'
<1>1. worker \in WorkerStates
  BY DEF IInv, ControlTypes
<1>2. ChannelTypes' /\ Acked' /\ closed' = closed \cup {"worker"}
      /\ ToWorker' = <<>> /\ ToMain' = ToMain
  BY CloseIs, Others DEF IInv, WorkerClose, ToMain, ToWorker
<1>3. worker' \in WorkerStates /\ worker'.at = "exited"
  BY <1>1, WorkerAtIs DEF WorkerClose, Ended
<1>4. ToWorker' = ToWorker
  BY <1>2 DEF IInv, Shutdowns, WorkerClose
<1>5. Shutdowns'
  BY <1>2, <1>3, <1>4 DEF IInv, Shutdowns, Over, WorkerClose
<1> QED
  BY <1>2, <1>3, <1>4, <1>5, WorkerFrame DEF WorkerClose

LEMMA WorkerEndKeeps == ASSUME IInv, WorkerTimeout \/ WorkerCrash PROVE IInv'
<1>1. /\ UNCHANGED <<channel, acks, last, main, loaded, calls, client, inputs>>
      /\ worker \in WorkerStates /\ worker.at \notin Ended
      /\ WorkerAt("timedout") \/ WorkerAt("crashed")
  BY DEF IInv, ControlTypes, WorkerTimeout, WorkerCrash
<1>2. worker' \in WorkerStates /\ worker'.at \in {"timedout", "crashed"}
  BY <1>1, WorkerAtIs DEF Ended
<1>3. ChannelTypes' /\ Acked' /\ ToWorker' = ToWorker /\ ToMain' = ToMain /\ UNCHANGED closed
  BY <1>1, ChannelSame DEF IInv, channel, ToWorker, ToMain
<1>4. Shutdowns'
  BY <1>1, <1>2, <1>3 DEF IInv, Shutdowns, Over, Ended
<1> QED
  BY <1>1, <1>2, <1>3, <1>4, WorkerFrame

-----------------------------------------------------------------------------
\* A thread's steps outside of the conversation.
LEMMA ClientFrame ==
  ASSUME IInv, NEW t \in Threads, ~ Acting(t), ~ Acting(t)',
         UNCHANGED <<last, worker, inputs>>, ToWorker' = ToWorker, ToMain' = ToMain,
         \A u \in Threads : u # t => client'[u] = client[u],
         client'[t].at = "verify"
           => /\ Type(client'[t].msg) \in Requests
              /\ Call(client'[t].msg) = client'[t].call /\ client'[t].call # 0,
         client'[t].at # "accepted",
         ChannelTypes', ControlTypes', Acked', Shutdowns'
  PROVE  IInv'
<1>1. \A u \in Threads : /\ Posting(u)' <=> Posting(u)
                         /\ Between(u)' <=> Between(u)
                         /\ Waiting(u)' <=> Waiting(u)
                         /\ Acting(u) => client'[u] = client[u]
                         /\ Acting(u)' <=> Acting(u)
  BY DEF Acting, Posting, Between, Waiting
<1>2. Frame
  BY <1>1 DEF Frame, Handling, Replying
<1>3. Clients'
  BY <1>1 DEF IInv, Clients, Acting, Posting, Between, Waiting, Sent
<1>4. AnswersMatch'
  BY DEF IInv, AnswersMatch
<1> QED
  BY <1>2, <1>3, <1>4, FrameIs

LEMMA BeginKeeps ==
  ASSUME IInv, NEW t \in Threads, NEW op \in {"load", "infer"}, NEW type \in {"LOAD_NEUROPOD", "ADD_INPUT"},
         main \in {"constructing", "open"}, Begin(t, op, type)
  PROVE  IInv'
<1>1. PICK d \in NeedsDone(type) :
        client' = [client EXCEPT ![t] = [at |-> "verify", op |-> op, call |-> calls + 1,
                                         msg |-> Msg(type, calls + 1, type, d, {})]]
  BY DEF Begin
<1> DEFINE m == Msg(type, calls + 1, type, d, {})
           c == [at |-> "verify", op |-> op, call |-> calls + 1, msg |-> m]
<1>2. /\ client[t].at = "idle" /\ calls + 1 \in 0 .. MaxCalls /\ calls + 1 # 0 /\ client \in [Threads -> ClientStates]
      /\ UNCHANGED <<channel, acks, last, main, loaded, worker, inputs>> /\ calls' = calls + 1
  BY CallsAssumption DEF IInv, ControlTypes, Begin
<1>3. type \in MessageType /\ d \in BOOLEAN /\ {} \in SUBSET Calls
  BY NeedsDoneIs DEF MessageType
<1>4. m \in Messages /\ Type(m) = type /\ Call(m) = calls + 1
  BY <1>2, <1>3, MessageIs
<1> HIDE DEF m
<1>5. c \in ClientStates
  BY <1>2, <1>4 DEF ClientStates
<1>6. /\ client' \in [Threads -> ClientStates] /\ client'[t] = c
      /\ \A u \in Threads : u # t => client'[u] = client[u]
  BY <1>1, <1>2, <1>5 DEF m
<1>7. ChannelTypes' /\ Acked' /\ ToWorker' = ToWorker /\ ToMain' = ToMain /\ UNCHANGED closed
  BY <1>2, ChannelSame DEF IInv, channel, ToWorker, ToMain
<1>8. ControlTypes'
  BY <1>2, <1>6 DEF IInv, ControlTypes
<1>9. Shutdowns'
  BY <1>2, <1>6, <1>7 DEF IInv, Shutdowns, Over
<1>10. ~ Acting(t) /\ ~ Acting(t)' /\ client'[t].at = "verify" /\ client'[t].msg = m /\ client'[t].call = calls + 1
  BY <1>2, <1>4, <1>6 DEF Acting, Posting, Between, Waiting
<1> QED
  BY <1>2, <1>4, <1>6, <1>7, <1>8, <1>9, <1>10, ClientFrame DEF Requests

LEMMA LoadModelKeeps == ASSUME IInv, NEW t \in Threads, LoadModel(t) PROVE IInv'
  BY BeginKeeps DEF LoadModel

LEMMA InferKeeps == ASSUME IInv, NEW t \in Threads, Infer(t) PROVE IInv'
  BY BeginKeeps DEF Infer

LEMMA ReturnKeeps == ASSUME IInv, NEW t \in Threads, Return(t) PROVE IInv'
<1>1. /\ main \in {"constructing", "open"} /\ client[t].at \in {"accepted", "rejected"}
      /\ client \in [Threads -> ClientStates] /\ client[t].msg \in Messages
      /\ LetGo("main", client[t].msg) /\ UNCHANGED <<last, calls, worker, inputs>>
      /\ client' = [client EXCEPT ![t] = Idle] /\ main' \in {main, "open", "closing"}
      /\ loaded' \in BOOLEAN
  BY DEF IInv, ControlTypes, ClientStates, Return, Throw, Busy
<1>2. /\ client' \in [Threads -> ClientStates] /\ client'[t].at = "idle"
      /\ \A u \in Threads : u # t => client'[u] = client[u]
  BY <1>1, IdleIs
<1>3. ChannelTypes' /\ Acked' /\ UNCHANGED <<unread, payloads, closed>>
  BY <1>1, LetGoIs, Others DEF IInv
<1>4. ToWorker' = ToWorker /\ ToMain' = ToMain
  BY <1>3 DEF ToWorker, ToMain
<1>5. ControlTypes'
  BY <1>1, <1>2 DEF IInv, ControlTypes
<1>6. Shutdowns'
  BY <1>1, <1>2, <1>3, <1>4 DEF IInv, Shutdowns, Over
<1>7. ~ Acting(t) /\ ~ Acting(t)'
  BY <1>1, <1>2 DEF Acting, Posting, Between, Waiting
<1> QED
  BY <1>1, <1>2, <1>3, <1>4, <1>5, <1>6, <1>7, ClientFrame

LEMMA KeepKeeps == ASSUME IInv, NEW t \in Threads, Keep(t) PROVE IInv'
<1>1. /\ main \in {"constructing", "open"} /\ client[t].at = "keep"
      /\ client \in [Threads -> ClientStates] /\ client[t].msg.id \in Ids
      /\ UNCHANGED <<acks, last, main, loaded, calls, worker, inputs>> /\ At(t, "send")
      /\ Chan!Keep("main", client[t].msg.id)
  BY MessageIs DEF IInv, ControlTypes, ClientStates, Keep, Busy
<1>2. /\ client' \in [Threads -> ClientStates] /\ client'[t].at = "send"
      /\ client'[t].msg = client[t].msg /\ client'[t].call = client[t].call
      /\ \A u \in Threads : u # t => client'[u] = client[u]
  BY <1>1, AtIs
<1>3. ChannelTypes' /\ Acked' /\ UNCHANGED <<unread, held, closed>>
  BY <1>1, KeepIs, Others DEF IInv
<1>4. ToWorker' = ToWorker /\ ToMain' = ToMain
  BY <1>3 DEF ToWorker, ToMain
<1>5. ControlTypes'
  BY <1>1, <1>2 DEF IInv, ControlTypes
<1>6. Shutdowns'
  BY <1>1, <1>2, <1>3, <1>4 DEF IInv, Shutdowns, Over
<1>7. \A u \in Threads : /\ Posting(u)' <=> Posting(u)
                         /\ Between(u)' <=> Between(u)
                         /\ Waiting(u)' <=> Waiting(u)
                         /\ client'[u].msg = client[u].msg /\ client'[u].call = client[u].call
  BY <1>1, <1>2 DEF Posting, Between, Waiting
<1>8. Frame
  BY <1>1, <1>4, <1>7 DEF Frame, Handling, Replying
<1>9. Clients'
  <2>1. \A u \in Threads : (client[u].at = "verify" \/ Posting(u)) <=> (client'[u].at = "verify" \/ Posting(u)')
    BY <1>1, <1>2 DEF Posting
  <2>2. Sent' = Sent
    BY <1>1 DEF Sent
  <2> QED
    BY <1>7, <2>1, <2>2 DEF IInv, Clients, Acting
<1>10. AnswersMatch'
  BY <1>1, <1>2 DEF IInv, AnswersMatch
<1> QED
  BY <1>3, <1>5, <1>6, <1>8, <1>9, <1>10, FrameIs

-----------------------------------------------------------------------------
\* The steps of the conversation, from the main process's side.
LEMMA QueuesAre ==
  ASSUME IInv
  PROVE  /\ ToWorker \in Seq(Messages) /\ ToMain \in Seq(Messages)
         /\ Len(ToWorker) \in Nat /\ Count(ToWorker) \in Nat /\ Len(ToMain) \in Nat
         /\ client \in [Threads -> ClientStates] /\ worker \in WorkerStates
         /\ Open \in Nat /\ Open <= Owed
<1>1. ToWorker \in Seq(Messages) /\ ToMain \in Seq(Messages)
  BY Others DEF IInv, ChannelTypes, ToWorker, ToMain
<1>2. Len(ToWorker) \in Nat /\ Count(ToWorker) \in Nat /\ Len(ToMain) \in Nat
  BY <1>1, CountIs
<1>3. Open \in Nat
  BY <1>2 DEF Open
<1> QED
  BY <1>1, <1>2, <1>3 DEF IInv, ControlTypes, InStep

\* When nothing is owed nothing is on its way.
LEMMA NothingOpen ==
  ASSUME IInv, Owed = 0
  PROVE  Count(ToWorker) = 0 /\ ~ Handling /\ ~ Replying /\ ToMain = <<>> /\ Newest = Seen
<1>1. Open <= 0
  BY QueuesAre
<1>2. Count(ToWorker) = 0 /\ ~ Handling /\ ~ Replying /\ Len(ToMain) = 0
  BY <1>1, QueuesAre DEF Open
<1>3. ToMain = <<>>
  BY <1>2, QueuesAre, EmptySeq
<1> QED
  BY <1>2, <1>3 DEF Newest

LEMMA TransitionsAre ==
  /\ \A a \in Rest, b \in MessageType : <<a, b>> \in Transitions => b \in Requests /\ b # "INFER"
  /\ \A a, b : <<a, b>> \in Transitions /\ b \in {"LOAD_NEUROPOD", "ADD_INPUT"} => a \in Rest
  /\ \A a : <<a, "INFER">> \in Transitions => a = "ADD_INPUT"
  /\ \A b : <<"LOAD_NEUROPOD", b>> \in Transitions => b = "LOAD_SUCCESS"
  /\ \A b : <<"INFER", b>> \in Transitions => b = "RETURN_OUTPUT"
  /\ \A a, b : <<a, b>> \in Transitions => b \notin AlwaysAllowed /\ b \in MessageType
  /\ <<"LOAD_NEUROPOD", "LOAD_SUCCESS">> \in Transitions /\ <<"INFER", "RETURN_OUTPUT">> \in Transitions
  /\ <<"ADD_INPUT", "INFER">> \in Transitions
  BY DEF Transitions, Rest, Successes, Requests, AlwaysAllowed, MessageType

LEMMA VerifyRejects ==
  ASSUME IInv, NEW t \in Threads, Verify(t), ~ Allowed("main", Type(client[t].msg))
  PROVE  IInv'
<1>1. /\ main \in {"constructing", "open"} /\ client[t].at = "verify"
      /\ client \in [Threads -> ClientStates]
      /\ client' = [client EXCEPT ![t] = Idle] /\ main' \in {main, "closing"}
      /\ UNCHANGED <<channel, acks, last, loaded, calls, worker, inputs>>
  BY DEF IInv, ControlTypes, Verify, Throw, Busy
<1>2. /\ client' \in [Threads -> ClientStates] /\ client'[t].at = "idle"
      /\ \A u \in Threads : u # t => client'[u] = client[u]
  BY <1>1, IdleIs
<1>3. ChannelTypes' /\ Acked' /\ ToWorker' = ToWorker /\ ToMain' = ToMain /\ UNCHANGED closed
  BY <1>1, ChannelSame DEF IInv, channel, ToWorker, ToMain
<1>4. ControlTypes'
  BY <1>1, <1>2 DEF IInv, ControlTypes
<1>5. Shutdowns'
  BY <1>1, <1>2, <1>3 DEF IInv, Shutdowns, Over
<1>6. ~ Between(t)
  BY TransitionsAre DEF IInv, Clients, Between, Sent, Allowed
<1>7. ~ Acting(t) /\ ~ Acting(t)'
  BY <1>1, <1>2, <1>6 DEF Acting, Posting, Between, Waiting
<1> QED
  BY <1>1, <1>2, <1>3, <1>4, <1>5, <1>7, ClientFrame

\* What the verifier lets pass, and what becomes of the thread.
LEMMA VerifyPasses ==
  ASSUME IInv, NEW t \in Threads, Verify(t), Allowed("main", Type(client[t].msg))
  PROVE  /\ ChannelTypes' /\ ControlTypes' /\ Acked' /\ Shutdowns' /\ AnswersMatch'
         /\ ToWorker' = ToWorker /\ ToMain' = ToMain /\ UNCHANGED <<worker, inputs>>
         /\ client[t].at = "verify" /\ Type(client[t].msg) \in Requests
         /\ Call(client[t].msg) = client[t].call /\ client[t].call # 0
         /\ <<Sent, Type(client[t].msg)>> \in Transitions
         /\ Sent' = Type(client[t].msg) /\ Seen' = Seen /\ Posting(t)'
         /\ client'[t].msg = client[t].msg /\ client'[t].call = client[t].call
         /\ \A u \in Threads : u # t => client'[u] = client[u]
<1>1. /\ main \in {"constructing", "open"} /\ client[t].at = "verify"
      /\ client \in [Threads -> ClientStates]
      /\ UNCHANGED <<channel, acks, main, loaded, calls, worker, inputs>>
      /\ last' = Passed("main", Type(client[t].msg))
      /\ \E l \in {"keep", "send"} : At(t, l)
  BY DEF IInv, ControlTypes, Verify, Busy
<1>2. /\ client' \in [Threads -> ClientStates] /\ client'[t].at \in {"keep", "send"}
      /\ client'[t].msg = client[t].msg /\ client'[t].call = client[t].call
      /\ \A u \in Threads : u # t => client'[u] = client[u]
  BY <1>1, AtIs
<1>3. ChannelTypes' /\ Acked' /\ ToWorker' = ToWorker /\ ToMain' = ToMain /\ UNCHANGED closed
  BY <1>1, ChannelSame DEF IInv, channel, ToWorker, ToMain
<1>4. Type(client[t].msg) \in Requests /\ Call(client[t].msg) = client[t].call /\ client[t].call # 0
  BY <1>1 DEF IInv, Clients
<1>5. <<Sent, Type(client[t].msg)>> \in Transitions
  BY <1>4 DEF Allowed, AlwaysAllowed, Requests, Sent
<1>6. last' = [last EXCEPT !["main"] = Type(client[t].msg)]
  BY <1>1, <1>4 DEF Passed, AlwaysAllowed, Requests
<1>7. /\ last' \in [Peers -> MessageType \cup {"none"}]
      /\ Sent' = Type(client[t].msg) /\ Seen' = Seen
  BY <1>4, <1>6, Others DEF IInv, ControlTypes, Sent, Seen, Requests, MessageType
<1>8. ControlTypes'
  BY <1>1, <1>2, <1>7 DEF IInv, ControlTypes
<1>9. Shutdowns'
  BY <1>1, <1>2, <1>3 DEF IInv, Shutdowns, Over
<1>10. AnswersMatch'
  BY <1>2 DEF IInv, AnswersMatch
<1> QED
  BY <1>1, <1>2, <1>3, <1>4, <1>5, <1>7, <1>8, <1>9, <1>10 DEF Posting

LEMMA VerifyFreshKeeps ==
  ASSUME IInv, NEW t \in Threads, Verify(t), Allowed("main", Type(client[t].msg)),
         Type(client[t].msg) # "INFER"
  PROVE  IInv'
<1> DEFINE type == Type(client[t].msg)
           c    == client[t].call
<1>1. /\ ChannelTypes' /\ ControlTypes' /\ Acked' /\ Shutdowns' /\ AnswersMatch'
      /\ ToWorker' = ToWorker /\ ToMain' = ToMain /\ UNCHANGED <<worker, inputs>>
      /\ client[t].at = "verify" /\ type \in Requests /\ Call(client[t].msg) = c /\ c # 0
      /\ <<Sent, type>> \in Transitions
      /\ Sent' = type /\ Seen' = Seen /\ Posting(t)'
      /\ client'[t].msg = client[t].msg /\ client'[t].call = c
      /\ \A u \in Threads : u # t => client'[u] = client[u]
  BY VerifyPasses
<1>2. Sent \in Rest
  BY <1>1, TransitionsAre DEF Requests
<1>3. \A u \in Threads : ~ Acting(u)
  BY <1>2 DEF IInv, Clients, Acting, Rest, Successes, Requests
<1>4. Owed = 0
  BY <1>2, <1>3 DEF Owed, Acting, Rest, Successes
<1>5. /\ Count(ToWorker) = 0 /\ ~ Handling /\ ~ Replying /\ ToMain = <<>> /\ Newest = Seen
      /\ inputs = {}
  BY <1>2, <1>4, NothingOpen DEF IInv, InStep, AnswersInStep
<1>6. Seen = Sent
  <2>1. Newest = Sent \/ (Newest \in Successes /\ <<Sent, Newest>> \in Transitions)
    BY <1>3 DEF IInv, InStep, MainInStep, Acting
  <2> QED
    BY <1>2, <1>5, <2>1, TransitionsAre DEF Successes, Requests, MessageType
<1>7. /\ \A u \in Threads : Acting(u)' => u = t
      /\ ~ Between(t)' /\ ~ Waiting(t)'
  BY <1>1, <1>3 DEF Acting, Posting, Between, Waiting
<1>8. Clients'
  BY <1>1, <1>7 DEF IInv, Clients, Acting, Posting
<1>9. Count(ToWorker)' = 0 /\ ~ Handling' /\ ~ Replying' /\ ToMain' = <<>> /\ Newest' = Sent
      /\ inputs' = {} /\ Len(ToMain') = 0
  <2>1. Len(<<>>) = 0
    OBVIOUS
  <2> QED
    BY <1>1, <1>5, <1>6, <2>1 DEF Handling, Replying, Newest
<1>10. Open' <= Owed'
  BY <1>9 DEF Open, Owed
<1>11. RequestsInStep'
  BY <1>1, <1>9 DEF IInv, InStep, RequestsInStep
<1>12. MainInStep'
  BY <1>1, <1>7, <1>9 DEF MainInStep, Acting
<1>13. AnswersInStep'
  BY <1>9 DEF AnswersInStep
<1>14. About(c)'
  BY <1>1, <1>7, <1>9 DEF About
<1>15. c \in 0 .. MaxCalls
  BY QueuesAre DEF ClientStates
<1> QED
  BY <1>1, <1>8, <1>10, <1>11, <1>12, <1>13, <1>14, <1>15 DEF IInv, InStep, OneCall

LEMMA VerifyInferKeeps ==
  ASSUME IInv, NEW t \in Threads, Verify(t), Allowed("main", Type(client[t].msg)),
         Type(client[t].msg) = "INFER"
  PROVE  IInv'
<1>1. /\ ChannelTypes' /\ ControlTypes' /\ Acked' /\ Shutdowns' /\ AnswersMatch'
      /\ ToWorker' = ToWorker /\ ToMain' = ToMain /\ UNCHANGED <<worker, inputs>>
      /\ Call(client[t].msg) = client[t].call /\ client[t].call # 0
      /\ Sent' = "INFER" /\ Seen' = Seen /\ Posting(t)' /\ Between(t)
      /\ client'[t].msg = client[t].msg /\ client'[t].call = client[t].call
      /\ \A u \in Threads : u # t => client'[u] = client[u]
  BY VerifyPasses DEF Between
<1>2. Sent = "ADD_INPUT" /\ \A u \in Threads : Acting(u) => u = t
  BY <1>1 DEF IInv, Clients, Acting
<1>3. Newest = "ADD_INPUT"
  BY <1>1 DEF IInv, InStep, MainInStep
<1>4. /\ \A u \in Threads : Acting(u)' => u = t /\ Acting(u)
      /\ ~ Between(t)' /\ ~ Waiting(t)' /\ Acting(t)
  BY <1>1, <1>2 DEF Acting, Posting, Between, Waiting
<1>5. Clients'
  BY <1>1, <1>4 DEF IInv, Clients, Acting, Posting, Requests
<1>6. Count(ToWorker)' = Count(ToWorker) /\ (Handling' <=> Handling) /\ (Replying' <=> Replying)
      /\ Newest' = Newest /\ Open' = Open
  BY <1>1 DEF Handling, Replying, Newest, Open
<1>7. Open' <= Owed'
  <2>1. Open <= Owed /\ Owed \in {0, 1} /\ Owed' = 1
    BY <1>1, <1>2, <1>4, QueuesAre DEF Owed, Acting
  <2> QED
    BY <1>6, <2>1, QueuesAre
<1>8. RequestsInStep'
  BY <1>1, <1>6 DEF IInv, InStep, RequestsInStep
<1>9. MainInStep'
  BY <1>1, <1>3, <1>4, <1>6, TransitionsAre DEF MainInStep, Acting
<1>10. AnswersInStep'
  BY <1>1, <1>6 DEF IInv, InStep, AnswersInStep, Rest, Successes
<1>11. OneCall'
  <2>1. PICK c \in 0 .. MaxCalls : About(c)
    BY DEF IInv, OneCall
  <2>2. About(c)'
    BY <1>1, <1>4, <1>6, <2>1 DEF About
  <2> QED
    BY <2>2 DEF OneCall
<1> QED
  BY <1>1, <1>5, <1>7, <1>8, <1>9, <1>10, <1>11 DEF IInv, InStep

LEMMA VerifyKeeps == ASSUME IInv, NEW t \in Threads, Verify(t) PROVE IInv'
  BY VerifyRejects, VerifyFreshKeeps, VerifyInferKeeps

LEMMA SendIsOpen ==
  ASSUME IInv, main \in {"constructing", "open", "shutdown"}, NEW m \in Messages,
         Chan!Send("main", m), acks' = acks
  PROVE  /\ ChannelTypes' /\ Acked' /\ UNCHANGED closed /\ "worker" \notin closed
         /\ ~ Stops(ToWorker) /\ ToWorker' = Append(ToWorker, m) /\ ToMain' = ToMain
<1>1. /\ ChannelTypes' /\ Acked' /\ UNCHANGED <<held, payloads, closed>>
      /\ ToMain' = ToMain
      /\ ToWorker' = IF "worker" \in closed THEN ToWorker ELSE Append(ToWorker, m)
  BY SendIs, Others DEF IInv, ToMain, ToWorker
<1>2. ~ Over
  BY DEF Over
<1>3. ~ Stops(ToWorker) /\ "worker" \notin closed
  BY <1>2 DEF IInv, Shutdowns
<1> QED
  BY <1>1, <1>3

LEMMA SendShutdownKeeps == ASSUME IInv, SendShutdown PROVE IInv'
<1>1. /\ main = "shutdown" /\ main' = "waiting" /\ Chan!Send("main", Nothing)
      /\ UNCHANGED <<acks, last, loaded, calls, client, worker, inputs>>
  BY DEF SendShutdown
<1>2. /\ ChannelTypes' /\ Acked' /\ UNCHANGED closed /\ ~ Stops(ToWorker)
      /\ ToWorker' = Append(ToWorker, Nothing) /\ ToMain' = ToMain
  BY <1>1, SendIsOpen, NothingIs
<1>3. /\ Count(ToWorker') = Count(ToWorker) /\ Count(ToWorker) = Len(ToWorker) /\ StopsLast(ToWorker')
      /\ \A k \in 1 .. Count(ToWorker) : ToWorker'[k] = ToWorker[k]
  BY <1>2, QueuesAre, QueueGrows, NothingIs
<1>4. \A u \in Threads : client[u].at = "idle" /\ ~ Acting(u)
  BY <1>1 DEF IInv, Shutdowns, Acting, Posting, Between, Waiting
<1>5. Owed \in {0, 1}
  BY <1>4 DEF Owed, Acting
<1>6. Count(ToWorker) <= 1
  <2>1. Count(ToWorker) <= Open
    BY QueuesAre DEF Open
  <2> QED
    BY <1>5, <2>1, QueuesAre
<1>7. ControlTypes'
  BY <1>1 DEF IInv, ControlTypes
<1>8. worker.at \notin {"destroy", "exited"} /\ ~ (worker.at = "handle" /\ Type(worker.got) = "SHUTDOWN")
  BY <1>1 DEF IInv, Shutdowns, Over
<1>9. Shutdowns'
  BY <1>1, <1>2, <1>3, <1>4, <1>6, <1>8 DEF IInv, Shutdowns, Over
<1>10. Clients' /\ AnswersMatch'
  BY <1>1, ClientsSame DEF IInv
<1>11. /\ Newest' = Newest /\ Open' = Open /\ Owed' = Owed /\ Sent' = Sent /\ Seen' = Seen
       /\ (Handling' <=> Handling) /\ (Replying' <=> Replying)
       /\ \A u \in Threads : ~ Acting(u)'
  BY <1>1, <1>2, <1>3, <1>4, QueuesAre
     DEF Newest, Open, Owed, Sent, Seen, Handling, Replying, Acting, Posting, Between, Waiting
<1>12. Count(ToWorker) > 0 => 1 \in 1 .. Count(ToWorker)
  BY QueuesAre
<1>13. RequestsInStep'
  BY <1>1, <1>3, <1>6, <1>11, <1>12, QueuesAre DEF IInv, InStep, RequestsInStep
<1>14. MainInStep'
  BY <1>4, <1>11 DEF IInv, InStep, MainInStep, Acting
<1>15. AnswersInStep'
  BY <1>1, <1>2, <1>3, <1>11 DEF IInv, InStep, AnswersInStep
<1>16. OneCall'
  <2>1. PICK c \in 0 .. MaxCalls : About(c)
    BY DEF IInv, OneCall
  <2>2. About(c)'
    BY <1>1, <1>2, <1>3, <1>11, <2>1 DEF About
  <2> QED
    BY <2>2 DEF OneCall
<1> QED
  BY <1>2, <1>7, <1>9, <1>10, <1>11, <1>13, <1>14, <1>15, <1>16, QueuesAre DEF IInv, InStep

\* What a thread that sends its message does next.
LEMMA SendMoves ==
  ASSUME IInv, NEW t \in Threads, Send(t)
  PROVE  /\ ChannelTypes' /\ ControlTypes' /\ Acked' /\ Shutdowns' /\ Clients' /\ AnswersMatch'
         /\ UNCHANGED <<last, worker, inputs>> /\ Posting(t)
         /\ ~ Stops(ToWorker) /\ ToWorker' = Append(ToWorker, client[t].msg) /\ ToMain' = ToMain
         /\ client[t].msg \in Messages /\ Type(client[t].msg) \in Requests
         /\ Call(client[t].msg) = client[t].call /\ client'[t].call = client[t].call
         /\ client[t].call # 0
         /\ Type(client[t].msg) = "ADD_INPUT" => Between(t)'
         /\ Type(client[t].msg) # "ADD_INPUT" => Waiting(t)'
         /\ ~ Posting(t)'
         /\ \A u \in Threads : u # t => client'[u] = client[u] /\ ~ Acting(u) /\ ~ Acting(u)'
<1> DEFINE m == client[t].msg
<1>1. /\ main \in {"constructing", "open"} /\ client[t].at = "send" /\ Chan!Send("main", m)
      /\ client \in [Threads -> ClientStates] /\ client[t] \in ClientStates /\ m \in Messages
      /\ UNCHANGED <<acks, last, main, loaded, calls, worker, inputs>>
  BY DEF IInv, ControlTypes, ClientStates, Send, Busy
<1>2. /\ Type(m) \in Requests /\ Call(m) = client[t].call /\ client[t].call # 0
      /\ Sent = Type(m) /\ Posting(t)
  BY <1>1 DEF IInv, Clients, Posting
<1>3. /\ ChannelTypes' /\ Acked' /\ UNCHANGED closed /\ "worker" \notin closed
      /\ ~ Stops(ToWorker) /\ ToWorker' = Append(ToWorker, m) /\ ToMain' = ToMain
  BY <1>1, SendIsOpen
<1>4. /\ client' \in [Threads -> ClientStates] /\ client'[t].call = client[t].call
      /\ \A u \in Threads : u # t => client'[u] = client[u]
      /\ Type(m) = "ADD_INPUT" => /\ client'[t].at = "verify" /\ Type(client'[t].msg) = "INFER"
                                  /\ Call(client'[t].msg) = client[t].call
      /\ Type(m) # "ADD_INPUT" => client'[t].at = "recv"
  <2>1. CASE Type(m) = "ADD_INPUT"
    <3>1. PICK d \in NeedsDone("INFER") :
            client' = [client EXCEPT ![t].at = "verify",
                                     ![t].msg = Msg("INFER", Call(m), "INFER", d, {})]
      BY <2>1 DEF Send
    <3>2. /\ d \in BOOLEAN /\ "INFER" \in MessageType /\ {} \in SUBSET Calls /\ Call(m) \in 0 .. MaxCalls
      BY <1>1, NeedsDoneIs, MessageIs DEF MessageType
    <3> DEFINE n == Msg("INFER", Call(m), "INFER", d, {})
    <3>3. n \in Messages /\ Type(n) = "INFER" /\ Call(n) = Call(m)
      BY <3>2, MessageIs
    <3> HIDE DEF n
    <3>4. client' = [client EXCEPT ![t].at = "verify", ![t].msg = n]
      BY <3>1 DEF n
    <3> QED
      BY <1>1, <1>2, <2>1, <3>3, <3>4 DEF ClientStates
  <2>2. CASE Type(m) # "ADD_INPUT"
    <3>1. At(t, "recv")
      BY <2>2 DEF Send
    <3> QED
      BY <1>1, <2>2, <3>1, AtIs
  <2> QED
    BY <2>1, <2>2
<1>5. /\ \A u \in Threads : u # t => ~ Acting(u) /\ ~ Acting(u)'
      /\ ~ Posting(t)'
      /\ Type(m) = "ADD_INPUT" => Between(t)' /\ ~ Waiting(t)'
      /\ Type(m) # "ADD_INPUT" => Waiting(t)' /\ ~ Between(t)'
  <2>1. \A u \in Threads : u # t => ~ Acting(u)
    BY <1>2 DEF IInv, Clients, Acting
  <2> QED
    BY <1>4, <2>1 DEF Acting, Posting, Between, Waiting
<1>6. ControlTypes'
  BY <1>1, <1>4 DEF IInv, ControlTypes
<1>7. Shutdowns'
  <2>1. ~ Over /\ ~ Over'
    BY <1>1 DEF Over
  <2>2. ~ Stops(ToWorker') /\ StopsLast(ToWorker')
    BY <1>1, <1>2, <1>3, QueuesAre, QueueGrows DEF Requests
  <2> QED
    BY <1>1, <1>3, <2>1, <2>2 DEF IInv, Shutdowns
<1>8. Clients'
  <2>1. Sent' = Sent
    BY <1>1 DEF Sent
  <2>2. client'[t].at = "verify" => /\ Type(client'[t].msg) \in Requests
                                    /\ Call(client'[t].msg) = client'[t].call /\ client'[t].call # 0
    BY <1>2, <1>4 DEF Requests
  <2>3. Between(t)' => Sent' = "ADD_INPUT"
    BY <1>2, <1>5, <2>1
  <2>4. Waiting(t)' => Sent' \in {"LOAD_NEUROPOD", "INFER"}
    BY <1>2, <1>5, <2>1 DEF Requests
  <2>5. \A u \in Threads : u # t => /\ ~ Posting(u)' /\ ~ Between(u)' /\ ~ Waiting(u)'
                                    /\ client'[u].at = "verify"
                                         => /\ Type(client'[u].msg) \in Requests
                                            /\ Call(client'[u].msg) = client'[u].call
                                            /\ client'[u].call # 0
    BY <1>4, <1>5 DEF IInv, Clients, Acting
  <2>6. \A u, v \in Threads : Acting(u)' /\ Acting(v)' => u = v
    BY <1>5
  <2> QED
    BY <1>5, <2>2, <2>3, <2>4, <2>5, <2>6 DEF Clients
<1>9. AnswersMatch'
  BY <1>4 DEF IInv, AnswersMatch
<1> QED
  BY <1>1, <1>2, <1>3, <1>4, <1>5, <1>6, <1>7, <1>8, <1>9

LEMMA SendKeeps == ASSUME IInv, NEW t \in Threads, Send(t) PROVE IInv'
<1> DEFINE m == client[t].msg
<1>1. /\ ChannelTypes' /\ ControlTypes' /\ Acked' /\ Shutdowns' /\ Clients' /\ AnswersMatch'
      /\ UNCHANGED <<last, worker, inputs>> /\ Posting(t)
      /\ ~ Stops(ToWorker) /\ ToWorker' = Append(ToWorker, m) /\ ToMain' = ToMain
      /\ m \in Messages /\ Type(m) \in Requests
      /\ Call(m) = client[t].call /\ client'[t].call = client[t].call /\ client[t].call # 0
      /\ Type(m) = "ADD_INPUT" => Between(t)'
      /\ Type(m) # "ADD_INPUT" => Waiting(t)'
      /\ ~ Posting(t)'
      /\ \A u \in Threads : u # t => client'[u] = client[u] /\ ~ Acting(u) /\ ~ Acting(u)'
  BY SendMoves
<1>2. Sent = Type(m) /\ <<Newest, Type(m)>> \in Transitions /\ ~ Waiting(t) /\ ~ Between(t)
  BY <1>1 DEF IInv, Clients, InStep, MainInStep, Posting, Between, Waiting
<1>3. Sent' = Sent /\ Seen' = Seen /\ (Handling' <=> Handling) /\ (Replying' <=> Replying)
  BY <1>1 DEF Sent, Seen, Handling, Replying
<1>4. /\ Count(ToWorker) = Len(ToWorker) /\ Count(ToWorker') = Count(ToWorker) + 1
      /\ ToWorker'[Count(ToWorker')] = m
      /\ \A k \in 1 .. Count(ToWorker) : ToWorker'[k] = ToWorker[k]
  BY <1>1, QueuesAre, QueueGrows DEF Requests
<1>5. /\ \A u \in Threads : u # t => ~ Waiting(u) /\ ~ Between(u) /\ ~ Waiting(u)' /\ ~ Between(u)' /\ ~ Posting(u)'
  BY <1>1 DEF Acting
<1>6. /\ Sent = "INFER" => Owed = 1 /\ Owed' = 2
      /\ Sent # "INFER" => Owed = 0 /\ Owed' = 1
  BY <1>1, <1>2, <1>3, <1>5 DEF Owed, Requests
<1>7. Open' = Open + 1
  <2>1. Count(ToWorker)' = Count(ToWorker) + 1 /\ Len(ToMain)' = Len(ToMain)
    BY <1>1, <1>4
  <2>2. Count(ToWorker) \in Nat /\ Len(ToMain) \in Nat
    BY QueuesAre
  <2> QED
    BY <1>3, <2>1, <2>2 DEF Open
<1>8. Open' <= Owed'
  BY <1>1, <1>2, <1>6, <1>7, QueuesAre
<1>9. Newest' = Type(m)
  BY <1>4, QueuesAre DEF Newest
<1>10. /\ Sent # "INFER" => /\ Count(ToWorker) = 0 /\ ~ Handling /\ ~ Replying /\ ToMain = <<>>
                            /\ Newest = Seen
       /\ Sent = "INFER" => Count(ToWorker) <= 1 /\ Newest = "ADD_INPUT"
  <2>1. CASE Sent # "INFER"
    BY <1>6, <2>1, NothingOpen
  <2>2. CASE Sent = "INFER"
    <3>1. Newest = "ADD_INPUT"
      BY <1>2, <2>2, TransitionsAre
    <3>2. Count(ToWorker) <= Open
      BY QueuesAre DEF Open
    <3> QED
      BY <1>6, <2>2, <3>1, <3>2, QueuesAre
  <2> QED
    BY <2>1, <2>2
<1>11. Count(ToWorker) \in {0, 1}
  BY <1>10, QueuesAre
<1>12. RequestsInStep'
  <2>1. RequestsInStep
    BY DEF IInv, InStep
  <2>2. /\ Handling' => Type(worker'.got) = Seen' /\ Seen' \in Requests
        /\ worker'.at # "rejected"
    BY <1>1, <1>3, <2>1 DEF RequestsInStep
  <2>3. CASE Count(ToWorker) = 0
    <3>1. Count(ToWorker') = 1 /\ ToWorker'[1] = m /\ Newest = Seen
      BY <1>4, <2>3 DEF Newest
    <3>2. \A k \in 1 .. Count(ToWorker') : k = 1
      BY <3>1
    <3> QED
      BY <1>1, <1>2, <1>3, <2>2, <3>1, <3>2 DEF RequestsInStep
  <2>4. CASE Count(ToWorker) = 1
    <3>1. Count(ToWorker') = 2 /\ ToWorker'[2] = m /\ ToWorker'[1] = ToWorker[1]
      BY <1>4, <2>4
    <3>2. \A k \in 1 .. Count(ToWorker') : k = 1 \/ k = 2
      BY <3>1
    <3>3. Type(m) = "INFER" /\ Type(ToWorker[1]) = "ADD_INPUT"
      BY <1>2, <1>10, <2>4 DEF Newest
    <3>4. <<Seen, Type(ToWorker[1])>> \in Transitions
      BY <2>1, <2>4 DEF RequestsInStep
    <3> QED
      BY <1>3, <2>2, <3>1, <3>2, <3>3, <3>4 DEF RequestsInStep, Requests
  <2> QED
    BY <1>11, <2>3, <2>4
<1>13. MainInStep'
  <2>1. Between(t)' => Type(m) = "ADD_INPUT"
    BY <1>1 DEF Between, Waiting
  <2> QED
    BY <1>1, <1>2, <1>3, <1>5, <1>9, <2>1 DEF MainInStep
<1>14. AnswersInStep'
  <2>1. AnswersInStep
    BY DEF IInv, InStep
  <2>2. ~ (Replying /\ Type(worker.reply) \in Successes)
    BY <1>10, <2>1 DEF AnswersInStep, Newest, Successes
  <2>3. \A k \in DOMAIN ToMain : Type(ToMain[k]) \notin Successes
    <3>1. CASE Sent # "INFER"
      BY <1>10, <3>1
    <3>2. CASE Sent = "INFER"
      BY <1>10, <2>1, <3>2 DEF AnswersInStep, Newest, Successes
    <3> QED
      BY <3>1, <3>2
  <2>4. Sent \notin Rest
    BY <1>1, <1>2 DEF Requests, Rest, Successes
  <2> QED
    BY <1>1, <1>3, <2>1, <2>2, <2>3, <2>4 DEF AnswersInStep, Successes
<1>15. OneCall'
  <2>1. PICK c \in 0 .. MaxCalls : About(c)
    BY DEF IInv, OneCall
  <2>2. client[t].call = c
    BY <1>1, <2>1 DEF About, Acting
  <2>3. \A k \in 1 .. Count(ToWorker') : k \in 1 .. Count(ToWorker) \/ k = Count(ToWorker')
    BY <1>4, QueuesAre
  <2>4. \A k \in 1 .. Count(ToWorker') : Call(ToWorker'[k]) = c
    BY <1>1, <1>4, <2>1, <2>2, <2>3 DEF About
  <2>5. About(c)'
    BY <1>1, <1>3, <2>1, <2>2, <2>4 DEF About
  <2> QED
    BY <2>5 DEF OneCall
<1> QED
  BY <1>1, <1>8, <1>12, <1>13, <1>14, <1>15 DEF IInv, InStep

\* What is received is the next answer, and the verifier lets it pass.
LEMMA RecvTakes ==
  ASSUME IInv, NEW t \in Threads, Recv(t)
  PROVE  LET m == Head(ToMain) IN
         /\ ChannelTypes' /\ Acked' /\ UNCHANGED <<closed, worker, inputs, main, loaded, calls>>
         /\ main \in {"constructing", "open"} /\ Waiting(t)
         /\ m \in Messages /\ ToWorker' = ToWorker /\ ToMain' = Tail(ToMain)
         /\ Len(ToMain) > 0 /\ m = ToMain[1] /\ Len(ToMain') = Len(ToMain) - 1
         /\ \A k \in DOMAIN ToMain' : k + 1 \in DOMAIN ToMain /\ ToMain'[k] = ToMain[k + 1]
         /\ Type(m) \in Answers
         /\ Type(m) \in Successes
              => /\ Len(ToMain) = 1 /\ Count(ToWorker) = 0 /\ ~ Handling /\ ~ Replying /\ inputs = {}
                 /\ Seen = Type(m) /\ <<Sent, Type(m)>> \in Transitions
                 /\ last' = [last EXCEPT !["main"] = Type(m)]
         /\ Type(m) \notin Successes => last' = last
         /\ client' \in [Threads -> ClientStates] /\ client'[t].at = "accepted"
         /\ client'[t].msg = m /\ client'[t].call = client[t].call
         /\ \A u \in Threads : u # t => client'[u] = client[u] /\ ~ Acting(u) /\ ~ Acting(u)'
<1> DEFINE m == Head(ToMain)
<1>1. /\ main \in {"constructing", "open"} /\ Waiting(t) /\ Chan!Receive("main")
      /\ UNCHANGED <<acks, worker, inputs, main, loaded, calls>>
      /\ client \in [Threads -> ClientStates]
  BY DEF IInv, ControlTypes, Recv, Busy, Waiting
<1>2. /\ ChannelTypes' /\ Acked' /\ UNCHANGED closed
      /\ ToMain # <<>> /\ ToMain' = Tail(ToMain) /\ m \in Messages /\ ToWorker' = ToWorker
  BY <1>1, ReceiveIs, Others DEF IInv, ToMain, ToWorker
<1>3. /\ Len(ToMain) > 0 /\ m = ToMain[1] /\ Len(Tail(ToMain)) = Len(ToMain) - 1
      /\ 1 \in DOMAIN ToMain
      /\ \A k \in DOMAIN Tail(ToMain) : k + 1 \in DOMAIN ToMain /\ Tail(ToMain)[k] = ToMain[k + 1]
  <2>1. ToMain \in Seq(Messages)
    BY QueuesAre
  <2> QED
    BY <1>2, <2>1
<1>4. /\ Type(m) \in Answers
      /\ Type(m) \in Successes
           => /\ Len(ToMain) = 1 /\ Count(ToWorker) = 0 /\ ~ Handling /\ ~ Replying /\ inputs = {}
              /\ Seen = Type(m)
  BY <1>3 DEF IInv, InStep, AnswersInStep
<1>5. \A u \in Threads : u # t => ~ Acting(u)
  BY <1>1 DEF IInv, Clients, Acting
<1>6. Sent \in {"LOAD_NEUROPOD", "INFER"}
  BY <1>1 DEF IInv, Clients
<1>7. Type(m) \in Successes => <<Sent, Type(m)>> \in Transitions
  <2> SUFFICES ASSUME Type(m) \in Successes PROVE <<Sent, Type(m)>> \in Transitions
    OBVIOUS
  <2>1. Newest = Type(m)
    BY <1>4 DEF Newest
  <2>2. \A u \in Threads : ~ Posting(u)
    BY <1>1, <1>5 DEF Acting, Posting, Waiting
  <2>3. Newest = Sent \/ <<Sent, Newest>> \in Transitions
    BY <2>2 DEF IInv, InStep, MainInStep
  <2> QED
    BY <1>6, <2>1, <2>3 DEF Successes
<1>8. Allowed("main", Type(m))
  BY <1>4, <1>7 DEF Allowed, AlwaysAllowed, Answers, Sent
<1>9. /\ Type(m) \in Successes => last' = [last EXCEPT !["main"] = Type(m)]
      /\ Type(m) \notin Successes => last' = last
  <2>1. last' = Passed("main", Type(m))
    BY <1>8 DEF Recv, ToMain
  <2> QED
    BY <1>4, <2>1 DEF Passed, AlwaysAllowed, Answers, Successes
<1>10. /\ client' \in [Threads -> ClientStates] /\ client'[t].at = "accepted"
       /\ client'[t].msg = m /\ client'[t].call = client[t].call
       /\ \A u \in Threads : u # t => client'[u] = client[u]
  <2>1. client' = [client EXCEPT ![t].at = "accepted", ![t].msg = m]
    BY <1>8 DEF Recv, ToMain
  <2> HIDE DEF m
  <2> QED
    BY <1>1, <1>2, <2>1 DEF ClientStates
<1>11. \A u \in Threads : u # t => ~ Acting(u)'
  BY <1>5, <1>10 DEF Acting, Posting, Between, Waiting
<1> QED
  BY <1>1, <1>2, <1>3, <1>4, <1>5, <1>7, <1>9, <1>10, <1>11

LEMMA RecvKeeps == ASSUME IInv, NEW t \in Threads, Recv(t) PROVE IInv'
<1> DEFINE m == Head(ToMain)
<1>1. /\ ChannelTypes' /\ Acked' /\ UNCHANGED <<closed, worker, inputs, main, loaded, calls>>
      /\ main \in {"constructing", "open"} /\ Waiting(t)
      /\ m \in Messages /\ ToWorker' = ToWorker /\ ToMain' = Tail(ToMain)
      /\ Len(ToMain) > 0 /\ m = ToMain[1] /\ Len(ToMain') = Len(ToMain) - 1
      /\ \A k \in DOMAIN ToMain' : k + 1 \in DOMAIN ToMain /\ ToMain'[k] = ToMain[k + 1]
      /\ Type(m) \in Answers
      /\ Type(m) \in Successes
           => /\ Len(ToMain) = 1 /\ Count(ToWorker) = 0 /\ ~ Handling /\ ~ Replying /\ inputs = {}
              /\ Seen = Type(m) /\ <<Sent, Type(m)>> \in Transitions
              /\ last' = [last EXCEPT !["main"] = Type(m)]
      /\ Type(m) \notin Successes => last' = last
      /\ client' \in [Threads -> ClientStates] /\ client'[t].at = "accepted"
      /\ client'[t].msg = m /\ client'[t].call = client[t].call
      /\ \A u \in Threads : u # t => client'[u] = client[u] /\ ~ Acting(u) /\ ~ Acting(u)'
  BY RecvTakes
<1> HIDE DEF m
<1>2. \A u \in Threads : ~ Acting(u)' /\ ~ Posting(u)' /\ ~ Between(u)' /\ ~ Waiting(u)' /\ ~ Posting(u)
  BY <1>1 DEF Acting, Posting, Between, Waiting
<1>3. /\ last' \in [Peers -> MessageType \cup {"none"}] /\ Seen' = Seen
      /\ Type(m) \in Successes => Sent' = Type(m)
      /\ Type(m) \notin Successes => Sent' = Sent
  <2>1. Type(m) \in MessageType /\ last \in [Peers -> MessageType \cup {"none"}]
    BY <1>1, MessageIs DEF IInv, ControlTypes
  <2> QED
    BY <1>1, <2>1, Others DEF Sent, Seen
<1>4. ControlTypes'
  BY <1>1, <1>3 DEF IInv, ControlTypes
<1>5. Shutdowns'
  BY <1>1 DEF IInv, Shutdowns, Over
<1>6. Clients'
  BY <1>1, <1>2 DEF IInv, Clients, Posting
<1>7. PICK c \in 0 .. MaxCalls : About(c)
  BY DEF IInv, OneCall
<1>8. Call(m) = c /\ m.from \subseteq {c} /\ client[t].call = c
  <2>1. 1 \in DOMAIN ToMain
    BY <1>1, QueuesAre
  <2> QED
    BY <1>1, <1>7, <2>1 DEF About, Acting
<1>9. AnswersMatch'
  BY <1>1, <1>8 DEF IInv, AnswersMatch
<1>10. /\ Count(ToWorker)' = Count(ToWorker) /\ (Handling' <=> Handling) /\ (Replying' <=> Replying)
       /\ Newest' = Newest
  BY <1>1, <1>3 DEF Handling, Replying, Newest
<1>11. About(c)'
  BY <1>1, <1>2, <1>7, <1>10 DEF About
<1>12. Open' = Open - 1
  <2>1. Len(ToMain)' = Len(ToMain) - 1
    BY <1>1
  <2>2. Count(ToWorker) \in Nat /\ Len(ToMain) \in Nat
    BY QueuesAre
  <2> QED
    BY <1>10, <2>1, <2>2 DEF Open
<1>13. Open' <= Owed'
  <2>1. CASE Type(m) \in Successes
    <3>1. Open = 1 /\ Owed' \in Nat
      BY <1>1, <2>1 DEF Open, Owed
    <3> QED
      BY <1>12, <3>1
  <2>2. CASE Type(m) \notin Successes
    <3>1. Sent \in {"LOAD_NEUROPOD", "INFER"}
      BY <1>1 DEF IInv, Clients
    <3>2. /\ Sent = "INFER" => Owed = 2 /\ Owed' = 1
          /\ Sent = "LOAD_NEUROPOD" => Owed = 1 /\ Owed' = 0
      BY <1>1, <1>2, <1>3, <2>2 DEF Owed
    <3> QED
      BY <1>12, <3>1, <3>2, QueuesAre
  <2> QED
    BY <2>1, <2>2
<1>14. RequestsInStep'
  BY <1>1, <1>3, <1>10 DEF IInv, InStep, RequestsInStep
<1>15. MainInStep'
  <2>1. Newest = Sent \/ (Newest \in Successes /\ <<Sent, Newest>> \in Transitions)
    BY <1>2 DEF IInv, InStep, MainInStep
  <2>2. CASE Type(m) \in Successes
    <3>1. Newest = Type(m)
      BY <1>1, <2>2 DEF Newest
    <3> QED
      BY <1>2, <1>3, <1>10, <2>2, <3>1 DEF MainInStep
  <2>3. CASE Type(m) \notin Successes
    BY <1>2, <1>3, <1>10, <2>1, <2>3 DEF MainInStep
  <2> QED
    BY <2>2, <2>3
<1>16. AnswersInStep'
  <2>1. AnswersInStep
    BY DEF IInv, InStep
  <2>2. \A k \in DOMAIN ToMain' : k + 1 = Len(ToMain) => k = Len(ToMain')
    <3>1. \A k \in DOMAIN ToMain' : k \in Nat
      <4>1. ToMain' \in Seq(Messages)
        BY <1>1, Others DEF ChannelTypes, ToMain
      <4> QED
        BY <4>1
    <3>2. Len(ToMain) \in Nat
      BY QueuesAre
    <3> QED
      BY <1>1, <3>1, <3>2
  <2>3. Sent' \in Rest => inputs = {}
    BY <1>1, <1>3, <2>1 DEF AnswersInStep
  <2> QED
    BY <1>1, <1>3, <1>10, <2>1, <2>2, <2>3 DEF AnswersInStep
<1> QED
  BY <1>1, <1>4, <1>5, <1>6, <1>9, <1>11, <1>13, <1>14, <1>15, <1>16 DEF IInv, InStep, OneCall

-----------------------------------------------------------------------------
\* The steps of the conversation, from the worker's side.
LEMMA WorkerRecvKeeps == ASSUME IInv, WorkerRecv PROVE IInv'
<1> DEFINE m == Head(ToWorker)
<1>1. /\ worker.at = "recv" /\ Chan!Receive("worker")
      /\ UNCHANGED <<acks, main, loaded, calls, client, inputs>>
  BY DEF WorkerRecv
<1>2. /\ ChannelTypes' /\ Acked' /\ UNCHANGED closed
      /\ ToWorker # <<>> /\ ToWorker' = Tail(ToWorker) /\ m \in Messages /\ ToMain' = ToMain
  BY <1>1, ReceiveIs, Others DEF IInv, ToMain, ToWorker
<1>3. /\ m = ToWorker[1] /\ StopsLast(Tail(ToWorker))
      /\ \A k \in 1 .. Len(ToWorker) - 1 : Tail(ToWorker)[k] = ToWorker[k + 1]
      /\ Stops(Tail(ToWorker)) => Stops(ToWorker)
      /\ Type(m) = "SHUTDOWN"
           => Tail(ToWorker) = <<>> /\ Count(ToWorker) = 0 /\ Count(Tail(ToWorker)) = 0
      /\ Type(m) # "SHUTDOWN"
           => Count(ToWorker) > 0 /\ Count(Tail(ToWorker)) = Count(ToWorker) - 1
  <2>1. ToWorker \in Seq(Messages) /\ StopsLast(ToWorker)
    BY QueuesAre DEF IInv, Shutdowns
  <2> QED
    BY <1>2, <2>1, QueueShrinks
<1>4. ~ Handling /\ ~ Replying
  BY <1>1 DEF Handling, Replying
<1>5. RequestsInStep /\ MainInStep /\ AnswersInStep
  BY DEF IInv, InStep
<1>6. Type(m) = "SHUTDOWN" \/ (Type(m) \in Requests /\ <<Seen, Type(m)>> \in Transitions)
  <2> SUFFICES ASSUME Type(m) # "SHUTDOWN" PROVE Type(m) \in Requests /\ <<Seen, Type(m)>> \in Transitions
    OBVIOUS
  <2>1. Count(ToWorker) > 0 /\ 1 \in 1 .. Count(ToWorker)
    BY <1>3, QueuesAre
  <2> QED
    BY <1>3, <1>5, <2>1 DEF RequestsInStep
<1>7. Allowed("worker", Type(m))
  BY <1>6 DEF Allowed, AlwaysAllowed, Seen
<1>8. /\ worker' = [at |-> "handle", got |-> m, reply |-> Nothing]
      /\ last' = Passed("worker", Type(m))
  BY <1>7 DEF WorkerRecv, ToWorker
<1> HIDE DEF m
<1>9. worker' \in WorkerStates /\ worker'.at = "handle" /\ worker'.got = m
  BY <1>2, <1>8, NothingIs DEF WorkerStates
<1>10. /\ last' \in [Peers -> MessageType \cup {"none"}] /\ Sent' = Sent
       /\ Type(m) = "SHUTDOWN" => Seen' = Seen
       /\ Type(m) # "SHUTDOWN" => Seen' = Type(m)
  BY <1>6, <1>8, Others
     DEF IInv, ControlTypes, Passed, AlwaysAllowed, Sent, Seen, Requests, MessageType
<1>11. ControlTypes'
  BY <1>1, <1>9, <1>10 DEF IInv, ControlTypes
<1>12. Owed' = Owed
  BY <1>1, <1>10 DEF Owed, Waiting, Between
<1>13. Handling' <=> Type(m) # "SHUTDOWN"
  BY <1>9 DEF Handling
<1>14. ~ Replying'
  BY <1>9 DEF Replying
<1>15. Count(ToWorker') \in Nat
  <2>1. ToWorker' \in Seq(Messages)
    BY <1>2, Others DEF ChannelTypes, ToWorker
  <2> QED
    BY <2>1, CountIs
<1>16. Open' = Open
  <2>1. Len(ToMain)' = Len(ToMain) /\ Count(ToWorker)' = Count(ToWorker')
    BY <1>2
  <2>2. Count(ToWorker) \in Nat /\ Len(ToMain) \in Nat
    BY QueuesAre
  <2>3. /\ Type(m) = "SHUTDOWN" => Count(ToWorker') = Count(ToWorker)
        /\ Type(m) # "SHUTDOWN" => Count(ToWorker') = Count(ToWorker) - 1
    BY <1>2, <1>3
  <2> QED
    BY <1>4, <1>13, <1>14, <1>15, <2>1, <2>2, <2>3 DEF Open
<1>17. Newest' = Newest
       /\ (Type(m) # "SHUTDOWN" => /\ Count(ToWorker) \in {1, 2}
                                   /\ Count(ToWorker) = 2 => Type(m) = "ADD_INPUT" /\ Type(ToWorker'[1]) = "INFER")
  <2>1. CASE Type(m) = "SHUTDOWN"
    BY <1>2, <1>3, <1>10, <2>1 DEF Newest
  <2>2. CASE Type(m) # "SHUTDOWN"
    <3>1. Count(ToWorker) \in {1, 2}
      BY <1>3, <1>5, <2>2, QueuesAre DEF RequestsInStep
    <3>2. CASE Count(ToWorker) = 1
      BY <1>2, <1>3, <1>10, <2>2, <3>2 DEF Newest
    <3>3. CASE Count(ToWorker) = 2
      <4>1. Len(ToWorker) >= 2 /\ Len(ToWorker) \in Nat
        <5>1. ToWorker \in Seq(Messages)
          BY QueuesAre
        <5> QED
          BY <3>3, <5>1, CountIs
      <4>2. ToWorker'[1] = ToWorker[2]
        BY <1>2, <1>3, <4>1
      <4>3. Type(m) = "ADD_INPUT" /\ Type(ToWorker[2]) = "INFER"
        BY <1>3, <1>5, <3>3 DEF RequestsInStep
      <4>4. Count(ToWorker') = 1
        BY <1>2, <1>3, <2>2, <3>3
      <4> QED
        BY <3>3, <4>2, <4>3, <4>4 DEF Newest
    <3> QED
      BY <3>1, <3>2, <3>3
  <2> QED
    BY <2>1, <2>2
<1>18. \A k \in 1 .. Count(ToWorker') : k + 1 \in 1 .. Count(ToWorker) /\ ToWorker'[k] = ToWorker[k + 1]
  <2>1. ToWorker \in Seq(Messages)
    BY QueuesAre
  <2>2. Count(ToWorker) \in Nat /\ Count(ToWorker) <= Len(ToWorker) /\ Len(ToWorker) \in Nat
    BY <2>1, CountIs
  <2>3. Count(ToWorker') = 0 \/ Count(ToWorker') = Count(ToWorker) - 1
    BY <1>2, <1>3
  <2> QED
    BY <1>2, <1>3, <1>15, <2>2, <2>3
<1>19. RequestsInStep'
  <2>1. /\ Handling' => Type(worker'.got) = Seen' /\ Seen' \in Requests
        /\ worker'.at # "rejected"
    BY <1>6, <1>9, <1>10, <1>13
  <2>2. \A k \in 1 .. Count(ToWorker') : Type(ToWorker'[k]) \in Requests
    BY <1>5, <1>18 DEF RequestsInStep
  <2>3. Count(ToWorker') = 0 \/ (Count(ToWorker') = 1 /\ <<Seen', Type(ToWorker'[1])>> \in Transitions)
    <3>1. CASE Type(m) = "SHUTDOWN"
      BY <1>2, <1>3, <3>1
    <3>2. CASE Type(m) # "SHUTDOWN"
      <4>1. Count(ToWorker') = Count(ToWorker) - 1 /\ Seen' = Type(m)
        BY <1>2, <1>3, <1>10, <3>2
      <4>2. Count(ToWorker) = 1 \/ Count(ToWorker) = 2
        BY <1>17, <3>2
      <4>3. Count(ToWorker) = 2 => <<Seen', Type(ToWorker'[1])>> \in Transitions
        BY <1>17, <3>2, <4>1, TransitionsAre
      <4> QED
        BY <4>1, <4>2, <4>3
    <3> QED
      BY <3>1, <3>2
  <2> QED
    BY <2>1, <2>2, <2>3 DEF RequestsInStep
<1>20. MainInStep'
  BY <1>1, <1>5, <1>10, <1>17 DEF MainInStep, Posting, Between
<1>21. AnswersInStep'
  <2>1. Type(m) # "SHUTDOWN" => \A k \in DOMAIN ToMain : Type(ToMain[k]) \notin Successes
    BY <1>3, <1>5, QueuesAre DEF AnswersInStep
  <2>2. Type(m) = "SHUTDOWN" => Count(ToWorker') = 0 /\ Seen' = Seen
    BY <1>2, <1>3, <1>10
  <2> QED
    <3>1. Sent' \in Rest => inputs' = {}
      BY <1>1, <1>5, <1>10 DEF AnswersInStep
    <3>2. \A k \in DOMAIN ToMain : Type(ToMain[k]) \in Answers
      BY <1>5 DEF AnswersInStep
    <3>3. CASE Type(m) # "SHUTDOWN"
      BY <1>2, <1>14, <2>1, <3>1, <3>2, <3>3 DEF AnswersInStep
    <3>4. CASE Type(m) = "SHUTDOWN"
      BY <1>1, <1>2, <1>5, <1>13, <1>14, <2>2, <3>1, <3>4 DEF AnswersInStep
    <3> QED
      BY <3>3, <3>4
<1>22. Shutdowns'
  <2>1. Count(ToWorker') <= 1
    BY <1>2, <1>3, <1>17
  <2>2. Stops(ToWorker') => Over'
    BY <1>1, <1>2, <1>3 DEF IInv, Shutdowns, Over
  <2>3. Type(m) = "SHUTDOWN" => ToWorker' = <<>> /\ Over'
    <3>1. Type(m) = "SHUTDOWN" => Stops(ToWorker)
      <4>1. 1 \in DOMAIN ToWorker
        BY <1>2, QueuesAre
      <4> QED
        BY <1>3, <4>1 DEF Stops
    <3> QED
      BY <1>1, <1>2, <1>3, <3>1 DEF IInv, Shutdowns, Over
  <2>4. "worker" \notin closed
    BY <1>1 DEF IInv, Shutdowns
  <2> QED
    BY <1>1, <1>2, <1>3, <1>9, <2>1, <2>2, <2>3, <2>4 DEF IInv, Shutdowns
<1>23. Clients' /\ AnswersMatch'
  BY <1>1, <1>10 DEF IInv, Clients, AnswersMatch, Acting, Posting, Between, Waiting
<1>24. OneCall'
  <2>1. PICK c \in 0 .. MaxCalls : About(c)
    BY DEF IInv, OneCall
  <2>2. Type(m) # "SHUTDOWN" => Call(m) = c
    BY <1>3, <2>1, QueuesAre DEF About
  <2>3. \A k \in 1 .. Count(ToWorker') : Call(ToWorker'[k]) = c
    BY <1>18, <2>1 DEF About
  <2>4. About(c)'
    <3>1. c # 0 \/ (Count(ToWorker') = 0 /\ ~ Handling')
      BY <1>2, <1>3, <1>13, <2>1, QueuesAre DEF About
    <3> QED
      BY <1>1, <1>2, <1>9, <1>13, <1>14, <2>1, <2>2, <2>3, <3>1
         DEF About, Acting, Posting, Between, Waiting
  <2> QED
    BY <2>4 DEF OneCall
<1>25. Open' <= Owed'
  BY <1>12, <1>16, QueuesAre
<1> QED
  BY <1>2, <1>11, <1>19, <1>20, <1>21, <1>22, <1>23, <1>24, <1>25 DEF IInv, InStep

\* What a handler leaves alone, and what holds while it runs.
LEMMA HandleFrame ==
  ASSUME IInv, worker.at = "handle", UNCHANGED <<channel, acks, main, loaded, calls, client>>,
         worker' \in WorkerStates, worker'.at \in {"keep", "send", "bottom"},
         last' \in [Peers -> MessageType \cup {"none"}], Sent' = Sent, inputs' \subseteq Calls
  PROVE  /\ ChannelTypes' /\ ControlTypes' /\ Acked' /\ Shutdowns' /\ Clients' /\ AnswersMatch'
         /\ ToWorker' = ToWorker /\ ToMain' = ToMain /\ Owed' = Owed
         /\ \A t \in Threads : /\ Posting(t)' <=> Posting(t)
                               /\ Between(t)' <=> Between(t)
                               /\ Acting(t)' <=> Acting(t)
<1>1. ChannelTypes' /\ Acked' /\ ToWorker' = ToWorker /\ ToMain' = ToMain /\ UNCHANGED closed
  BY ChannelSame DEF IInv, channel, ToWorker, ToMain
<1>2. ControlTypes'
  BY DEF IInv, ControlTypes
<1>3. Shutdowns'
  BY <1>1 DEF IInv, Shutdowns, Over
<1>4. \A t \in Threads : /\ Posting(t)' <=> Posting(t)
                         /\ Between(t)' <=> Between(t)
                         /\ Waiting(t)' <=> Waiting(t)
                         /\ Acting(t)' <=> Acting(t)
  BY DEF Acting, Posting, Between, Waiting
<1>5. Clients' /\ AnswersMatch'
  BY <1>4 DEF IInv, Clients, AnswersMatch
<1>6. Owed' = Owed
  BY <1>4 DEF Owed
<1> QED
  BY <1>1, <1>2, <1>3, <1>4, <1>5, <1>6

LEMMA HandlingIs ==
  ASSUME IInv, worker.at = "handle", Type(worker.got) \in Requests
  PROVE  /\ Handling /\ ~ Replying /\ Seen = Type(worker.got) /\ Sent \notin Rest
         /\ \A k \in DOMAIN ToMain : Type(ToMain[k]) \in Answers /\ Type(ToMain[k]) \notin Successes
<1>1. Handling /\ ~ Replying
  BY DEF Handling, Replying, Requests
<1>2. Owed # 0
  <2>1. Open >= 1
    BY <1>1, QueuesAre DEF Open
  <2> QED
    BY <2>1, QueuesAre
<1>3. Sent \notin Rest
  BY <1>2 DEF Owed, Rest, Successes
<1> QED
  BY <1>1, <1>3 DEF IInv, InStep, RequestsInStep, AnswersInStep

\* The answer to what the worker has received.
LEMMA AnswerIs ==
  ASSUME IInv, worker.at = "handle", Type(worker.got) \in Requests,
         NEW type \in Answers, NEW from \in SUBSET Calls, Answer(type, from),
         type = "EXCEPTION" \/ <<Seen, type>> \in Transitions
  PROVE  /\ worker' \in WorkerStates /\ worker'.at \in {"keep", "send"} /\ Replying' /\ ~ Handling'
         /\ Type(worker'.reply) = type /\ Call(worker'.reply) = Call(worker.got)
         /\ worker'.reply.from = from
         /\ last' \in [Peers -> MessageType \cup {"none"}] /\ Sent' = Sent
         /\ Seen' = IF type = "EXCEPTION" THEN Seen ELSE type
<1>1. Allowed("worker", type)
  BY DEF Allowed, AlwaysAllowed, Seen
<1>2. PICK d \in NeedsDone(type) :
        worker' = [worker EXCEPT !.at = IF d THEN "keep" ELSE "send",
                                 !.reply = Msg(type, Call(worker.got), Type(worker.got), d, from)]
  BY <1>1 DEF Answer
<1> DEFINE m == Msg(type, Call(worker.got), Type(worker.got), d, from)
<1>3. m \in Messages /\ Type(m) = type /\ Call(m) = Call(worker.got) /\ m.from = from
  <2>1. /\ type \in MessageType /\ d \in BOOLEAN /\ worker.got \in Messages
        /\ Call(worker.got) \in 0 .. MaxCalls /\ Type(worker.got) \in MessageType
    BY QueuesAre, NeedsDoneIs, MessageIs DEF Answers, Successes, MessageType, WorkerStates
  <2> QED
    BY <2>1, MessageIs
<1> HIDE DEF m
<1>4. /\ worker' \in WorkerStates /\ worker'.at \in {"keep", "send"} /\ worker'.reply = m
  BY <1>2, <1>3, QueuesAre DEF WorkerStates, m
<1>5. Replying' /\ ~ Handling'
  BY <1>4 DEF Replying, Handling
<1>6. last' = IF type = "EXCEPTION" THEN last ELSE [last EXCEPT !["worker"] = type]
  BY <1>1 DEF Answer, Passed, AlwaysAllowed, Answers, Successes
<1>7. /\ last' \in [Peers -> MessageType \cup {"none"}] /\ Sent' = Sent
      /\ Seen' = IF type = "EXCEPTION" THEN Seen ELSE type
  BY <1>6, Others DEF IInv, ControlTypes, Answers, Successes, MessageType, Sent, Seen
<1> QED
  BY <1>3, <1>4, <1>5, <1>7

\* A handler that succeeds.
LEMMA SuccessKeeps ==
  ASSUME IInv, worker.at = "handle", UNCHANGED <<channel, acks, main, loaded, calls, client>>,
         NEW type \in Successes, NEW from \in SUBSET Calls, Answer(type, from),
         \/ Type(worker.got) = "LOAD_NEUROPOD" /\ type = "LOAD_SUCCESS" /\ inputs' = {}
         \/ Type(worker.got) = "INFER" /\ type = "RETURN_OUTPUT" /\ inputs' = inputs,
         from \subseteq inputs
  PROVE  IInv'
<1>1. Type(worker.got) \in Requests /\ type \in Answers
  BY DEF Requests, Answers
<1>2. /\ Handling /\ ~ Replying /\ Seen = Type(worker.got) /\ Sent \notin Rest
      /\ \A k \in DOMAIN ToMain : Type(ToMain[k]) \in Answers /\ Type(ToMain[k]) \notin Successes
  BY <1>1, HandlingIs
<1>3. <<Seen, type>> \in Transitions
  BY <1>2, TransitionsAre
<1>4. /\ worker' \in WorkerStates /\ worker'.at \in {"keep", "send"} /\ Replying' /\ ~ Handling'
      /\ Type(worker'.reply) = type /\ Call(worker'.reply) = Call(worker.got)
      /\ worker'.reply.from = from
      /\ last' \in [Peers -> MessageType \cup {"none"}] /\ Sent' = Sent /\ Seen' = type
  BY <1>1, <1>3, AnswerIs DEF Successes
<1>5. inputs' \subseteq inputs /\ inputs \subseteq Calls
  BY DEF IInv, ControlTypes
<1>6. /\ ChannelTypes' /\ ControlTypes' /\ Acked' /\ Shutdowns' /\ Clients' /\ AnswersMatch'
      /\ ToWorker' = ToWorker /\ ToMain' = ToMain /\ Owed' = Owed
      /\ \A t \in Threads : /\ Posting(t)' <=> Posting(t)
                            /\ Between(t)' <=> Between(t)
                            /\ Acting(t)' <=> Acting(t)
  BY <1>4, <1>5, HandleFrame
<1>7. Count(ToWorker) = 0
  <2> SUFFICES ASSUME Count(ToWorker) > 0 PROVE FALSE
    BY QueuesAre
  <2>1. 1 \in 1 .. Count(ToWorker)
    BY QueuesAre
  <2>2. Type(ToWorker[1]) \in Requests /\ <<Seen, Type(ToWorker[1])>> \in Transitions
    BY <2>1 DEF IInv, InStep, RequestsInStep
  <2> QED
    BY <1>2, <2>2, TransitionsAre DEF Requests
<1>8. Newest = Type(worker.got) /\ Newest' = type /\ Count(ToWorker)' = 0
  BY <1>2, <1>4, <1>6, <1>7 DEF Newest
<1>9. Open' = Open
  <2>1. Len(ToMain)' = Len(ToMain) /\ Len(ToMain) \in Nat
    BY <1>6, QueuesAre
  <2> QED
    BY <1>2, <1>4, <1>7, <1>8, <2>1 DEF Open
<1>10. \A t \in Threads : ~ Posting(t) /\ ~ Between(t)
  <2>1. \A t \in Threads : Posting(t) => Type(client[t].msg) \in Requests /\ <<Newest, Type(client[t].msg)>> \in Transitions
    BY DEF IInv, Clients, InStep, MainInStep
  <2>2. \A t \in Threads : Between(t) => Newest = "ADD_INPUT"
    BY DEF IInv, InStep, MainInStep
  <2> QED
    BY <1>8, <2>1, <2>2, TransitionsAre DEF Requests
<1>11. Sent = Newest
  <2>1. Newest \notin Successes
    BY <1>8 DEF Successes
  <2> QED
    BY <1>10, <2>1 DEF IInv, InStep, MainInStep
<1>12. MainInStep'
  BY <1>2, <1>3, <1>4, <1>6, <1>8, <1>10, <1>11 DEF MainInStep
<1>13. RequestsInStep'
  BY <1>4, <1>7, <1>8 DEF RequestsInStep
<1>14. AnswersInStep'
  BY <1>1, <1>2, <1>4, <1>6, <1>8 DEF AnswersInStep
<1>15. OneCall'
  <2>1. PICK c \in 0 .. MaxCalls : About(c)
    BY DEF IInv, OneCall
  <2>2. \A t \in Threads : client'[t].call = client[t].call
    OBVIOUS
  <2>3. About(c)'
    BY <1>2, <1>4, <1>5, <1>6, <1>8, <2>1, <2>2 DEF About
  <2> QED
    BY <2>3 DEF OneCall
<1> QED
  BY <1>6, <1>9, <1>12, <1>13, <1>14, <1>15, QueuesAre DEF IInv, InStep

\* A handler that goes on with the same conversation: it throws, or it is
\* ADD_INPUT's, to which there is no answer.
LEMMA GoesOnKeeps ==
  ASSUME IInv, worker.at = "handle", UNCHANGED <<channel, acks, main, loaded, calls, client>>,
         Type(worker.got) \in Requests,
         inputs' = inputs \/ inputs' = inputs \cup {Call(worker.got)}, inputs' \subseteq Calls,
         worker' \in WorkerStates, worker'.at \in {"keep", "send", "bottom"}, ~ Handling',
         Replying' => /\ Type(worker'.reply) = "EXCEPTION" /\ Call(worker'.reply) = Call(worker.got)
                      /\ worker'.reply.from = {},
         last' \in [Peers -> MessageType \cup {"none"}], Sent' = Sent, Seen' = Seen
  PROVE  IInv'
<1>1. /\ Handling /\ ~ Replying /\ Seen = Type(worker.got) /\ Sent \notin Rest
      /\ \A k \in DOMAIN ToMain : Type(ToMain[k]) \in Answers /\ Type(ToMain[k]) \notin Successes
  BY HandlingIs
<1>2. /\ ChannelTypes' /\ ControlTypes' /\ Acked' /\ Shutdowns' /\ Clients' /\ AnswersMatch'
      /\ ToWorker' = ToWorker /\ ToMain' = ToMain /\ Owed' = Owed
      /\ \A t \in Threads : /\ Posting(t)' <=> Posting(t)
                            /\ Between(t)' <=> Between(t)
                            /\ Acting(t)' <=> Acting(t)
  BY HandleFrame
<1>3. Newest' = Newest /\ Count(ToWorker)' = Count(ToWorker)
  BY <1>2 DEF Newest
<1>4. Open' <= Open /\ Open' \in Nat
  <2>1. Count(ToWorker) \in Nat /\ Len(ToMain) \in Nat
    BY QueuesAre
  <2> QED
    BY <1>1, <1>2, <1>3, <2>1 DEF Open
<1>5. Open' <= Owed'
  <2>1. Owed \in Nat
    BY DEF Owed
  <2> QED
    BY <1>2, <1>4, <2>1, QueuesAre
<1>6. RequestsInStep'
  BY <1>2, <1>3 DEF IInv, InStep, RequestsInStep
<1>7. MainInStep'
  BY <1>2, <1>3 DEF IInv, InStep, MainInStep
<1>8. AnswersInStep'
  BY <1>1, <1>2 DEF AnswersInStep, Answers, Successes
<1>9. OneCall'
  <2>1. PICK c \in 0 .. MaxCalls : About(c)
    BY DEF IInv, OneCall
  <2>2. \A t \in Threads : client'[t].call = client[t].call
    OBVIOUS
  <2>3. About(c)'
    BY <1>1, <1>2, <1>3, <2>1, <2>2 DEF About
  <2> QED
    BY <2>3 DEF OneCall
<1> QED
  BY <1>2, <1>5, <1>6, <1>7, <1>8, <1>9 DEF IInv, InStep

LEMMA InputIs ==
  ASSUME IInv, worker.at = "handle", Type(worker.got) = "ADD_INPUT",
         inputs' = inputs \cup {Call(worker.got)}
  PROVE  inputs' \subseteq Calls
<1>1. Call(worker.got) \in 0 .. MaxCalls /\ inputs \subseteq Calls
  BY QueuesAre, MessageIs DEF WorkerStates, IInv, ControlTypes
<1>2. Call(worker.got) # 0
  BY DEF IInv, OneCall, About, Handling
<1>3. Call(worker.got) \in Calls
  BY <1>1, <1>2, CallsAssumption DEF Calls
<1> QED
  BY <1>1, <1>3

LEMMA HandleKeeps == ASSUME IInv, Handle PROVE IInv'
<1>1. worker.at = "handle" /\ UNCHANGED <<channel, acks, main, loaded, calls, client>>
  BY DEF Handle
<1>2. inputs \subseteq Calls /\ {} \in SUBSET Calls /\ {} \subseteq inputs
  BY DEF IInv, ControlTypes
<1>3. CASE HandleLoad
  BY <1>1, <1>2, <1>3, SuccessKeeps DEF HandleLoad, Successes
<1>4. CASE HandleInfer
  BY <1>1, <1>2, <1>4, SuccessKeeps DEF HandleInfer, Successes
<1>5. CASE HandleAddInput
  <2>1. /\ Type(worker.got) = "ADD_INPUT" /\ inputs' = inputs \cup {Call(worker.got)}
        /\ WorkerAt("bottom") /\ UNCHANGED last
    BY <1>5 DEF HandleAddInput
  <2>2. worker' \in WorkerStates /\ worker'.at = "bottom"
    BY <2>1, QueuesAre, WorkerAtIs
  <2>3. ~ Handling' /\ ~ Replying'
    BY <2>2 DEF Handling, Replying
  <2>4. last' \in [Peers -> MessageType \cup {"none"}] /\ Sent' = Sent /\ Seen' = Seen
    BY <2>1 DEF IInv, ControlTypes, Sent, Seen
  <2>5. inputs' \subseteq Calls
    BY <1>1, <2>1, InputIs
  <2> QED
    BY <1>1, <2>1, <2>2, <2>3, <2>4, <2>5, GoesOnKeeps DEF Requests
<1>6. CASE HandleThrows
  <2>1. /\ Type(worker.got) \in Requests /\ Answer("EXCEPTION", {})
        /\ \/ inputs' = inputs
           \/ Type(worker.got) = "ADD_INPUT" /\ inputs' = inputs \cup {Call(worker.got)}
    BY <1>6, ThrowingAssumption DEF HandleThrows, Requests
  <2>2. "EXCEPTION" \in Answers
    BY DEF Answers
  <2>3. /\ worker' \in WorkerStates /\ worker'.at \in {"keep", "send"} /\ Replying' /\ ~ Handling'
        /\ Type(worker'.reply) = "EXCEPTION" /\ Call(worker'.reply) = Call(worker.got)
        /\ worker'.reply.from = {}
        /\ last' \in [Peers -> MessageType \cup {"none"}] /\ Sent' = Sent /\ Seen' = Seen
    BY <1>1, <1>2, <2>1, <2>2, AnswerIs
  <2>4. inputs' \subseteq Calls
    BY <1>1, <1>2, <2>1, InputIs
  <2> QED
    BY <1>1, <2>1, <2>3, <2>4, GoesOnKeeps
<1> QED
  BY <1>3, <1>4, <1>5, <1>6 DEF Handle

LEMMA WorkerSendKeeps == ASSUME IInv, WorkerSend PROVE IInv'
<1> DEFINE m == worker.reply
<1>1. /\ worker.at = "send" /\ Chan!Send("worker", m) /\ WorkerAt("bottom")
      /\ inputs' = IF Type(m) = "RETURN_OUTPUT" THEN {} ELSE inputs
      /\ UNCHANGED <<acks, last, main, loaded, calls, client>>
  BY DEF WorkerSend
<1>2. worker \in WorkerStates /\ m \in Messages
  BY QueuesAre DEF WorkerStates
<1>3. worker' \in WorkerStates /\ worker'.at = "bottom"
  BY <1>1, <1>2, WorkerAtIs
<1>4. /\ ChannelTypes' /\ Acked' /\ UNCHANGED closed /\ ToWorker' = ToWorker
      /\ ToMain' = ToMain \/ ToMain' = Append(ToMain, m)
  <2>1. /\ ChannelTypes' /\ Acked' /\ UNCHANGED closed
        /\ unread'["worker"] = unread["worker"]
        /\ unread'["main"] = IF "main" \in closed THEN unread["main"] ELSE Append(unread["main"], m)
    BY <1>1, <1>2, SendIs, Others DEF IInv
  <2> HIDE DEF m
  <2>2. unread'["main"] = unread["main"] \/ unread'["main"] = Append(unread["main"], m)
    BY <2>1
  <2> QED
    BY <2>1, <2>2 DEF ToMain, ToWorker
<1>5. Replying /\ ~ Handling /\ ~ Replying' /\ ~ Handling'
  BY <1>1, <1>3 DEF Replying, Handling
<1>6. inputs' \subseteq inputs
  BY <1>1
<1>7. ControlTypes'
  BY <1>1, <1>3, <1>6 DEF IInv, ControlTypes
<1>8. Shutdowns'
  BY <1>1, <1>3, <1>4 DEF IInv, Shutdowns, Over
<1>9. Clients' /\ AnswersMatch'
  BY <1>1, ClientsSame DEF IInv
<1>10. Sent' = Sent /\ Seen' = Seen /\ Count(ToWorker)' = Count(ToWorker) /\ Newest' = Newest /\ Owed' = Owed
  BY <1>1, <1>4 DEF Sent, Seen, Newest, Owed, Waiting, Between
<1>11. /\ Len(ToMain)' = Len(ToMain) \/ Len(ToMain)' = Len(ToMain) + 1
       /\ \A k \in DOMAIN ToMain' : \/ k \in DOMAIN ToMain /\ ToMain'[k] = ToMain[k]
                                    \/ k = Len(ToMain') /\ ToMain'[k] = m
  <2>1. ToMain \in Seq(Messages)
    BY QueuesAre
  <2>2. CASE ToMain' = ToMain
    BY <2>2
  <2>3. CASE ToMain' = Append(ToMain, m)
    <3>1. /\ Len(Append(ToMain, m)) = Len(ToMain) + 1 /\ Append(ToMain, m)[Len(ToMain) + 1] = m
          /\ DOMAIN Append(ToMain, m) = 1 .. (Len(ToMain) + 1) /\ DOMAIN ToMain = 1 .. Len(ToMain)
          /\ Len(ToMain) \in Nat
          /\ \A k \in 1 .. Len(ToMain) : Append(ToMain, m)[k] = ToMain[k]
      BY <1>2, <2>1
    <3>2. \A k \in 1 .. (Len(ToMain) + 1) : k \in 1 .. Len(ToMain) \/ k = Len(ToMain) + 1
      BY <3>1
    <3> QED
      BY <2>3, <3>1, <3>2
  <2> QED
    BY <1>4, <2>2, <2>3
<1>12. Open' <= Owed'
  <2>1. Count(ToWorker) \in Nat /\ Len(ToMain) \in Nat /\ Owed \in Nat
    BY QueuesAre DEF Owed
  <2>2. Open' <= Open /\ Open' \in Nat
    BY <1>5, <1>10, <1>11, <2>1 DEF Open
  <2> QED
    BY <1>10, <2>1, <2>2, QueuesAre
<1>13. RequestsInStep'
  BY <1>3, <1>4, <1>5, <1>10 DEF IInv, InStep, RequestsInStep
<1>14. MainInStep'
  BY <1>1, <1>10 DEF IInv, InStep, MainInStep, Posting, Between
<1>15. AnswersInStep'
  <2>1. AnswersInStep
    BY DEF IInv, InStep
  <2>2. \A k \in DOMAIN ToMain : Type(ToMain[k]) \in Answers /\ Type(ToMain[k]) \notin Successes
    BY <1>5, <2>1 DEF AnswersInStep
  <2>3. Type(m) \in Answers
    BY <1>5, <2>1 DEF AnswersInStep
  <2>4. Type(m) \in Successes => Count(ToWorker) = 0 /\ Seen = Type(m) /\ inputs' = {}
    BY <1>1, <1>5, <2>1 DEF AnswersInStep, Successes
  <2>5. Sent' \in Rest => inputs' = {}
    BY <1>6, <1>10, <2>1 DEF AnswersInStep
  <2>6. ASSUME NEW k \in DOMAIN ToMain'
        PROVE  /\ Type(ToMain'[k]) \in Answers
               /\ Type(ToMain'[k]) \in Successes
                    => /\ k = Len(ToMain') /\ Count(ToWorker') = 0 /\ ~ Handling' /\ ~ Replying'
                       /\ Seen' = Type(ToMain'[k]) /\ inputs' = {}
    <3>1. CASE k \in DOMAIN ToMain /\ ToMain'[k] = ToMain[k]
      BY <2>2, <3>1
    <3>2. CASE k = Len(ToMain') /\ ToMain'[k] = m
      BY <1>5, <1>10, <2>3, <2>4, <3>2
    <3> QED
      BY <1>11, <2>6, <3>1, <3>2
  <2> QED
    BY <1>5, <2>5, <2>6 DEF AnswersInStep
<1>16. OneCall'
  <2>1. PICK c \in 0 .. MaxCalls : About(c)
    BY DEF IInv, OneCall
  <2>2. \A k \in DOMAIN ToMain' : Call(ToMain'[k]) = c /\ ToMain'[k].from \subseteq {c}
    BY <1>5, <1>11, <2>1 DEF About
  <2>3. About(c)'
    BY <1>1, <1>4, <1>5, <1>6, <1>10, <2>1, <2>2 DEF About, Acting, Posting, Between, Waiting
  <2> QED
    BY <2>3 DEF OneCall
<1> QED
  BY <1>4, <1>7, <1>8, <1>9, <1>12, <1>13, <1>14, <1>15, <1>16 DEF IInv, InStep

-----------------------------------------------------------------------------
\* All together.
LEMMA Start == Init => IInv
<1> SUFFICES ASSUME Init PROVE IInv
  OBVIOUS
<1>1. /\ unread = [p \in Peers |-> <<>>] /\ held = [p \in Peers |-> {}]
      /\ payloads = [p \in Peers |-> {}] /\ closed = {} /\ acks = [p \in Peers |-> {}]
      /\ last = [p \in Peers |-> "none"] /\ main \in {"constructing", "open"} /\ loaded = FALSE
      /\ calls = 0 /\ client = [t \in Threads |-> Idle]
      /\ worker = [at |-> "recv", got |-> Nothing, reply |-> Nothing] /\ inputs = {}
  BY DEF Init, Chan!Init
<1>2. ToWorker = <<>> /\ ToMain = <<>> /\ Sent = "none" /\ Seen = "none"
  BY <1>1, Others DEF ToWorker, ToMain, Sent, Seen
<1>3. <<>> \in Seq(Messages) /\ Len(<<>>) = 0 /\ DOMAIN <<>> = {}
  OBVIOUS
<1>4. ChannelTypes
  BY <1>1, <1>3 DEF ChannelTypes
<1>5. Acked
  BY <1>1, <1>3 DEF Acked
<1>6. ControlTypes
  <2>1. last \in [Peers -> MessageType \cup {"none"}] /\ calls \in 0 .. MaxCalls
    BY <1>1, CallsAssumption
  <2>2. client \in [Threads -> ClientStates]
    BY <1>1, IdleIs
  <2>3. worker \in WorkerStates
    BY <1>1, NothingIs DEF WorkerStates
  <2> QED
    BY <1>1, <2>1, <2>2, <2>3 DEF ControlTypes
<1>7. \A t \in Threads : client[t].at = "idle"
  BY <1>1, IdleIs
<1>8. \A t \in Threads : ~ Acting(t) /\ ~ Posting(t) /\ ~ Between(t) /\ ~ Waiting(t)
  BY <1>7 DEF Acting, Posting, Between, Waiting
<1>9. Clients /\ AnswersMatch
  BY <1>7, <1>8 DEF Clients, AnswersMatch
<1>10. ~ Stops(ToWorker) /\ StopsLast(ToWorker) /\ Count(ToWorker) = 0
  BY <1>2, <1>3 DEF Stops, StopsLast, Count
<1>11. Shutdowns
  BY <1>1, <1>2, <1>7, <1>10 DEF Shutdowns
<1>12. ~ Handling /\ ~ Replying /\ Newest = "none"
  BY <1>1, <1>2, <1>10 DEF Handling, Replying, Newest
<1>13. Open <= Owed
  BY <1>2, <1>3, <1>10, <1>12 DEF Open, Owed
<1>14. RequestsInStep
  BY <1>1, <1>10, <1>12 DEF RequestsInStep
<1>15. MainInStep
  BY <1>2, <1>8, <1>12 DEF MainInStep
<1>16. AnswersInStep
  BY <1>1, <1>2, <1>3, <1>12 DEF AnswersInStep
<1>17. About(0)
  BY <1>1, <1>2, <1>3, <1>8, <1>10, <1>12 DEF About
<1>18. 0 \in 0 .. MaxCalls
  BY CallsAssumption
<1> QED
  BY <1>4, <1>5, <1>6, <1>9, <1>11, <1>13, <1>14, <1>15, <1>16, <1>17, <1>18 DEF IInv, InStep, OneCall

LEMMA StutterKeeps == ASSUME IInv, UNCHANGED vars PROVE IInv'
<1>1. UNCHANGED <<channel, acks, last, main, loaded, calls, client, worker, inputs>>
  BY DEF vars
<1>2. ChannelTypes' /\ Acked' /\ ToWorker' = ToWorker /\ ToMain' = ToMain /\ UNCHANGED closed
  BY <1>1, ChannelSame DEF IInv, channel, ToWorker, ToMain
<1>3. ControlTypes' /\ Shutdowns'
  BY <1>1, <1>2 DEF IInv, ControlTypes, Shutdowns, Over
<1> QED
  BY <1>1, <1>2, <1>3, MainFrame

LEMMA StepKeeps == IInv /\ [Next]_vars => IInv'
<1> SUFFICES ASSUME IInv, [Next]_vars PROVE IInv'
  OBVIOUS
<1>1. ASSUME NEW t \in Threads, LoadModel(t) \/ Infer(t) \/ ClientStep(t) PROVE IInv'
  BY <1>1, LoadModelKeeps, InferKeeps, VerifyKeeps, KeepKeeps, SendKeeps, RecvKeeps, ReturnKeeps
     DEF ClientStep
<1>2. ASSUME Destroy \/ DestructorStep \/ MainCrash PROVE IInv'
  BY <1>2, DestroyKeeps, SendShutdownKeeps, ReapKeeps, CloseKeeps, MainTimeoutKeeps, MainCrashKeeps
     DEF DestructorStep
<1>3. ASSUME WorkerStep \/ WorkerCrash PROVE IInv'
  BY <1>3, WorkerRecvKeeps, HandleKeeps, HandleShutdownKeeps, WorkerKeepKeeps, WorkerSendKeeps,
     WorkerBottomKeeps, WorkerCloseKeeps, WorkerEndKeeps DEF WorkerStep
<1>4. ASSUME DoneStep PROVE IInv'
  BY <1>4, DoneKeeps DEF DoneStep
<1>5. ASSUME UNCHANGED vars PROVE IInv'
  BY <1>5, StutterKeeps
<1> QED
  BY <1>1, <1>2, <1>3, <1>4, <1>5 DEF Next

(***************************************************************************)
(* The inductive invariant: both verifiers, the unread messages, what each *)
(* side keeps in transit and the call that a thread is in stay in step     *)
(* (infer_internal, multiprocess_worker_loop, IPCControlChannel).          *)
(***************************************************************************)
THEOREM Invariant == SafeSpec => []IInv
<1> QED
  BY Start, StepKeeps, PTL DEF SafeSpec

(***************************************************************************)
(* TypeOK: every variable stays within its type, and a DONE on its way is  *)
(* for a payload that its addressee still keeps.                           *)
(***************************************************************************)
THEOREM TypeCorrect == SafeSpec => []TypeOK
<1>1. IInv => TypeOK
  <2> SUFFICES ASSUME IInv PROVE TypeOK
    OBVIOUS
  <2>1. /\ DOMAIN unread = Peers /\ DOMAIN held = Peers /\ DOMAIN payloads = Peers /\ DOMAIN acks = Peers
    BY DEF IInv, ChannelTypes
  <2>2. ASSUME NEW p \in Peers
        PROVE  /\ \A k \in DOMAIN unread[p] : unread[p][k] \in Messages
               /\ held[p] \subseteq Messages
               /\ acks[p] \subseteq payloads[p]
               /\ payloads[p] \subseteq {m.id : m \in Messages}
    <3>1. unread[p] \in Seq(Messages) /\ held[p] \subseteq Messages /\ payloads[p] \subseteq Ids
      BY DEF IInv, ChannelTypes
    <3>2. \A k \in DOMAIN unread[p] : unread[p][k] \in Messages
      BY <3>1
    <3>3. acks[p] \subseteq payloads[p]
      BY Others DEF IInv, Acked
    <3> QED
      BY <3>1, <3>2, <3>3 DEF Ids
  <2> QED
    BY <2>1, <2>2 DEF TypeOK, IInv, ChannelTypes, ControlTypes, ClientStates, WorkerStates
<1> QED
  BY <1>1, Invariant, PTL

(***************************************************************************)
(* AnswersMatch: what a call receives is the answer to that call, and an   *)
(* output comes from that call's inputs (infer_internal).                  *)
(***************************************************************************)
THEOREM AnswersAreToTheirCalls == SafeSpec => []AnswersMatch
<1>1. IInv => AnswersMatch
  BY DEF IInv
<1> QED
  BY <1>1, Invariant, PTL

(***************************************************************************)
(* SingleReceiver: recv_message, which is not thread safe, is never in use *)
(* by two threads.                                                         *)
(***************************************************************************)
THEOREM OneThreadReceives == SafeSpec => []SingleReceiver
<1>1. IInv => SingleReceiver
  <2> SUFFICES ASSUME IInv PROVE SingleReceiver
    OBVIOUS
  <2> DEFINE W == {t \in Threads : client[t].at = "recv"}
  <2>1. \A t, u \in W : t = u
    BY DEF IInv, Clients, Acting, Waiting
  <2>2. CASE W = {}
    <3>1. Cardinality({}) = 0
      BY FS_EmptySet
    <3> QED
      BY <2>2, <3>1, 0 <= 1 DEF SingleReceiver
  <2>3. CASE W # {}
    <3>1. PICK t \in W : W = {t}
      BY <2>1, <2>3
    <3>2. Cardinality({t}) = 1
      BY FS_Singleton
    <3> QED
      BY <3>1, <3>2 DEF SingleReceiver
  <2> QED
    BY <2>2, <2>3
<1> QED
  BY <1>1, Invariant, PTL

(***************************************************************************)
(* WorkerNeverRejects: the worker's verifier never sees a transition that  *)
(* it rejects, so that no order of calls ends the worker process.          *)
(***************************************************************************)
THEOREM WorkerStaysInStep == SafeSpec => []WorkerNeverRejects
<1>1. IInv => WorkerNeverRejects
  BY DEF IInv, InStep, RequestsInStep, WorkerNeverRejects
<1> QED
  BY <1>1, Invariant, PTL

(***************************************************************************)
(* BacklogIsBounded: neither direction ever holds more than two messages   *)
(* that nobody has received, however many threads and calls there are.     *)
(***************************************************************************)
THEOREM BacklogBounded == SafeSpec => []BacklogIsBounded
<1>1. IInv => BacklogIsBounded
  <2> SUFFICES ASSUME IInv PROVE BacklogIsBounded
    OBVIOUS
  <2>1. Owed \in {0, 1, 2}
    BY DEF Owed
  <2>2. Count(ToWorker) <= Open /\ Len(ToMain) <= Open
    BY QueuesAre DEF Open
  <2>3. Count(ToWorker) <= 2 /\ Len(ToMain) <= 2
    BY <2>1, <2>2, QueuesAre
  <2>4. Len(ToWorker) <= 2
    <3>1. CASE Stops(ToWorker)
      <4>1. Count(ToWorker) <= 1 /\ Count(ToWorker) = Len(ToWorker) - 1
        BY <3>1 DEF IInv, Shutdowns, Count
      <4> QED
        BY <4>1, QueuesAre
    <3>2. CASE ~ Stops(ToWorker)
      BY <2>3, <3>2 DEF Count
    <3> QED
      BY <3>1, <3>2
  <2> QED
    BY <2>3, <2>4 DEF BacklogIsBounded, Peers, ToWorker, ToMain
<1> QED
  BY <1>1, Invariant, PTL
=============================================================================
