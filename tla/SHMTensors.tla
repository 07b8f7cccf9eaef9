----------------------------- MODULE SHMTensors -----------------------------
(***************************************************************************)
(* How tensors travel in out-of-process execution (shm_tensor.hh,          *)
(* tensor_utils.hh and the payloads of mq/): a map of tensors is sent as a *)
(* map of block ids, the receiver loads the blocks, and the sender's       *)
(* in_transit_ keeps its tensors alive until the receiver's DONE.          *)
(*                                                                         *)
(* A numeric tensor lives in a block.  A string tensor is a local vector   *)
(* that is written to a new block each time its id is asked for, and it    *)
(* keeps only the last such block.                                         *)
(*                                                                         *)
(* Shared memory is what SharedBlocks promises: an id can be loaded while  *)
(* somebody holds the block, and its memory belongs to somebody else as    *)
(* soon as nobody does.  The calls are those of one thread at a time, and  *)
(* the model under execution gives back its inputs.                        *)
(***************************************************************************)
EXTENDS Naturals, Sequences, FiniteSets, Functions

CONSTANTS Names,      \* the names of the model's tensors
          Values,     \* what a tensor may contain
          NoValue,    \* nothing in particular
          Ids,        \* the ids of blocks
          NoId,       \* a string tensor that was not sent yet has no block
          MaxObjs,    \* model bound: tensor objects of a process
          MaxUser,    \* model bound: tensors that a user keeps between calls
          MaxCalls,   \* model bound: calls of infer
          MaxInline   \* the ids that fit in INLINE_PAYLOAD_SIZE_BYTES

ASSUME ValueAssumption == NoValue \notin Values
ASSUME IdAssumption == NoId \notin Ids
ASSUME CallsAssumption == MaxCalls \in Nat

Peers == {"main", "worker"}
Other(p) == IF p = "main" THEN "worker" ELSE "main"

Objs == Peers \X (1 .. MaxObjs)
Kinds == {"numeric", "string"}
Contents == Values \cup {NoValue}

Tensors == [kind : Kinds, id : Ids \cup {NoId}, val : Contents]
Numeric(i) == [kind |-> "numeric", id |-> i, val |-> NoValue]
String(v)  == [kind |-> "string", id |-> NoId, val |-> v]

\* The shm_tensor in a block: its tensor_type and its data.  A block that nobody
\* holds contains what its next user, or the system, puts there.
Block(k, v) == [kind |-> k, val |-> v]
Garbage     == Block("numeric", NoValue)

MapsTo(S) == UNION {[N -> S] : N \in SUBSET Names}
Empty == [n \in {} |-> 0]
With(f, n, x) == [k \in DOMAIN f \cup {n} |-> IF k = n THEN x ELSE f[k]]

VARIABLES tensor,    \* the tensor objects that something refers to
          mem,       \* what each block contains
          user,      \* the objects that the user's code refers to
          outgoing,  \* the map that each process is sending
          wire,      \* the messages on their way to each process
          incoming,  \* the message that each process is reading
          transit,   \* in_transit_: what each process keeps alive for its messages
          inputs,    \* the worker's inputs
          passed,    \* history: what the current call was given
          calls,     \* how many calls were made
          broken     \* whether a tensor could not be loaded: the call throws

vars == <<tensor, mem, user, outgoing, wire, incoming, transit, inputs, passed, calls, broken>>

Msg(ids, entry) == [type |-> "TENSORS", ids |-> ids, entry |-> entry]
Done(entry)     == [type |-> "DONE", ids |-> Empty, entry |-> entry]
NoEntry == [objs |-> {}, blocks |-> {}]

\* got is the objects that were read so far, copying the string tensor whose
\* strings are being copied.
Quiet == [at |-> "idle", map |-> Empty, ids |-> Empty]
Deaf  == [at |-> "idle", msg |-> Done(NoEntry), got |-> Empty, copying |-> {}]

IsMap(f, S)  == DOMAIN f \subseteq Names /\ \A n \in DOMAIN f : f[n] \in S
IsEntry(e)   == e.objs \subseteq Objs /\ e.blocks \subseteq Ids
IsMessage(m) == m.type \in {"TENSORS", "DONE"} /\ IsMap(m.ids, Ids) /\ IsEntry(m.entry)

TypeOK ==
  /\ DOMAIN tensor \subseteq Objs /\ \A o \in DOMAIN tensor : tensor[o] \in Tensors
  /\ mem \in [Ids -> [kind : Kinds, val : Contents]]
  /\ user \subseteq Objs
  /\ \A p \in Peers : /\ outgoing[p].at \in {"idle", "wrap", "serialize", "wait"}
                      /\ IsMap(outgoing[p].map, Objs) /\ IsMap(outgoing[p].ids, Ids)
                      /\ \A k \in DOMAIN wire[p] : IsMessage(wire[p][k])
                      /\ incoming[p].at \in {"idle", "payload", "load"}
                      /\ IsMessage(incoming[p].msg) /\ IsMap(incoming[p].got, Objs)
                      /\ incoming[p].copying \subseteq Names
                      /\ \A e \in transit[p] : IsEntry(e)
  /\ IsMap(inputs, [obj : Objs \cup {<<>>}, val : Contents])
  /\ IsMap(passed, Contents)
  /\ calls \in 0 .. MaxCalls
  /\ broken \in BOOLEAN

Init == /\ tensor = Empty
        /\ mem = [i \in Ids |-> Garbage]
        /\ user = {}
        /\ outgoing = [p \in Peers |-> Quiet]
        /\ wire = [p \in Peers |-> <<>>]
        /\ incoming = [p \in Peers |-> Deaf]
        /\ transit = [p \in Peers |-> {}]
        /\ inputs = Empty
        /\ passed = Empty
        /\ calls = 0
        /\ broken = FALSE
-----------------------------------------------------------------------------
\* The objects that something refers to, and the blocks that they hold.
Alive == user \cup (UNION {Range(outgoing[p].map) : p \in Peers})
              \cup (UNION {Range(incoming[p].got) : p \in Peers})
              \cup (UNION {e.objs : e \in UNION {transit[p] : p \in Peers}})
              \cup ({inputs[n].obj : n \in DOMAIN inputs} \cap Objs)

Held == ({tensor[o].id : o \in DOMAIN tensor} \ {NoId})
          \cup (UNION {e.blocks : e \in UNION {transit[p] : p \in Peers}})

\* Ids are never issued twice, so an id that is still written somewhere is taken.
Mentioned == Held \cup (UNION {Range(outgoing[p].ids) : p \in Peers})
                  \cup (UNION {Range(incoming[p].msg.ids) : p \in Peers})
                  \cup (UNION {Range(m.ids) : m \in UNION {Range(wire[p]) : p \in Peers}})

NewId     == CHOOSE i \in Ids : i \notin Mentioned
CanIssue  == \E i \in Ids : i \notin Mentioned
NewObj(p) == CHOOSE o \in Objs : o[1] = p /\ o \notin DOMAIN tensor
CanMake(p) == \E o \in Objs : o[1] = p /\ o \notin DOMAIN tensor

\* Reference counting: what nothing refers to any more is gone after a step
\* that leaves objects T and blocks M.
Collect(T, M) == /\ tensor' = [o \in Alive' |-> T[o]]
                 /\ mem' = [i \in Ids |-> IF i \in Held' THEN M[i] ELSE Garbage]

Value(o) == IF tensor[o].kind = "string" THEN tensor[o].val ELSE mem[tensor[o].id].val
-----------------------------------------------------------------------------
UserIdle == outgoing["main"].at = "idle" /\ ~broken
RoomFor(n) == UserIdle /\ Cardinality(user) + n <= MaxUser

\* allocate_tensor, or tensor_from_memory, which copies and runs the deleter.
AllocateNumeric(v) ==
  /\ RoomFor(1) /\ CanMake("main") /\ CanIssue
  /\ user' = user \cup {NewObj("main")}
  /\ UNCHANGED <<outgoing, wire, incoming, transit, inputs, passed, calls, broken>>
  /\ Collect(With(tensor, NewObj("main"), Numeric(NewId)),
             [mem EXCEPT ![NewId] = Block("numeric", v)])

AllocateString(v) ==
  /\ RoomFor(1) /\ CanMake("main")
  /\ user' = user \cup {NewObj("main")}
  /\ UNCHANGED <<outgoing, wire, incoming, transit, inputs, passed, calls, broken>>
  /\ Collect(With(tensor, NewObj("main"), String(v)), mem)

\* The user changes a tensor in place, or lets go of it.
Write(o, v) ==
  /\ RoomFor(0) /\ o \in user
  /\ UNCHANGED <<user, outgoing, wire, incoming, transit, inputs, passed, calls, broken>>
  /\ IF tensor[o].kind = "string" THEN Collect([tensor EXCEPT ![o].val = v], mem)
     ELSE Collect(tensor, [mem EXCEPT ![tensor[o].id].val = v])

Drop(o) == /\ UserIdle /\ o \in user
           /\ user' = user \ {o}
           /\ UNCHANGED <<outgoing, wire, incoming, transit, inputs, passed, calls, broken>>
           /\ Collect(tensor, mem)

\* infer_internal: the caller and the call keep the map until the call returns.
Infer(map) ==
  /\ RoomFor(0) /\ DOMAIN map # {}
  /\ outgoing' = [outgoing EXCEPT !["main"] = [at |-> "serialize", map |-> map, ids |-> Empty]]
  /\ passed' = [n \in DOMAIN map |-> Value(map[n])]
  /\ UNCHANGED <<tensor, mem, user, wire, incoming, transit, inputs, broken>>
  /\ calls < MaxCalls /\ calls' = calls + 1
-----------------------------------------------------------------------------
\* Defect: the id of the last call is sent again.
IdOfLast(o) == tensor[o].id

IdOf(o) == IF tensor[o].kind = "string" THEN NewId ELSE tensor[o].id

\* ipc_serialize of one tensor: get_native_data, which writes the strings of a
\* string tensor to a new block and then lets go of the one before.
Serialize(p, n) ==
  LET s == outgoing[p]
      o == s.map[n]
      i == IdOf(o)
  IN /\ s.at = "serialize" /\ n \in DOMAIN s.map \ DOMAIN s.ids
     /\ tensor[o].kind = "string" => CanIssue
     /\ outgoing' = [outgoing EXCEPT ![p].ids = With(s.ids, n, i)]
     /\ UNCHANGED <<user, wire, incoming, transit, inputs, passed, calls, broken>>
     /\ Collect([tensor EXCEPT ![o].id = i],
                IF tensor[o].kind = "string" THEN [mem EXCEPT ![i] = Block("string", tensor[o].val)]
                ELSE mem)

\* Defect: only the payload is kept.
EntryOfPayload(map, large) == [objs |-> {}, blocks |-> IF large THEN {NewId} ELSE {}]

\* What a message keeps alive.
Entry(map, large) == [objs |-> Range(map), blocks |-> IF large THEN {NewId} ELSE {}]

\* Defect: the inputs of a call are left for the next one.
InputsKept(p) == inputs

InputsAfter(p) == IF p = "worker" THEN Empty ELSE inputs

\* serialize_payload and send_message_move: a payload that is not small goes into
\* a block of its own, and block and map are in transit before the message is.
\* A message is known here by what it moves.  The worker then clears its inputs.
Post(p) ==
  LET s == outgoing[p]
      large == Cardinality(DOMAIN s.ids) > MaxInline
      e == Entry(s.map, large)
  IN
  /\ s.at = "serialize" /\ DOMAIN s.ids = DOMAIN s.map
  /\ large => CanIssue
  /\ transit' = [transit EXCEPT ![p] = @ \cup {e}]
  /\ wire' = [wire EXCEPT ![Other(p)] = Append(@, Msg(s.ids, e))]
  /\ outgoing' = [outgoing EXCEPT ![p] = IF p = "main" THEN [s EXCEPT !.at = "wait", !.ids = Empty]
                                         ELSE Quiet]
  /\ inputs' = InputsAfter(p)
  /\ UNCHANGED <<user, incoming, passed, calls, broken>>
  /\ Collect(tensor, mem)

\* The reader thread: done(msg_id), or a message for recv_message.
ReadDone(p) == /\ wire[p] # <<>> /\ Head(wire[p]).type = "DONE"
               /\ transit' = [transit EXCEPT ![p] = @ \ {Head(wire[p]).entry}]
               /\ wire' = [wire EXCEPT ![p] = Tail(@)]
               /\ UNCHANGED <<user, outgoing, incoming, inputs, passed, calls, broken>>
               /\ Collect(tensor, mem)

ReadTensors(p) ==
  /\ wire[p] # <<>> /\ Head(wire[p]).type = "TENSORS" /\ incoming[p].at = "idle"
  /\ incoming' = [incoming EXCEPT ![p] = [Deaf EXCEPT !.at = "payload", !.msg = Head(wire[p])]]
  /\ wire' = [wire EXCEPT ![p] = Tail(@)]
  /\ UNCHANGED <<tensor, mem, user, outgoing, transit, inputs, passed, calls, broken>>
-----------------------------------------------------------------------------
\* load_shm throws, and with it the call.
Fail(p) == /\ broken' = TRUE
           /\ incoming' = [incoming EXCEPT ![p] = Deaf]
           /\ UNCHANGED <<user, outgoing, wire, transit, inputs, passed, calls>>
           /\ Collect(tensor, mem)

\* deserialize_payload holds the payload's block only while it reads it.  It is
\* there, as TransitIsLoadable says.
OpenPayload(p) ==
  /\ incoming[p].at = "payload" /\ incoming[p].msg.entry.blocks \subseteq Held
  /\ incoming' = [incoming EXCEPT ![p].at = "load"]
  /\ UNCHANGED <<tensor, mem, user, outgoing, wire, transit, inputs, passed, calls, broken>>

\* tensor_from_id: a numeric tensor keeps the block it loads, a string tensor
\* lets go of it and then copies the strings.
LoadTensor(p, n) ==
  LET r == incoming[p]
      i == r.msg.ids[n]
      o == NewObj(p)
  IN /\ r.at = "load" /\ r.copying = {} /\ n \in DOMAIN r.msg.ids \ DOMAIN r.got
     /\ \/ i \notin Held /\ Fail(p)
        \/ /\ i \in Held /\ mem[i].kind = "numeric" /\ CanMake(p)
           /\ incoming' = [incoming EXCEPT ![p].got = With(r.got, n, o)]
           /\ UNCHANGED <<user, outgoing, wire, transit, inputs, passed, calls, broken>>
           /\ Collect(With(tensor, o, Numeric(i)), mem)
        \/ /\ i \in Held /\ mem[i].kind = "string"
           /\ incoming' = [incoming EXCEPT ![p].copying = {n}]
           /\ UNCHANGED <<tensor, mem, user, outgoing, wire, transit, inputs, passed, calls, broken>>

CopyStrings(p, n) ==
  LET o == NewObj(p) IN
  /\ n \in incoming[p].copying /\ CanMake(p)
  /\ incoming' = [incoming EXCEPT ![p].copying = {}, ![p].got = With(incoming[p].got, n, o)]
  /\ UNCHANGED <<user, outgoing, wire, transit, inputs, passed, calls, broken>>
  /\ Collect(With(tensor, o, String(mem[incoming[p].msg.ids[n]].val)), mem)

Read(p) == /\ incoming[p].at = "load" /\ incoming[p].copying = {}
           /\ DOMAIN incoming[p].got = DOMAIN incoming[p].msg.ids

\* The end of a handler: the received message goes out of scope.
LetGo(p) == /\ incoming' = [incoming EXCEPT ![p] = Deaf]
            /\ wire' = [wire EXCEPT ![Other(p)] = Append(@, Done(incoming[p].msg.entry))]

\* ADD_INPUT: wrap_existing_tensor copies strings, and otherwise makes a tensor
\* over the block that keeps the SHM tensor in its deleter.
Wrapped(o) == IF tensor[o].kind = "string" THEN [obj |-> <<>>, val |-> tensor[o].val]
              ELSE [obj |-> o, val |-> NoValue]
WrapInputs ==
  LET got == incoming["worker"].got IN
  /\ Read("worker")
  /\ inputs' = [n \in DOMAIN got \cup DOMAIN inputs |->
                  IF n \in DOMAIN got THEN Wrapped(got[n]) ELSE inputs[n]]
  /\ LetGo("worker")
  /\ UNCHANGED <<user, outgoing, transit, passed, calls, broken>>
  /\ Collect(tensor, mem)

\* The result is in the caller's hands, and the caller's map is dropped.
Return == /\ Read("main")
          /\ user' = user \cup Range(incoming["main"].got)
          /\ outgoing' = [outgoing EXCEPT !["main"] = Quiet]
          /\ LetGo("main")
          /\ passed' = Empty
          /\ UNCHANGED <<transit, inputs, calls, broken>>
          /\ Collect(tensor, mem)

\* INFER: the outputs become SHM tensors, by a copy, one after the other.
WrapOutput(n) ==
  LET s == outgoing["worker"]
      given == inputs[n]
      o == NewObj("worker")
      m == With(s.map, n, o)
  IN /\ s.at \in {"idle", "wrap"} /\ incoming["worker"].at = "idle"
     /\ n \in DOMAIN inputs \ DOMAIN s.map /\ CanMake("worker")
     /\ outgoing' = [outgoing EXCEPT !["worker"] =
                      [s EXCEPT !.at = IF DOMAIN m = DOMAIN inputs THEN "serialize" ELSE "wrap",
                                !.map = m]]
     /\ UNCHANGED <<user, wire, incoming, transit, inputs, passed, calls, broken>>
     /\ IF given.obj = <<>> THEN Collect(With(tensor, o, String(given.val)), mem)
        ELSE /\ CanIssue
             /\ Collect(With(tensor, o, Numeric(NewId)),
                        [mem EXCEPT ![NewId] = Block("numeric", Value(given.obj))])
-----------------------------------------------------------------------------
Next == \/ \E v \in Values : AllocateNumeric(v) \/ AllocateString(v)
        \/ \E o \in user : Drop(o) \/ \E v \in Values : Write(o, v)
        \/ \E map \in MapsTo(user) : Infer(map)
        \/ \E p \in Peers : \/ Post(p) \/ ReadDone(p) \/ ReadTensors(p) \/ OpenPayload(p)
                            \/ \E n \in Names : Serialize(p, n) \/ LoadTensor(p, n) \/ CopyStrings(p, n)
        \/ WrapInputs \/ Return
        \/ \E n \in Names : WrapOutput(n)

Spec == Init /\ [][Next]_vars
-----------------------------------------------------------------------------
(***************************************************************************)
(* Whatever id is written in a message that is not read yet, or belongs to *)
(* a payload to open or a block whose strings are being copied, is held by *)
(* the sender, so that no load fails and no string is read from memory     *)
(* that is somebody else's: as long as a call asks each string tensor for  *)
(* its id once.                                                            *)
(***************************************************************************)
AskedOnce == LET map == outgoing["main"].map IN
             \A n, k \in DOMAIN map :
               map[n] = map[k] /\ tensor[map[n]].kind = "string" => n = k

Unread(p) == (UNION {Range(m.ids) \cup m.entry.blocks :
                       m \in {k \in Range(wire[p]) : k.type = "TENSORS"}})
               \cup (IF incoming[p].at = "payload" THEN incoming[p].msg.entry.blocks ELSE {})
               \cup {incoming[p].msg.ids[n] :
                      n \in DOMAIN incoming[p].msg.ids \ DOMAIN incoming[p].got}

TransitIsLoadable == AskedOnce => /\ \A p \in Peers : Unread(p) \subseteq Held
                                  /\ ~broken

(***************************************************************************)
(* A model that gives back its inputs gives back, through four maps of     *)
(* ids, what the tensors contained when infer was called: no block is      *)
(* reused under a reader, and no id of an earlier call is sent again.      *)
(***************************************************************************)
EchoIsExact ==
  Read("main") => [n \in DOMAIN incoming["main"].got |-> Value(incoming["main"].got[n])] = passed
=============================================================================
