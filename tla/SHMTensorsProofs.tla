-------------------------- MODULE SHMTensorsProofs --------------------------
(***************************************************************************)
(* Every id on its way to another process can be loaded, and what comes    *)
(* back is what was passed (SHMTensors), for any names, values, ids and    *)
(* bounds.                                                                 *)
(*                                                                         *)
(* A call passes through stages: the main process rests, asks its tensors  *)
(* for their ids, has asked; the worker loads, runs, has replied; the main *)
(* process takes the answer.  Only DONE messages arrive out of step.  Each *)
(* stage says where the values that were passed are now.                   *)
(***************************************************************************)
EXTENDS SHMTensors, SequenceTheorems, TLAPS

Entries   == [objs : SUBSET Objs, blocks : SUBSET Ids]
Messages  == [type : {"TENSORS", "DONE"}, ids : MapsTo(Ids), entry : Entries]
Given     == [obj : Objs \cup {<<>>}, val : Contents]
Sendings  == [at : {"idle", "wrap", "serialize", "wait"}, map : MapsTo(Objs), ids : MapsTo(Ids)]
Readings  == [at : {"idle", "payload", "load"}, msg : Messages, got : MapsTo(Objs),
              copying : SUBSET Names]

Shape ==
  /\ DOMAIN tensor \subseteq Objs /\ tensor \in [DOMAIN tensor -> Tensors]
  /\ mem \in [Ids -> [kind : Kinds, val : Contents]]
  /\ user \subseteq Objs
  /\ outgoing \in [Peers -> Sendings]
  /\ wire \in [Peers -> Seq(Messages)]
  /\ incoming \in [Peers -> Readings]
  /\ transit \in [Peers -> SUBSET Entries]
  /\ inputs \in MapsTo(Given)
  /\ passed \in MapsTo(Contents)
  /\ calls \in 0 .. MaxCalls
  /\ broken \in BOOLEAN

\* Exactly the tensors that something refers to exist, and numeric ones have a block.
Live == /\ DOMAIN tensor = Alive
        /\ \A o \in DOMAIN tensor : tensor[o].kind = "numeric" => tensor[o].id \in Ids

ValueIn(t, M) == IF t.kind = "string" THEN t.val ELSE M[t.id].val

\* The tensors of a map, or the blocks of a message that are still held, have the values P.
Stands(map, T, M, P)  == \A n \in DOMAIN map : ValueIn(T[map[n]], M) = P[n]
Carries(ids, H, M, P) == \A n \in DOMAIN ids : ids[n] \in H => M[ids[n]].val = P[n]

\* What the worker's inputs contain is what was passed.
Gives(J, T, M, P) == \A n \in DOMAIN J : P[n] = IF J[n].obj = <<>> THEN J[n].val
                                                ELSE ValueIn(T[J[n].obj], M)

\* Each string tensor is asked for its id once; then the ids are those of the tensors now.
Once(map, T) == \A n, k \in DOMAIN map : map[n] = map[k] /\ T[map[n]].kind = "string" => n = k
IdsOf(ids, map, T) == \A n \in DOMAIN ids : ids[n] = T[map[n]].id
Backed(m, T) == \A n \in DOMAIN m.ids : \E o \in m.entry.objs : m.ids[n] = T[o].id

\* What was read of a message.
Got(r, T, M, H, P) ==
  /\ \A n \in DOMAIN r.got : n \in DOMAIN r.msg.ids /\ ValueIn(T[r.got[n]], M) = P[n]
  /\ \A n \in r.copying : n \in DOMAIN r.msg.ids /\ r.msg.ids[n] \in H

\* A process keeps nothing, or waits for one DONE that is on its way: alone, or before m.
Settled(w, t)  == \/ w = <<>> /\ t = {}
                  \/ \E e \in t : w = <<Done(e)>> /\ t = {e}
Bears(w, t, m) == \/ w = <<m>> /\ t = {}
                  \/ \E e \in t : w = <<Done(e), m>> /\ t = {e}
Silent(p) == wire[p] = <<>> /\ transit[p] = {}
Listens   == \A p \in Peers : incoming[p] = Deaf
Rests     == outgoing["worker"] = Quiet /\ inputs = Empty
Waits     == outgoing["main"].at = "wait" /\ DOMAIN outgoing["main"].map = DOMAIN passed

Resting == /\ outgoing["main"] = Quiet
           /\ Listens /\ Rests /\ Silent("main") /\ ~broken
           /\ Settled(wire["worker"], transit["worker"])

Asking ==
  LET s == outgoing["main"] IN
  /\ s.at = "serialize" /\ DOMAIN s.map = DOMAIN passed /\ DOMAIN passed # {}
  /\ DOMAIN s.ids \subseteq DOMAIN s.map
  /\ Stands(s.map, tensor, mem, passed) /\ Carries(s.ids, Held, mem, passed)
  /\ Once(s.map, tensor) => IdsOf(s.ids, s.map, tensor)
  /\ Listens /\ Rests /\ Silent("main") /\ ~broken
  /\ Settled(wire["worker"], transit["worker"])

\* The message m to the worker, before and while it is read.
Sent(m) ==
  LET map == outgoing["main"].map IN
  /\ Waits /\ DOMAIN m.ids = DOMAIN passed /\ DOMAIN passed # {}
  /\ Carries(m.ids, Held, mem, passed)
  /\ Once(map, tensor) => IdsOf(m.ids, map, tensor)
  /\ Rests /\ ~broken /\ wire["main"] = <<>> /\ transit["main"] = {m.entry}

Asked(m) == Sent(m) /\ m.type = "TENSORS" /\ Listens /\ Bears(wire["worker"], transit["worker"], m)

Loading ==
  LET r == incoming["worker"] IN
  /\ Sent(r.msg) /\ r.at # "idle" /\ incoming["main"] = Deaf /\ Silent("worker")
  /\ Got(r, tensor, mem, Held, passed)

Running ==
  LET s == outgoing["worker"] IN
  /\ Waits /\ Listens /\ ~broken /\ Silent("worker") /\ Settled(wire["main"], transit["main"])
  /\ DOMAIN inputs = DOMAIN passed /\ DOMAIN passed # {}
  /\ Gives(inputs, tensor, mem, passed)
  /\ s.at # "wait" /\ (s.at = "serialize" => DOMAIN s.map = DOMAIN passed)
  /\ s.at # "serialize" => s.ids = Empty
  /\ DOMAIN s.map \subseteq DOMAIN passed /\ DOMAIN s.ids \subseteq DOMAIN s.map
  /\ \A n, k \in DOMAIN s.map : s.map[n] = s.map[k] => n = k
  /\ IdsOf(s.ids, s.map, tensor)
  /\ Stands(s.map, tensor, mem, passed) /\ Carries(s.ids, Held, mem, passed)

\* The message m to the main process, before and while it is read.
Answered(m) ==
  /\ Waits /\ DOMAIN m.ids = DOMAIN passed
  /\ Carries(m.ids, Held, mem, passed) /\ Backed(m, tensor)
  /\ Rests /\ ~broken /\ wire["worker"] = <<>> /\ transit["worker"] = {m.entry}

Replied(m) == Answered(m) /\ m.type = "TENSORS" /\ Listens /\ Bears(wire["main"], transit["main"], m)

Taking ==
  LET r == incoming["main"] IN
  /\ Answered(r.msg) /\ r.at # "idle" /\ incoming["worker"] = Deaf /\ Silent("main")
  /\ Got(r, tensor, mem, Held, passed)

\* A load has failed, which ends everything.
Stuck == /\ Waits /\ broken /\ ~Once(outgoing["main"].map, tensor) /\ Listens /\ Rests
         /\ \A p \in Peers : wire[p] = <<>>

Stages == \/ Resting \/ Asking \/ Loading \/ Running \/ Taking \/ Stuck
          \/ \E m \in Messages : Asked(m) \/ Replied(m)

IInv == Shape /\ Live /\ Stages
-----------------------------------------------------------------------------
LEMMA PeersAre == /\ "main" \in Peers /\ "worker" \in Peers
                  /\ \A p \in Peers : p = "main" \/ p = "worker"
                  /\ Other("main") = "worker" /\ Other("worker") = "main"
BY DEF Peers, Other

LEMMA MapsToIs ==
  ASSUME NEW S, NEW f
  PROVE  f \in MapsTo(S) <=> (DOMAIN f \subseteq Names /\ f \in [DOMAIN f -> S])
BY DEF MapsTo

LEMMA WithIs ==
  ASSUME NEW S, NEW f \in MapsTo(S), NEW n \in Names, NEW x \in S
  PROVE  With(f, n, x) \in MapsTo(S)
BY MapsToIs DEF With

LEMMA EmptyIs == DOMAIN Empty = {} /\ \A S : Empty \in MapsTo(S)
<1>1. DOMAIN Empty = {}
  BY DEF Empty
<1> QED
  BY <1>1, MapsToIs DEF Empty

\* What refers to a tensor.
LEMMA AliveIs ==
  /\ \A o : o \in Alive <=>
       \/ o \in user
       \/ \E p \in Peers : \E n \in DOMAIN outgoing[p].map : o = outgoing[p].map[n]
       \/ \E p \in Peers : \E n \in DOMAIN incoming[p].got : o = incoming[p].got[n]
       \/ \E p \in Peers : \E e \in transit[p] : o \in e.objs
       \/ o \in Objs /\ \E n \in DOMAIN inputs : o = inputs[n].obj
  /\ \A o : o \in Alive' <=>
       \/ o \in user'
       \/ \E p \in Peers : \E n \in DOMAIN outgoing'[p].map : o = outgoing'[p].map[n]
       \/ \E p \in Peers : \E n \in DOMAIN incoming'[p].got : o = incoming'[p].got[n]
       \/ \E p \in Peers : \E e \in transit'[p] : o \in e.objs
       \/ o \in Objs /\ \E n \in DOMAIN inputs' : o = inputs'[n].obj
<1>1. \A o : o \in Alive <=>
       \/ o \in user
       \/ \E p \in Peers : \E n \in DOMAIN outgoing[p].map : o = outgoing[p].map[n]
       \/ \E p \in Peers : \E n \in DOMAIN incoming[p].got : o = incoming[p].got[n]
       \/ \E p \in Peers : \E e \in transit[p] : o \in e.objs
       \/ o \in Objs /\ \E n \in DOMAIN inputs : o = inputs[n].obj
  BY DEF Alive, Range
<1>2. \A o : o \in Alive' <=>
       \/ o \in user'
       \/ \E p \in Peers : \E n \in DOMAIN outgoing'[p].map : o = outgoing'[p].map[n]
       \/ \E p \in Peers : \E n \in DOMAIN incoming'[p].got : o = incoming'[p].got[n]
       \/ \E p \in Peers : \E e \in transit'[p] : o \in e.objs
       \/ o \in Objs /\ \E n \in DOMAIN inputs' : o = inputs'[n].obj
  BY DEF Alive, Range
<1> QED
  BY <1>1, <1>2

\* What holds a block, and where ids are written.
LEMMA HeldIs ==
  /\ \A i : i \in Held <=> \/ i # NoId /\ \E o \in DOMAIN tensor : i = tensor[o].id
                           \/ \E p \in Peers : \E e \in transit[p] : i \in e.blocks
  /\ \A i : i \in Held' <=> \/ i # NoId /\ \E o \in DOMAIN tensor' : i = tensor'[o].id
                            \/ \E p \in Peers : \E e \in transit'[p] : i \in e.blocks
<1>1. \A i : i \in Held <=> \/ i # NoId /\ \E o \in DOMAIN tensor : i = tensor[o].id
                            \/ \E p \in Peers : \E e \in transit[p] : i \in e.blocks
  BY DEF Held
<1>2. \A i : i \in Held' <=> \/ i # NoId /\ \E o \in DOMAIN tensor' : i = tensor'[o].id
                             \/ \E p \in Peers : \E e \in transit'[p] : i \in e.blocks
  BY DEF Held
<1> QED
  BY <1>1, <1>2

LEMMA MentionedIs ==
  \A i : i \in Mentioned <=>
    \/ i \in Held
    \/ \E p \in Peers : \E n \in DOMAIN outgoing[p].ids : i = outgoing[p].ids[n]
    \/ \E p \in Peers : \E n \in DOMAIN incoming[p].msg.ids : i = incoming[p].msg.ids[n]
    \/ \E p \in Peers : \E k \in DOMAIN wire[p] : \E n \in DOMAIN wire[p][k].ids : i = wire[p][k].ids[n]
BY DEF Mentioned, Range

LEMMA Parts ==
  ASSUME Shape, NEW p \in Peers
  PROVE  /\ outgoing[p] \in Sendings
         /\ outgoing[p].map \in MapsTo(Objs) /\ outgoing[p].ids \in MapsTo(Ids)
         /\ incoming[p] \in Readings /\ incoming[p].msg \in Messages
         /\ incoming[p].got \in MapsTo(Objs) /\ incoming[p].copying \subseteq Names
         /\ incoming[p].msg.ids \in MapsTo(Ids) /\ incoming[p].msg.entry \in Entries
         /\ wire[p] \in Seq(Messages) /\ transit[p] \subseteq Entries
<1>1. outgoing[p] \in Sendings /\ incoming[p] \in Readings /\ wire[p] \in Seq(Messages)
      /\ transit[p] \subseteq Entries
  BY DEF Shape
<1>2. incoming[p].msg \in Messages
  BY <1>1 DEF Readings
<1> QED
  BY <1>1, <1>2 DEF Sendings, Readings, Messages

LEMMA HeldIsTyped == Shape => Held \subseteq Ids
<1> SUFFICES ASSUME Shape, NEW i \in Held PROVE i \in Ids
  OBVIOUS
<1>1. CASE i # NoId /\ \E o \in DOMAIN tensor : i = tensor[o].id
  BY <1>1 DEF Shape, Tensors
<1>2. CASE \E p \in Peers : \E e \in transit[p] : i \in e.blocks
  BY <1>2 DEF Shape, Entries
<1> QED
  BY <1>1, <1>2, HeldIs

\* A new id is written nowhere.
LEMMA NewIdIs == CanIssue => NewId \in Ids /\ NewId \notin Mentioned
BY DEF CanIssue, NewId

LEMMA NewObjIs == \A p \in Peers : CanMake(p) => NewObj(p) \in Objs /\ NewObj(p) \notin DOMAIN tensor
BY DEF CanMake, NewObj
-----------------------------------------------------------------------------
\* A step that leaves objects T and blocks M, with new objects N and new blocks J.
Moves(T, M, N, J) ==
  /\ Collect(T, M)
  /\ Alive' \subseteq Alive \cup N
  /\ N \subseteq Objs /\ DOMAIN T = DOMAIN tensor \cup N
  /\ J \subseteq Ids /\ J \cap Mentioned = {}
  /\ M \in [Ids -> [kind : Kinds, val : Contents]] /\ \A i \in Ids \ J : M[i] = mem[i]
  /\ \A o \in DOMAIN T : T[o] \in Tensors /\ (T[o].kind = "numeric" => T[o].id \in Ids)
  /\ \A o \in DOMAIN tensor : /\ T[o].kind = tensor[o].kind /\ T[o].val = tensor[o].val
                              /\ T[o].id = tensor[o].id \/ (T[o].kind = "string" /\ T[o].id \in J)
  /\ \A o \in N : T[o].id \in {NoId} \cup J \cup Held
  /\ \A p \in Peers : \A e \in transit'[p] : e.blocks \subseteq J \cup Held

\* Tensors keep their values, and a block that is held, or that some message speaks of, is
\* the one it was.
Calm ==
  /\ \A o \in DOMAIN tensor : o \in DOMAIN tensor' =>
       /\ ValueIn(tensor'[o], mem') = ValueIn(tensor[o], mem)
       /\ tensor'[o].kind = tensor[o].kind
  /\ \A i \in Mentioned : i \in Held' => i \in Held /\ mem'[i] = mem[i]

TensorShape == tensor \in [DOMAIN tensor -> Tensors] /\ DOMAIN tensor \subseteq Objs
               /\ mem \in [Ids -> [kind : Kinds, val : Contents]]

LEMMA Frame ==
  ASSUME Shape, Live, NEW T, NEW M, NEW N, NEW J, Moves(T, M, N, J)
  PROVE  TensorShape' /\ Live' /\ Calm /\ \A o \in DOMAIN tensor' : o \in DOMAIN T /\ tensor'[o] = T[o]
<1>1. /\ tensor' = [o \in Alive' |-> T[o]]
      /\ mem' = [i \in Ids |-> IF i \in Held' THEN M[i] ELSE Garbage]
  BY DEF Moves, Collect
<1>2. Alive' \subseteq DOMAIN T /\ DOMAIN T \subseteq Objs
  BY DEF Moves, Live, Shape
<1>3. DOMAIN tensor' = Alive' /\ \A o \in Alive' : tensor'[o] = T[o]
  BY <1>1
<1>4. Garbage \in [kind : Kinds, val : Contents]
  BY DEF Garbage, Block, Kinds, Contents
<1>5. TensorShape'
  <2>1. mem' \in [Ids -> [kind : Kinds, val : Contents]]
    BY <1>1, <1>4 DEF Moves
  <2>2. tensor' \in [Alive' -> Tensors]
    BY <1>1, <1>2 DEF Moves
  <2> QED
    BY <1>2, <1>3, <2>1, <2>2 DEF TensorShape
<1>6. Live'
  BY <1>2, <1>3 DEF Live, Moves
<1>7. ASSUME NEW i \in Held'
      PROVE  i \in J \cup Held
  <2>1. CASE \E p \in Peers : \E e \in transit'[p] : i \in e.blocks
    BY <2>1 DEF Moves
  <2>2. CASE i # NoId /\ \E o \in DOMAIN tensor' : i = tensor'[o].id
    <3>1. PICK o \in Alive' : i = T[o].id
      BY <1>3, <2>2
    <3>2. o \in DOMAIN tensor \/ o \in N
      BY <1>2 DEF Moves
    <3>3. CASE o \in DOMAIN tensor
      BY <2>2, <3>1, <3>3, HeldIs DEF Moves
    <3>4. CASE o \in N
      BY <2>2, <3>1, <3>4 DEF Moves
    <3> QED
      BY <3>2, <3>3, <3>4
  <2> QED
    BY <2>1, <2>2, HeldIs
<1>8. ASSUME NEW i \in Mentioned, i \in Held'
      PROVE  i \in Held /\ mem'[i] = mem[i]
  <2>1. i \notin J /\ i \in Held
    BY <1>7, <1>8 DEF Moves
  <2>2. i \in Ids
    BY <2>1, HeldIsTyped
  <2> QED
    BY <1>1, <1>8, <2>1, <2>2 DEF Moves
<1>9. ASSUME NEW o \in DOMAIN tensor, o \in DOMAIN tensor'
      PROVE  /\ ValueIn(tensor'[o], mem') = ValueIn(tensor[o], mem)
             /\ tensor'[o].kind = tensor[o].kind
  <2>1. /\ tensor'[o].kind = tensor[o].kind /\ tensor'[o].val = tensor[o].val
        /\ tensor'[o].id = tensor[o].id \/ tensor[o].kind = "string"
    BY <1>3, <1>9 DEF Moves
  <2>2. CASE tensor[o].kind = "string"
    BY <2>1, <2>2 DEF ValueIn
  <2>3. CASE tensor[o].kind # "string"
    <3>1. tensor[o].kind = "numeric"
      BY <2>3 DEF Shape, Tensors, Kinds
    <3>2. tensor[o].id \in Ids /\ tensor[o].id # NoId
      BY <3>1, IdAssumption DEF Live
    <3>3. tensor[o].id \in Mentioned /\ tensor[o].id \in Held'
      BY <1>9, <2>1, <2>3, <3>2, HeldIs, MentionedIs
    <3> QED
      BY <1>8, <2>1, <2>3, <3>3 DEF ValueIn
  <2> QED
    BY <2>2, <2>3
<1> QED
  BY <1>3, <1>2, <1>5, <1>6, <1>8, <1>9 DEF Calm

LEMMA Unmoved ==
  ASSUME Shape, Live, UNCHANGED <<tensor, mem, transit>>, Alive' = Alive
  PROVE  TensorShape' /\ Live' /\ Calm
<1>1. Held' = Held
  BY HeldIs
<1> QED
  BY <1>1 DEF TensorShape, Live, Calm, Shape
-----------------------------------------------------------------------------
LEMMA Blanks == /\ Quiet.at = "idle" /\ Quiet.map = Empty /\ Quiet.ids = Empty
                /\ Deaf.at = "idle" /\ Deaf.copying = {} /\ Deaf.got = Empty
                /\ Deaf.msg = Done(NoEntry) /\ Done(NoEntry).ids = Empty
                /\ Quiet \in Sendings /\ Done(NoEntry) \in Messages /\ Deaf \in Readings
<1>1. Empty \in MapsTo(Objs) /\ Empty \in MapsTo(Ids)
  BY EmptyIs
<1>2. Done(NoEntry) \in Messages
  BY <1>1 DEF Done, NoEntry, Messages, Entries
<1> QED
  BY <1>1, <1>2 DEF Quiet, Deaf, Sendings, Readings, Done

\* What a process is doing tells the stage.
LEMMA StageOf ==
  ASSUME Stages
  PROVE  /\ UserIdle => Resting
         /\ outgoing["main"].at = "serialize" => Asking
         /\ outgoing["worker"].at # "idle" \/ DOMAIN inputs # {} => Running
         /\ incoming["worker"].at # "idle" \/ incoming["worker"].copying # {} => Loading
         /\ incoming["main"].at # "idle" \/ incoming["main"].copying # {} => Taking
         /\ wire["worker"] # <<>> => Resting \/ Asking \/ \E m \in Messages : Asked(m)
         /\ wire["main"] # <<>> => Running \/ \E m \in Messages : Replied(m)
<1> DEFINE Signs ==
      /\ UserIdle => Resting
      /\ outgoing["main"].at = "serialize" => Asking
      /\ outgoing["worker"].at # "idle" \/ DOMAIN inputs # {} => Running
      /\ incoming["worker"].at # "idle" \/ incoming["worker"].copying # {} => Loading
      /\ incoming["main"].at # "idle" \/ incoming["main"].copying # {} => Taking
      /\ wire["worker"] # <<>> => Resting \/ Asking \/ \E m \in Messages : Asked(m)
      /\ wire["main"] # <<>> => Running \/ \E m \in Messages : Replied(m)
<1>1. ASSUME Listens
      PROVE  \A p \in Peers : incoming[p].at = "idle" /\ incoming[p].copying = {}
  BY <1>1, Blanks DEF Listens
<1>2. ASSUME Rests
      PROVE  outgoing["worker"].at = "idle" /\ DOMAIN inputs = {}
  BY <1>2, Blanks, EmptyIs DEF Rests
<1>3. CASE Resting
  BY <1>1, <1>2, <1>3, Blanks, PeersAre DEF Resting, Silent
<1>4. CASE Asking
  BY <1>1, <1>2, <1>4, PeersAre DEF Asking, Silent, UserIdle
<1>5. CASE Loading
  BY <1>2, <1>5, Blanks DEF Loading, Sent, Silent, UserIdle, Waits
<1>6. CASE Running
  BY <1>1, <1>6, PeersAre DEF Running, Silent, UserIdle, Waits
<1>7. CASE Taking
  BY <1>2, <1>7, Blanks DEF Taking, Answered, Silent, UserIdle, Waits
<1>8. CASE Stuck
  BY <1>1, <1>2, <1>8, PeersAre DEF Stuck, UserIdle, Waits
<1>9. CASE \E m \in Messages : Asked(m)
  BY <1>1, <1>2, <1>9, PeersAre DEF Asked, Sent, UserIdle, Waits
<1>10. CASE \E m \in Messages : Replied(m)
  BY <1>1, <1>2, <1>10, PeersAre DEF Replied, Answered, UserIdle, Waits
<1> QED
  BY <1>3, <1>4, <1>5, <1>6, <1>7, <1>8, <1>9, <1>10 DEF Stages
-----------------------------------------------------------------------------
\* What the user does between calls.
LEMMA UserRests ==
  ASSUME IInv, UserIdle, UNCHANGED <<outgoing, wire, incoming, transit, inputs, passed, broken>>
  PROVE  Stages'
<1>1. Resting
  BY StageOf DEF IInv
<1> QED
  BY <1>1 DEF Resting, Listens, Rests, Silent, Stages

LEMMA AllocateNumericKeeps == ASSUME IInv, NEW v \in Values, AllocateNumeric(v) PROVE IInv'
<1> DEFINE o == NewObj("main")
           T == With(tensor, o, Numeric(NewId))
           M == [mem EXCEPT ![NewId] = Block("numeric", v)]
<1>1. /\ NewId \in Ids /\ NewId \notin Mentioned
      /\ o \in Objs /\ o \notin DOMAIN tensor
  BY NewIdIs, NewObjIs, PeersAre DEF AllocateNumeric
<1>2. Moves(T, M, {o}, {NewId})
  <2>1. Collect(T, M)
    BY DEF AllocateNumeric
  <2>2. Alive' \subseteq Alive \cup {o}
    BY AliveIs DEF AllocateNumeric
  <2>3. DOMAIN T = DOMAIN tensor \cup {o} /\ T[o] = Numeric(NewId)
        /\ \A b \in DOMAIN tensor : T[b] = tensor[b]
    BY <1>1 DEF With
  <2>4. Numeric(NewId) \in Tensors /\ Numeric(NewId).id = NewId
    BY <1>1 DEF Numeric, Tensors, Kinds, Contents
  <2>5. /\ M \in [Ids -> [kind : Kinds, val : Contents]]
        /\ \A i \in Ids \ {NewId} : M[i] = mem[i]
    <3>1. Block("numeric", v) \in [kind : Kinds, val : Contents]
      BY DEF Block, Kinds, Contents
    <3> QED
      BY <1>1, <3>1 DEF IInv, Shape
  <2>6. \A p \in Peers : \A e \in transit'[p] : e.blocks \subseteq {NewId} \cup Held
    BY HeldIs DEF AllocateNumeric
  <2>7. \A b \in DOMAIN T : T[b] \in Tensors /\ (T[b].kind = "numeric" => T[b].id \in Ids)
    BY <1>1, <2>3, <2>4 DEF IInv, Shape, Live
  <2> HIDE DEF T, M
  <2> QED
    BY <1>1, <2>1, <2>2, <2>3, <2>4, <2>5, <2>6, <2>7 DEF Moves
<1>3. TensorShape' /\ Live'
  BY <1>2, Frame DEF IInv
<1>4. Stages'
  BY UserRests DEF AllocateNumeric, RoomFor
<1> QED
  BY <1>1, <1>3, <1>4 DEF IInv, Shape, TensorShape, AllocateNumeric

LEMMA AllocateStringKeeps == ASSUME IInv, NEW v \in Values, AllocateString(v) PROVE IInv'
<1> DEFINE o == NewObj("main")
           T == With(tensor, o, String(v))
<1>1. o \in Objs /\ o \notin DOMAIN tensor
  BY NewObjIs, PeersAre DEF AllocateString
<1>2. Moves(T, mem, {o}, {})
  <2>1. Collect(T, mem)
    BY DEF AllocateString
  <2>2. Alive' \subseteq Alive \cup {o}
    BY AliveIs DEF AllocateString
  <2>3. DOMAIN T = DOMAIN tensor \cup {o} /\ T[o] = String(v)
        /\ \A b \in DOMAIN tensor : T[b] = tensor[b]
    BY <1>1 DEF With
  <2>4. String(v) \in Tensors /\ String(v).id = NoId /\ String(v).kind = "string"
    BY DEF String, Tensors, Kinds, Contents
  <2>6. \A p \in Peers : \A e \in transit'[p] : e.blocks \subseteq Held
    BY HeldIs DEF AllocateString
  <2>7. \A b \in DOMAIN T : T[b] \in Tensors /\ (T[b].kind = "numeric" => T[b].id \in Ids)
    BY <1>1, <2>3, <2>4 DEF IInv, Shape, Live
  <2>8. mem \in [Ids -> [kind : Kinds, val : Contents]]
    BY DEF IInv, Shape
  <2> HIDE DEF T
  <2> QED
    BY <1>1, <2>1, <2>2, <2>3, <2>4, <2>6, <2>7, <2>8 DEF Moves
<1>3. TensorShape' /\ Live'
  BY <1>2, Frame DEF IInv
<1>4. Stages'
  BY UserRests DEF AllocateString, RoomFor
<1> QED
  BY <1>1, <1>3, <1>4 DEF IInv, Shape, TensorShape, AllocateString

\* A step that changes neither a tensor nor a block, and lets go of some.
LEMMA LetsGo ==
  ASSUME IInv, Collect(tensor, mem), Alive' \subseteq Alive, \A p \in Peers : transit'[p] \subseteq transit[p]
  PROVE  /\ TensorShape' /\ Live' /\ Calm
         /\ \A o \in DOMAIN tensor' : o \in DOMAIN tensor /\ tensor'[o] = tensor[o]
<1>1. \A p \in Peers : \A e \in transit'[p] : e.blocks \subseteq Held
  BY HeldIs
<1>2. \A o \in DOMAIN tensor : tensor[o] \in Tensors /\ (tensor[o].kind = "numeric" => tensor[o].id \in Ids)
  BY DEF IInv, Shape, Live
<1>3. mem \in [Ids -> [kind : Kinds, val : Contents]]
  BY DEF IInv, Shape
<1>4. Moves(tensor, mem, {}, {})
  BY <1>1, <1>2, <1>3 DEF Moves
<1> QED
  BY <1>4, Frame DEF IInv

LEMMA DropKeeps == ASSUME IInv, NEW o \in user, Drop(o) PROVE IInv'
<1>1. Alive' \subseteq Alive
  BY AliveIs DEF Drop
<1>2. TensorShape' /\ Live'
  BY <1>1, LetsGo DEF Drop
<1>3. Stages'
  BY UserRests DEF Drop
<1> QED
  BY <1>2, <1>3 DEF IInv, Shape, TensorShape, Drop

LEMMA WriteKeeps == ASSUME IInv, NEW o \in user, NEW v \in Values, Write(o, v) PROVE IInv'
<1> DEFINE T == IF tensor[o].kind = "string" THEN [tensor EXCEPT ![o].val = v] ELSE tensor
           M == IF tensor[o].kind = "string" THEN mem ELSE [mem EXCEPT ![tensor[o].id].val = v]
<1>1. Alive' = Alive
  <2>1. \A b : b \in Alive' <=> b \in Alive
    BY AliveIs DEF Write
  <2> QED
    BY <2>1
<1>2. Collect(T, M)
  BY DEF Write
<1>3. tensor' = [b \in Alive |-> T[b]] /\ mem' = [i \in Ids |-> IF i \in Held' THEN M[i] ELSE Garbage]
  BY <1>1, <1>2 DEF Collect
<1>4. \A b \in Alive : T[b] \in Tensors /\ T[b].kind = tensor[b].kind /\ T[b].id = tensor[b].id
  BY DEF IInv, Shape, Live, Tensors, Contents
<1>5. M \in [Ids -> [kind : Kinds, val : Contents]]
  BY DEF IInv, Shape, Contents
<1>6. Garbage \in [kind : Kinds, val : Contents]
  BY DEF Garbage, Block, Kinds, Contents
<1> HIDE DEF T, M
<1>7. TensorShape'
  <2>1. mem' \in [Ids -> [kind : Kinds, val : Contents]]
    BY <1>3, <1>5, <1>6
  <2> QED
    BY <1>3, <1>4, <2>1 DEF IInv, Live, Shape, TensorShape
<1>8. Live'
  BY <1>1, <1>3, <1>4 DEF IInv, Live
<1>9. Stages'
  BY UserRests DEF Write, RoomFor
<1> QED
  BY <1>7, <1>8, <1>9 DEF IInv, Shape, TensorShape, Write

LEMMA InferKeeps == ASSUME IInv, NEW map \in MapsTo(user), Infer(map) PROVE IInv'
<1> DEFINE s == [at |-> "serialize", map |-> map, ids |-> Empty]
<1>1. Resting
  BY StageOf DEF IInv, Infer, RoomFor
<1>2. /\ outgoing' = [outgoing EXCEPT !["main"] = s]
      /\ outgoing' \in [Peers -> Sendings] /\ outgoing'["main"] = s /\ outgoing'["worker"] = outgoing["worker"]
      /\ DOMAIN map \subseteq Names /\ \A n \in DOMAIN map : map[n] \in user
  <2>1. DOMAIN map \subseteq Names /\ map \in [DOMAIN map -> user]
    BY MapsToIs
  <2>2. map \in MapsTo(Objs)
    BY <2>1, MapsToIs DEF IInv, Shape
  <2>3. s \in Sendings
    BY <2>2, EmptyIs DEF Sendings
  <2> QED
    BY <2>1, <2>3, PeersAre DEF Infer, IInv, Shape
<1>3. Alive' = Alive
  <2>1. \A n \in DOMAIN outgoing["main"].map : FALSE
    BY <1>1, Blanks, EmptyIs DEF Resting
  <2>2. \A n \in DOMAIN map : map[n] \in Alive
    BY <1>2, AliveIs
  <2>3. \A b \in Alive' : b \in Alive
    BY <1>2, <2>2, AliveIs, PeersAre DEF Infer
  <2>4. \A b \in Alive : b \in Alive'
    BY <1>2, <2>1, AliveIs, PeersAre DEF Infer
  <2> QED
    BY <2>3, <2>4
<1>4. TensorShape' /\ Live'
  BY <1>3, Unmoved DEF IInv, Infer
<1>5. /\ DOMAIN passed' = DOMAIN map /\ DOMAIN map # {}
      /\ \A n \in DOMAIN map : passed'[n] = ValueIn(tensor[map[n]], mem)
      /\ passed' \in MapsTo(Contents)
  <2>1. /\ passed' = [n \in DOMAIN map |-> Value(map[n])] /\ DOMAIN map # {}
    BY DEF Infer
  <2>2. ASSUME NEW n \in DOMAIN map
        PROVE  Value(map[n]) = ValueIn(tensor[map[n]], mem) /\ Value(map[n]) \in Contents
    <3>1. map[n] \in DOMAIN tensor
      BY <1>2, AliveIs DEF IInv, Live
    <3>2. tensor[map[n]] \in Tensors /\ (tensor[map[n]].kind = "string" \/ tensor[map[n]].id \in Ids)
      BY <3>1 DEF IInv, Live, Shape, Tensors, Kinds
    <3> QED
      BY <3>2 DEF Value, ValueIn, IInv, Shape, Tensors
  <2>3. passed' \in MapsTo(Contents)
    BY <1>2, <2>1, <2>2, MapsToIs
  <2> QED
    BY <2>1, <2>2, <2>3
<1>6. Stages'
  <2>1. Stands(map, tensor', mem', passed')
    BY <1>5 DEF Stands, Infer
  <2>2. Carries(Empty, Held', mem', passed') /\ IdsOf(Empty, map, tensor')
    BY EmptyIs DEF Carries, IdsOf
  <2>3. Asking'
    BY <1>1, <1>2, <1>5, <2>1, <2>2, EmptyIs DEF Asking, Resting, Infer, Listens, Rests, Silent
  <2> QED
    BY <2>3 DEF Stages
<1> QED
  <2>1. calls' \in 0 .. MaxCalls
    BY CallsAssumption DEF IInv, Shape, Infer
  <2> QED
    BY <1>2, <1>4, <1>5, <1>6, <2>1 DEF IInv, Shape, TensorShape, Infer
-----------------------------------------------------------------------------
\* What a calm step keeps of a map of tensors, of ids and of the worker's inputs.
Lives(map, T) == \A n \in DOMAIN map : map[n] \in DOMAIN T

LEMMA StandsKept ==
  ASSUME Calm, NEW map, NEW P, Lives(map, tensor), Lives(map, tensor'), Stands(map, tensor, mem, P)
  PROVE  Stands(map, tensor', mem', P)
BY DEF Calm, Lives, Stands

LEMMA OnceKept ==
  ASSUME Calm, NEW map, Lives(map, tensor), Lives(map, tensor')
  PROVE  Once(map, tensor') <=> Once(map, tensor)
BY DEF Calm, Lives, Once

LEMMA CarriesKept ==
  ASSUME Calm, NEW ids, NEW P, \A n \in DOMAIN ids : ids[n] \in Mentioned,
         Carries(ids, Held, mem, P)
  PROVE  Carries(ids, Held', mem', P)
BY DEF Calm, Carries

LEMMA MapsLive ==
  ASSUME IInv, NEW p \in Peers
  PROVE  /\ Lives(outgoing[p].map, tensor) /\ Lives(incoming[p].got, tensor)
         /\ \A n \in DOMAIN inputs : inputs[n].obj \in DOMAIN tensor \/ inputs[n].obj = <<>>
<1>1. \A n \in DOMAIN inputs : inputs[n].obj \in Objs \/ inputs[n].obj = <<>>
  <2>1. inputs \in [DOMAIN inputs -> Given]
    BY MapsToIs DEF IInv, Shape
  <2> QED
    BY <2>1 DEF Given
<1>2. /\ \A n \in DOMAIN outgoing[p].map : outgoing[p].map[n] \in Alive
      /\ \A n \in DOMAIN incoming[p].got : incoming[p].got[n] \in Alive
      /\ \A n \in DOMAIN inputs : inputs[n].obj \in Objs => inputs[n].obj \in Alive
  BY AliveIs
<1> QED
  BY <1>1, <1>2 DEF Lives, IInv, Live

LEMMA MapsLiveNext ==
  ASSUME Live', NEW p \in Peers
  PROVE  /\ Lives(outgoing'[p].map, tensor') /\ Lives(incoming'[p].got, tensor')
         /\ \A n \in DOMAIN inputs' : inputs'[n].obj \in Objs => inputs'[n].obj \in DOMAIN tensor'
<1>1. /\ \A n \in DOMAIN outgoing'[p].map : outgoing'[p].map[n] \in Alive'
      /\ \A n \in DOMAIN incoming'[p].got : incoming'[p].got[n] \in Alive'
      /\ \A n \in DOMAIN inputs' : inputs'[n].obj \in Objs => inputs'[n].obj \in Alive'
  BY AliveIs
<1> QED
  BY <1>1 DEF Lives, Live

LEMMA GivenKept ==
  ASSUME IInv, Calm, Live', UNCHANGED <<inputs>>
  PROVE  \A P : Gives(inputs, tensor, mem, P) => Gives(inputs, tensor', mem', P)
<1> SUFFICES ASSUME NEW P, Gives(inputs, tensor, mem, P)
             PROVE  Gives(inputs, tensor', mem', P)
  OBVIOUS
<1>1. \A n \in DOMAIN inputs : inputs[n].obj = <<>> \/ inputs[n].obj \in DOMAIN tensor
  BY MapsLive, PeersAre
<1>2. \A n \in DOMAIN inputs : inputs[n].obj = <<>> \/ inputs[n].obj \in DOMAIN tensor'
  <2>1. \A n \in DOMAIN inputs' : inputs'[n].obj \in Objs => inputs'[n].obj \in DOMAIN tensor'
    BY MapsLiveNext, PeersAre
  <2>2. DOMAIN tensor \subseteq Objs
    BY DEF IInv, Shape
  <2> QED
    BY <1>1, <2>1, <2>2
<1>3. ASSUME NEW n \in DOMAIN inputs, inputs[n].obj # <<>>
      PROVE  P[n] = ValueIn(tensor'[inputs[n].obj], mem')
  <2>1. inputs[n].obj \in DOMAIN tensor /\ inputs[n].obj \in DOMAIN tensor'
    BY <1>1, <1>2, <1>3
  <2>2. ValueIn(tensor'[inputs[n].obj], mem') = ValueIn(tensor[inputs[n].obj], mem)
    BY <2>1 DEF Calm
  <2> QED
    BY <1>3, <2>2 DEF Gives
<1>4. \A n \in DOMAIN inputs : inputs[n].obj = <<>> => P[n] = inputs[n].val
  BY DEF Gives
<1>5. \A n \in DOMAIN inputs : P[n] = IF inputs[n].obj = <<>> THEN inputs[n].val
                                         ELSE ValueIn(tensor'[inputs[n].obj], mem')
  BY <1>3, <1>4
<1> QED
  BY <1>5 DEF Gives
-----------------------------------------------------------------------------
\* Asking a tensor for its id.
LEMMA Asks ==
  ASSUME IInv, NEW p \in Peers, NEW n \in Names, Serialize(p, n), NEW P,
         DOMAIN outgoing[p].ids \subseteq DOMAIN outgoing[p].map,
         Stands(outgoing[p].map, tensor, mem, P), Carries(outgoing[p].ids, Held, mem, P)
  PROVE  /\ TensorShape' /\ Live' /\ Calm
         /\ outgoing' = [outgoing EXCEPT ![p] = outgoing'[p]]
         /\ outgoing'[p] \in Sendings
         /\ outgoing'[p].at = "serialize" /\ outgoing'[p].map = outgoing[p].map
         /\ DOMAIN outgoing'[p].ids = DOMAIN outgoing[p].ids \cup {n} /\ n \in DOMAIN outgoing[p].map
         /\ Stands(outgoing[p].map, tensor', mem', P) /\ Carries(outgoing'[p].ids, Held', mem', P)
         /\ (Once(outgoing[p].map, tensor') <=> Once(outgoing[p].map, tensor))
         /\ (Once(outgoing[p].map, tensor) /\ IdsOf(outgoing[p].ids, outgoing[p].map, tensor)
               => IdsOf(outgoing'[p].ids, outgoing[p].map, tensor'))
<1> DEFINE s == outgoing[p]
           o == s.map[n]
           i == IdOf(o)
           T == [tensor EXCEPT ![o].id = i]
           M == IF tensor[o].kind = "string" THEN [mem EXCEPT ![i] = Block("string", tensor[o].val)] ELSE mem
           J == IF tensor[o].kind = "string" THEN {i} ELSE {}
           S == [s EXCEPT !.ids = With(s.ids, n, i)]
<1>1. /\ s.at = "serialize" /\ n \in DOMAIN s.map /\ n \notin DOMAIN s.ids
      /\ tensor[o].kind = "string" => CanIssue
      /\ outgoing' = [outgoing EXCEPT ![p].ids = With(s.ids, n, i)]
      /\ UNCHANGED <<user, wire, incoming, transit, inputs, passed, calls, broken>>
      /\ Collect(T, M)
  BY DEF Serialize
<1>2. o \in DOMAIN tensor /\ tensor[o] \in Tensors
  BY <1>1, MapsLive DEF Lives, IInv, Shape
<1>3. /\ i \in Ids
      /\ tensor[o].kind = "string" => i \notin Mentioned
      /\ tensor[o].kind # "string" => i = tensor[o].id
  <2>1. CASE tensor[o].kind = "string"
    BY <1>1, <2>1, NewIdIs DEF IdOf
  <2>2. CASE tensor[o].kind # "string"
    <3>1. tensor[o].kind = "numeric"
      BY <1>2, <2>2 DEF Tensors, Kinds
    <3> QED
      BY <1>2, <2>2, <3>1 DEF IdOf, IInv, Live
  <2> QED
    BY <2>1, <2>2
<1>4. /\ s \in Sendings /\ With(s.ids, n, i) \in MapsTo(Ids)
      /\ S \in Sendings /\ outgoing' = [outgoing EXCEPT ![p] = S] /\ outgoing'[p] = S
      /\ S.at = "serialize" /\ S.map = s.map /\ S.ids = With(s.ids, n, i)
      /\ \A q \in Peers : outgoing'[q].map = outgoing[q].map
  <2>1. s \in Sendings /\ s.ids \in MapsTo(Ids)
    BY Parts DEF IInv
  <2>2. With(s.ids, n, i) \in MapsTo(Ids)
    BY <1>3, <2>1, WithIs
  <2>3. S \in Sendings /\ S.at = "serialize" /\ S.map = s.map /\ S.ids = With(s.ids, n, i)
    BY <1>1, <2>1, <2>2 DEF Sendings
  <2>4. outgoing' = [outgoing EXCEPT ![p] = S] /\ outgoing \in [Peers -> Sendings]
    BY <1>1 DEF IInv, Shape
  <2> HIDE DEF S
  <2> QED
    BY <2>1, <2>2, <2>3, <2>4
<1>5. /\ DOMAIN T = DOMAIN tensor
      /\ T[o].id = i /\ T[o].kind = tensor[o].kind /\ T[o].val = tensor[o].val /\ T[o] \in Tensors
      /\ \A b \in DOMAIN tensor : b # o => T[b] = tensor[b]
  <2>1. DOMAIN T = DOMAIN tensor /\ \A b \in DOMAIN tensor : b # o => T[b] = tensor[b]
    OBVIOUS
  <2>2. T[o] = [tensor[o] EXCEPT !.id = i]
    BY <1>2
  <2>3. /\ [tensor[o] EXCEPT !.id = i].id = i /\ [tensor[o] EXCEPT !.id = i] \in Tensors
        /\ [tensor[o] EXCEPT !.id = i].kind = tensor[o].kind
        /\ [tensor[o] EXCEPT !.id = i].val = tensor[o].val
    BY <1>2, <1>3 DEF Tensors
  <2> QED
    BY <2>1, <2>2, <2>3
<1>6. /\ M \in [Ids -> [kind : Kinds, val : Contents]]
      /\ \A b \in Ids \ J : M[b] = mem[b]
      /\ tensor[o].kind = "string" => M[i].val = tensor[o].val
      /\ tensor[o].kind # "string" => M = mem
  <2>1. Block("string", tensor[o].val) \in [kind : Kinds, val : Contents]
        /\ Block("string", tensor[o].val).val = tensor[o].val
    BY <1>2 DEF Block, Kinds, Tensors
  <2> QED
    BY <1>3, <2>1 DEF IInv, Shape
<1>7. Alive' \subseteq Alive
  <2>1. \A b : b \in Alive' => b \in Alive
    BY <1>1, <1>4, AliveIs
  <2> QED
    BY <2>1
<1>8. Moves(T, M, {}, J)
  <2>1. \A b \in DOMAIN T : T[b] \in Tensors /\ (T[b].kind = "numeric" => T[b].id \in Ids)
    BY <1>3, <1>5 DEF IInv, Shape, Live
  <2>2. \A q \in Peers : \A e \in transit'[q] : e.blocks \subseteq Held
    BY <1>1, HeldIs
  <2>3. J \subseteq Ids /\ J \cap Mentioned = {}
    BY <1>3
  <2>4. \A b \in DOMAIN tensor : /\ T[b].kind = tensor[b].kind /\ T[b].val = tensor[b].val
                                 /\ T[b].id = tensor[b].id \/ (T[b].kind = "string" /\ T[b].id \in J)
    BY <1>3, <1>5
  <2>5. Collect(T, M)
    BY <1>1
  <2> HIDE DEF T, M, J
  <2> QED
    BY <1>5, <1>6, <1>7, <2>1, <2>2, <2>3, <2>4, <2>5 DEF Moves
<1>9. TensorShape' /\ Live' /\ Calm /\ \A b \in DOMAIN tensor' : b \in DOMAIN T /\ tensor'[b] = T[b]
  <2> HIDE DEF T, M, J
  <2> QED
    BY <1>8, Frame DEF IInv
<1>10. Lives(s.map, tensor) /\ Lives(s.map, tensor')
  <2>1. Lives(outgoing'[p].map, tensor')
    BY <1>9, MapsLiveNext
  <2>2. Lives(s.map, tensor)
    BY MapsLive
  <2> QED
    BY <1>4, <2>1, <2>2 DEF Lives
<1>11. Stands(s.map, tensor', mem', P) /\ (Once(s.map, tensor') <=> Once(s.map, tensor))
  <2>1. Stands(s.map, tensor', mem', P)
    BY <1>9, <1>10 DEF Stands, Calm, Lives
  <2>2. Once(s.map, tensor') <=> Once(s.map, tensor)
    BY <1>9, <1>10 DEF Once, Calm, Lives
  <2> QED
    BY <2>1, <2>2
<1>12. /\ DOMAIN outgoing'[p].ids = DOMAIN s.ids \cup {n} /\ outgoing'[p].ids[n] = i
       /\ \A k \in DOMAIN s.ids : outgoing'[p].ids[k] = s.ids[k]
  BY <1>1, <1>4 DEF With
<1>13. Carries(outgoing'[p].ids, Held', mem', P)
  <2>1. \A k \in DOMAIN s.ids : s.ids[k] \in Mentioned
    BY MentionedIs
  <2>2. Carries(s.ids, Held', mem', P)
    BY <1>9, <2>1, CarriesKept
  <2>3. ASSUME i \in Held'
        PROVE  mem'[i].val = P[n]
    <3>1. mem'[i] = M[i]
      BY <1>1, <1>3, <2>3 DEF Collect
    <3>2. ValueIn(tensor[o], mem) = P[n]
      BY <1>1 DEF Stands
    <3> HIDE DEF M
    <3> QED
      BY <1>3, <1>6, <3>1, <3>2 DEF ValueIn
  <2> QED
    BY <1>12, <2>2, <2>3 DEF Carries
<1>14. ASSUME Once(s.map, tensor), IdsOf(s.ids, s.map, tensor), DOMAIN s.ids \subseteq DOMAIN s.map
       PROVE  IdsOf(outgoing'[p].ids, s.map, tensor')
  <2>1. tensor'[o].id = i
    BY <1>1, <1>4, <1>5, <1>9, <1>10 DEF Lives
  <2>2. ASSUME NEW k \in DOMAIN s.ids
        PROVE  s.ids[k] = tensor'[s.map[k]].id
    <3>1. s.map[k] \in DOMAIN tensor /\ s.map[k] \in DOMAIN tensor'
      BY <1>4, <1>10, <1>14, <2>2 DEF Lives
    <3>2. CASE s.map[k] = o
      <4>1. tensor[o].kind # "string"
        BY <1>1, <1>14, <2>2, <3>2 DEF Once
      <4> QED
        BY <1>3, <1>14, <2>1, <2>2, <3>2, <4>1 DEF IdsOf
    <3>3. CASE s.map[k] # o
      BY <1>5, <1>9, <1>14, <2>2, <3>1, <3>3 DEF IdsOf
    <3> QED
      BY <3>2, <3>3
  <2> QED
    BY <1>12, <2>1, <2>2 DEF IdsOf
<1> HIDE DEF S, T, M, J, i
<1> QED
  BY <1>1, <1>4, <1>9, <1>11, <1>12, <1>13, <1>14

LEMMA SerializeKeeps == ASSUME IInv, NEW p \in Peers, NEW n \in Names, Serialize(p, n) PROVE IInv'
<1>1. /\ outgoing[p].at = "serialize" /\ n \in DOMAIN outgoing[p].map
      /\ UNCHANGED <<user, wire, incoming, transit, inputs, passed, calls, broken>>
  BY DEF Serialize
<1>2. CASE p = "main"
  <2>1. Asking
    BY <1>1, <1>2, StageOf DEF IInv
  <2>2. /\ TensorShape' /\ Live'
        /\ outgoing' = [outgoing EXCEPT ![p] = outgoing'[p]] /\ outgoing'[p] \in Sendings
        /\ outgoing'[p].at = "serialize" /\ outgoing'[p].map = outgoing[p].map
        /\ DOMAIN outgoing'[p].ids = DOMAIN outgoing[p].ids \cup {n}
        /\ Stands(outgoing[p].map, tensor', mem', passed) /\ Carries(outgoing'[p].ids, Held', mem', passed)
        /\ (Once(outgoing[p].map, tensor') => IdsOf(outgoing'[p].ids, outgoing[p].map, tensor'))
    BY <1>2, <2>1, Asks DEF Asking
  <2>3. outgoing' \in [Peers -> Sendings] /\ outgoing'["worker"] = outgoing["worker"]
    BY <1>2, <2>2, PeersAre DEF IInv, Shape
  <2>4. Asking'
    BY <1>1, <1>2, <2>1, <2>2, <2>3 DEF Asking, Listens, Rests, Silent
  <2> QED
    BY <1>1, <2>2, <2>3, <2>4 DEF IInv, Shape, TensorShape, Stages
<1>3. CASE p = "worker"
  <2>1. Running
    BY <1>1, <1>3, StageOf DEF IInv
  <2>2. Once(outgoing[p].map, tensor)
    BY <1>3, <2>1 DEF Running, Once
  <2>3. /\ TensorShape' /\ Live' /\ Calm
        /\ outgoing' = [outgoing EXCEPT ![p] = outgoing'[p]] /\ outgoing'[p] \in Sendings
        /\ outgoing'[p].at = "serialize" /\ outgoing'[p].map = outgoing[p].map
        /\ DOMAIN outgoing'[p].ids = DOMAIN outgoing[p].ids \cup {n}
        /\ Stands(outgoing[p].map, tensor', mem', passed) /\ Carries(outgoing'[p].ids, Held', mem', passed)
        /\ IdsOf(outgoing'[p].ids, outgoing[p].map, tensor')
    BY <1>3, <2>1, <2>2, Asks DEF Running
  <2>4. outgoing' \in [Peers -> Sendings] /\ outgoing'["main"] = outgoing["main"]
    BY <1>3, <2>3, PeersAre DEF IInv, Shape
  <2>5. Gives(inputs, tensor', mem', passed)
    BY <1>1, <2>1, <2>3, GivenKept DEF Running
  <2>6. Running'
    BY <1>1, <1>3, <2>1, <2>3, <2>4, <2>5 DEF Running, Waits, Listens, Silent
  <2> QED
    BY <1>1, <2>3, <2>4, <2>6 DEF IInv, Shape, TensorShape, Stages
<1> QED
  BY <1>2, <1>3, PeersAre
-----------------------------------------------------------------------------
\* Sending what was asked for.
LEMMA SettledBears == \A w, t, m : Settled(w, t) => Bears(Append(w, m), t, m)
<1>1. \A m : Append(<<>>, m) = <<m>>
  OBVIOUS
<1>2. ASSUME NEW d, NEW m
      PROVE  Append(<<d>>, m) = <<d, m>>
  <2>1. <<d>> \in Seq({d, m}) /\ Len(<<d>>) = 1 /\ <<d>>[1] = d /\ m \in {d, m}
    OBVIOUS
  <2>2. /\ Append(<<d>>, m) \in Seq({d, m}) /\ Len(Append(<<d>>, m)) = 2
        /\ Append(<<d>>, m)[1] = d /\ Append(<<d>>, m)[2] = m
    BY <2>1, AppendProperties
  <2>3. <<d, m>> \in Seq({d, m}) /\ Len(<<d, m>>) = 2 /\ <<d, m>>[1] = d /\ <<d, m>>[2] = m
    OBVIOUS
  <2>4. \A k \in 1 .. 2 : k = 1 \/ k = 2
    OBVIOUS
  <2> QED
    BY <2>2, <2>3, <2>4, SeqEqual
<1> QED
  BY <1>1, <1>2 DEF Settled, Bears

\* p sends the message m, which keeps e alive, from the state s.
Posted(p, s, e, m) ==
  /\ s = outgoing[p] /\ m.ids = s.ids /\ m.entry = e /\ m.type = "TENSORS"
  /\ TensorShape' /\ Live' /\ Calm /\ \A o \in DOMAIN tensor' : tensor'[o] = tensor[o]
  /\ s.at = "serialize" /\ DOMAIN s.ids = DOMAIN s.map
  /\ transit' = [transit EXCEPT ![p] = transit[p] \cup {e}]
  /\ wire' = [wire EXCEPT ![Other(p)] = Append(wire[Other(p)], m)]
  /\ outgoing' = [outgoing EXCEPT ![p] = IF p = "main" THEN [s EXCEPT !.at = "wait", !.ids = Empty]
                                         ELSE Quiet]
  /\ inputs' = InputsAfter(p)
  /\ UNCHANGED <<user, incoming, passed, calls, broken>>
  /\ m \in Messages /\ e \in Entries
  /\ \A n \in DOMAIN s.ids : s.ids[n] \in Mentioned
  /\ \A n \in DOMAIN s.map : s.map[n] \in e.objs /\ s.map[n] \in DOMAIN tensor'

LEMMA Posts ==
  ASSUME IInv, NEW p \in Peers, Post(p)
  PROVE  \E s, e, m : Posted(p, s, e, m)
<1>0. PICK s, e, m : /\ s = outgoing[p] /\ m = Msg(s.ids, e)
                   /\ e = Entry(s.map, Cardinality(DOMAIN s.ids) > MaxInline)
  OBVIOUS
<1> USE <1>0
<1> DEFINE large == Cardinality(DOMAIN s.ids) > MaxInline
           J == e.blocks
<1>1. /\ s.at = "serialize" /\ DOMAIN s.ids = DOMAIN s.map
      /\ large => CanIssue
      /\ transit' = [transit EXCEPT ![p] = transit[p] \cup {e}]
      /\ wire' = [wire EXCEPT ![Other(p)] = Append(wire[Other(p)], m)]
      /\ outgoing' = [outgoing EXCEPT ![p] = IF p = "main" THEN [s EXCEPT !.at = "wait", !.ids = Empty]
                                             ELSE Quiet]
      /\ inputs' = InputsAfter(p)
      /\ UNCHANGED <<user, incoming, passed, calls, broken>>
      /\ Collect(tensor, mem)
  BY DEF Post
<1>2. s \in Sendings /\ s.map \in MapsTo(Objs) /\ s.ids \in MapsTo(Ids)
  BY Parts DEF IInv
<1>3. /\ e.objs \subseteq Objs /\ \A o : o \in e.objs <=> \E n \in DOMAIN s.map : o = s.map[n]
      /\ e.blocks \subseteq Ids /\ \A i \in e.blocks : i \notin Mentioned
      /\ e \in Entries
  <2>1. \A n \in DOMAIN s.map : s.map[n] \in Objs
    BY <1>2, MapsToIs
  <2>2. e.objs = Range(s.map) /\ e.blocks = IF large THEN {NewId} ELSE {}
    BY DEF Entry
  <2>3. \A o : o \in Range(s.map) <=> \E n \in DOMAIN s.map : o = s.map[n]
    BY DEF Range
  <2>4. e.blocks \subseteq Ids /\ \A i \in e.blocks : i \notin Mentioned
    BY <1>1, <2>2, NewIdIs
  <2>5. e = [objs |-> e.objs, blocks |-> e.blocks]
    BY DEF Entry
  <2> QED
    BY <2>1, <2>2, <2>3, <2>4, <2>5 DEF Entries
<1>4. m \in Messages /\ m.ids = s.ids /\ m.entry = e /\ m.type = "TENSORS"
  BY <1>2, <1>3 DEF Msg, Messages
<1>5. Alive' \subseteq Alive
  <2>1. \A q \in Peers : \A n \in DOMAIN outgoing'[q].map : outgoing'[q].map[n] \in Alive
    <3>1. outgoing'[p].map = s.map \/ outgoing'[p].map = Empty
      BY <1>1, <1>2, Blanks DEF IInv, Shape, Sendings
    <3>2. \A q \in Peers : q # p => outgoing'[q] = outgoing[q]
      BY <1>1 DEF IInv, Shape
    <3> QED
      BY <3>1, <3>2, EmptyIs, AliveIs
  <2>2. \A q \in Peers : \A d \in transit'[q] : \A o \in d.objs : o \in Alive
    <3>1. \A o \in e.objs : o \in Alive
      BY <1>3, AliveIs
    <3>2. \A q \in Peers : \A d \in transit'[q] : d \in transit[q] \/ d = e
      BY <1>1 DEF IInv, Shape
    <3> QED
      BY <3>1, <3>2, AliveIs
  <2>3. \A n \in DOMAIN inputs' : n \in DOMAIN inputs /\ inputs'[n] = inputs[n]
    BY <1>1, EmptyIs DEF InputsAfter
  <2>4. \A o : o \in Alive' => o \in Alive
    BY <1>1, <2>1, <2>2, <2>3, AliveIs
  <2> QED
    BY <2>4
<1>6. Moves(tensor, mem, {}, J)
  <2>1. \A q \in Peers : \A d \in transit'[q] : d.blocks \subseteq J \cup Held
    <3>2. \A q \in Peers : \A d \in transit'[q] : d \in transit[q] \/ d = e
      BY <1>1 DEF IInv, Shape
    <3> QED
      BY <3>2, HeldIs
  <2>2. \A o \in DOMAIN tensor : tensor[o] \in Tensors /\ (tensor[o].kind = "numeric" => tensor[o].id \in Ids)
    BY DEF IInv, Shape, Live
  <2>3. mem \in [Ids -> [kind : Kinds, val : Contents]]
    BY DEF IInv, Shape
  <2> QED
    BY <1>1, <1>3, <1>5, <2>1, <2>2, <2>3 DEF Moves
<1>7. TensorShape' /\ Live' /\ Calm /\ \A o \in DOMAIN tensor' : tensor'[o] = tensor[o]
  BY <1>6, Frame DEF IInv
<1>8. \A n \in DOMAIN s.ids : s.ids[n] \in Mentioned
  BY MentionedIs
<1>9. \A n \in DOMAIN s.map : s.map[n] \in e.objs /\ s.map[n] \in DOMAIN tensor'
  <2>1. e \in transit'[p]
    BY <1>1 DEF IInv, Shape
  <2>2. \A o \in e.objs : o \in DOMAIN tensor'
    BY <1>7, <2>1, AliveIs DEF Live
  <2> QED
    BY <1>3, <2>2
<1>10. Posted(p, s, e, m)
  BY <1>1, <1>3, <1>4, <1>7, <1>8, <1>9 DEF Posted
<1> QED
  BY <1>10

LEMMA PostKeeps == ASSUME IInv, NEW p \in Peers, Post(p) PROVE IInv'
<1> PICK s, e, m : Posted(p, s, e, m)
  BY Posts
<1>1. /\ s = outgoing[p] /\ m.ids = s.ids /\ m.entry = e /\ m.type = "TENSORS"
      /\ TensorShape' /\ Live' /\ Calm /\ \A o \in DOMAIN tensor' : tensor'[o] = tensor[o]
      /\ s.at = "serialize" /\ DOMAIN s.ids = DOMAIN s.map
      /\ transit' = [transit EXCEPT ![p] = transit[p] \cup {e}]
      /\ wire' = [wire EXCEPT ![Other(p)] = Append(wire[Other(p)], m)]
      /\ outgoing' = [outgoing EXCEPT ![p] = IF p = "main" THEN [s EXCEPT !.at = "wait", !.ids = Empty]
                                             ELSE Quiet]
      /\ inputs' = InputsAfter(p)
      /\ UNCHANGED <<user, incoming, passed, calls, broken>>
      /\ m \in Messages /\ e \in Entries
      /\ \A n \in DOMAIN s.ids : s.ids[n] \in Mentioned
      /\ \A n \in DOMAIN s.map : s.map[n] \in e.objs /\ s.map[n] \in DOMAIN tensor'
  BY DEF Posted
<1>3. s \in Sendings
  BY <1>1, Parts DEF IInv
<1>4. Shape'
  <2>1. transit' \in [Peers -> SUBSET Entries]
    BY <1>1 DEF IInv, Shape
  <2>2. wire' \in [Peers -> Seq(Messages)]
    <3>1. Other(p) \in Peers /\ wire[Other(p)] \in Seq(Messages)
      BY PeersAre DEF IInv, Shape
    <3>2. Append(wire[Other(p)], m) \in Seq(Messages)
      BY <1>1, <3>1
    <3> QED
      BY <1>1, <3>1, <3>2 DEF IInv, Shape
  <2>3. outgoing' \in [Peers -> Sendings]
    <3>1. [s EXCEPT !.at = "wait", !.ids = Empty] \in Sendings
      BY <1>3, EmptyIs DEF Sendings
    <3> QED
      BY <1>1, <3>1, Blanks DEF IInv, Shape
  <2>4. inputs' \in MapsTo(Given)
    BY <1>1, EmptyIs DEF InputsAfter, IInv, Shape
  <2> QED
    BY <1>1, <2>1, <2>2, <2>3, <2>4 DEF IInv, Shape, TensorShape
<1>5. Carries(s.ids, Held, mem, passed) => Carries(s.ids, Held', mem', passed)
  BY <1>1 DEF Calm, Carries
<1>6. CASE p = "main"
  <2>1. Asking
    BY <1>1, <1>6, StageOf DEF IInv
  <2>2. /\ outgoing'["main"].at = "wait" /\ outgoing'["main"].map = s.map
        /\ outgoing'["worker"] = outgoing["worker"]
    BY <1>1, <1>3, <1>6, PeersAre DEF IInv, Shape, Sendings
  <2>3. Once(s.map, tensor') => IdsOf(m.ids, s.map, tensor')
    <3>1. Once(s.map, tensor') => Once(s.map, tensor)
      BY <1>1 DEF Once
    <3> QED
      BY <1>1, <1>6, <2>1, <3>1 DEF Asking, IdsOf
  <2>4. /\ transit'["main"] = {e} /\ transit'["worker"] = transit["worker"]
        /\ wire'["main"] = <<>> /\ wire'["worker"] = Append(wire["worker"], m)
    BY <1>1, <1>6, <2>1, PeersAre DEF Asking, Silent, IInv, Shape
  <2>5. Bears(wire'["worker"], transit'["worker"], m)
    BY <2>1, <2>4, SettledBears DEF Asking
  <2>6. Sent(m)'
    BY <1>1, <1>5, <1>6, <2>1, <2>2, <2>3, <2>4 DEF Asking, Sent, Waits, Rests, InputsAfter
  <2>7. Asked(m)'
    BY <1>1, <2>1, <2>5, <2>6 DEF Asked, Asking, Listens
  <2> QED
    BY <1>1, <1>4, <2>7 DEF IInv, Stages
<1>7. CASE p = "worker"
  <2>1. Running
    BY <1>1, <1>7, StageOf DEF IInv
  <2>2. outgoing'["worker"] = Quiet /\ outgoing'["main"] = outgoing["main"]
    BY <1>1, <1>7, PeersAre DEF IInv, Shape
  <2>3. Backed(m, tensor')
    BY <1>1, <1>7, <2>1 DEF Running, Backed, IdsOf
  <2>4. /\ transit'["worker"] = {e} /\ transit'["main"] = transit["main"]
        /\ wire'["worker"] = <<>> /\ wire'["main"] = Append(wire["main"], m)
    BY <1>1, <1>7, <2>1, PeersAre DEF Running, Silent, IInv, Shape
  <2>5. Bears(wire'["main"], transit'["main"], m)
    BY <2>1, <2>4, SettledBears DEF Running
  <2>6. Answered(m)'
    BY <1>1, <1>5, <1>7, <2>1, <2>2, <2>3, <2>4 DEF Running, Answered, Waits, Rests, InputsAfter
  <2>7. Replied(m)'
    BY <1>1, <2>1, <2>5, <2>6 DEF Replied, Running, Listens
  <2> QED
    BY <1>1, <1>4, <2>7 DEF IInv, Stages
<1> QED
  BY <1>6, <1>7, PeersAre
-----------------------------------------------------------------------------
\* A calm step that changes no tensor, though some may come and go.
Same == /\ Calm /\ Live'
        /\ \A o \in DOMAIN tensor : o \in DOMAIN tensor' => tensor'[o] = tensor[o]

LEMMA Steady ==
  ASSUME IInv, Same, NEW p \in Peers, outgoing'[p] = outgoing[p]
  PROVE  /\ Stands(outgoing[p].map, tensor, mem, passed) => Stands(outgoing[p].map, tensor', mem', passed)
         /\ Carries(outgoing[p].ids, Held, mem, passed) => Carries(outgoing[p].ids, Held', mem', passed)
         /\ Once(outgoing[p].map, tensor') => Once(outgoing[p].map, tensor)
         /\ \A ids : DOMAIN ids \subseteq DOMAIN outgoing[p].map /\ IdsOf(ids, outgoing[p].map, tensor)
                       => IdsOf(ids, outgoing[p].map, tensor')
<1>1. Lives(outgoing[p].map, tensor) /\ Lives(outgoing[p].map, tensor')
  <2>1. Lives(outgoing'[p].map, tensor')
    BY MapsLiveNext DEF Same
  <2> QED
    BY <2>1, MapsLive
<1>2. \A n \in DOMAIN outgoing[p].map : tensor'[outgoing[p].map[n]] = tensor[outgoing[p].map[n]]
  BY <1>1 DEF Lives, Same
<1>3. Stands(outgoing[p].map, tensor, mem, passed) => Stands(outgoing[p].map, tensor', mem', passed)
  BY <1>1, StandsKept DEF Same
<1>4. Carries(outgoing[p].ids, Held, mem, passed) => Carries(outgoing[p].ids, Held', mem', passed)
  <2>1. \A n \in DOMAIN outgoing[p].ids : outgoing[p].ids[n] \in Mentioned
    BY MentionedIs
  <2> QED
    BY <2>1, CarriesKept DEF Same
<1>5. Once(outgoing[p].map, tensor') => Once(outgoing[p].map, tensor)
  BY <1>2 DEF Once
<1>6. \A ids : DOMAIN ids \subseteq DOMAIN outgoing[p].map /\ IdsOf(ids, outgoing[p].map, tensor)
                 => IdsOf(ids, outgoing[p].map, tensor')
  BY <1>2 DEF IdsOf
<1> QED
  BY <1>3, <1>4, <1>5, <1>6

LEMMA SentStays ==
  ASSUME IInv, Same, NEW m, Sent(m), \A n \in DOMAIN m.ids : m.ids[n] \in Mentioned,
         UNCHANGED <<outgoing, inputs, passed, broken>>,
         wire'["main"] = wire["main"], transit'["main"] = transit["main"]
  PROVE  Sent(m)'
<1>1. Carries(m.ids, Held', mem', passed)
  BY CarriesKept DEF Same, Sent
<1>2. Once(outgoing["main"].map, tensor') => IdsOf(m.ids, outgoing["main"].map, tensor')
  BY Steady, PeersAre DEF Sent, Waits
<1> QED
  BY <1>1, <1>2 DEF Sent, Waits, Rests

LEMMA AnsweredStays ==
  ASSUME IInv, Same, NEW m, Answered(m), \A n \in DOMAIN m.ids : m.ids[n] \in Mentioned,
         UNCHANGED <<outgoing, inputs, passed, broken>>,
         wire'["worker"] = wire["worker"], transit'["worker"] = transit["worker"]
  PROVE  Answered(m)'
<1>1. Carries(m.ids, Held', mem', passed)
  BY CarriesKept DEF Same, Answered
<1>2. Backed(m, tensor')
  <2>1. m.entry \in transit["worker"] /\ m.entry \in transit'["worker"]
    BY DEF Answered
  <2>2. \A o \in m.entry.objs : o \in DOMAIN tensor /\ o \in DOMAIN tensor'
    BY <2>1, AliveIs, PeersAre DEF IInv, Live, Same
  <2> QED
    BY <2>2 DEF Backed, Answered, Same
<1> QED
  BY <1>1, <1>2 DEF Answered, Waits, Rests
-----------------------------------------------------------------------------
\* A DONE ends the wait for it.
LEMMA DoneSettles ==
  /\ \A w, t : Settled(w, t) /\ w # <<>> => Settled(Tail(w), t \ {Head(w).entry})
  /\ \A w, t, m : Bears(w, t, m) /\ m.type = "TENSORS" /\ Head(w).type = "DONE"
                    => Bears(Tail(w), t \ {Head(w).entry}, m)
<1>1. \A d : Head(<<d>>) = d /\ Tail(<<d>>) = <<>>
  OBVIOUS
<1>2. ASSUME NEW d, NEW m
      PROVE  Head(<<d, m>>) = d /\ Tail(<<d, m>>) = <<m>>
  OBVIOUS
<1>3. \A e : Done(e).type = "DONE" /\ Done(e).entry = e
  BY DEF Done
<1>4. ASSUME NEW w, NEW t, Settled(w, t), w # <<>>
      PROVE  Settled(Tail(w), t \ {Head(w).entry})
  <2>1. PICK e \in t : w = <<Done(e)>> /\ t = {e}
    BY <1>4 DEF Settled
  <2>2. t \ {Head(w).entry} = {} /\ Tail(w) = <<>>
    BY <1>1, <1>3, <2>1
  <2> QED
    BY <2>2 DEF Settled
<1>5. ASSUME NEW w, NEW t, NEW m, Bears(w, t, m), m.type = "TENSORS", Head(w).type = "DONE"
      PROVE  Bears(Tail(w), t \ {Head(w).entry}, m)
  <2>1. PICK e \in t : w = <<Done(e), m>> /\ t = {e}
    BY <1>1, <1>5 DEF Bears
  <2>2. t \ {Head(w).entry} = {} /\ Tail(w) = <<m>>
    BY <1>2, <1>3, <2>1
  <2> QED
    BY <2>2 DEF Bears
<1> QED
  BY <1>4, <1>5

LEMMA BearsIds ==
  ASSUME NEW p \in Peers, NEW m, Bears(wire[p], transit[p], m)
  PROVE  \A n \in DOMAIN m.ids : m.ids[n] \in Mentioned
<1>1. \E k \in DOMAIN wire[p] : wire[p][k] = m
  <2>1. \A d : 1 \in DOMAIN <<m>> /\ <<m>>[1] = m /\ 2 \in DOMAIN <<d, m>> /\ <<d, m>>[2] = m
    OBVIOUS
  <2> QED
    BY <2>1 DEF Bears
<1> QED
  BY <1>1, MentionedIs

LEMMA ReadDoneKeeps == ASSUME IInv, NEW p \in Peers, ReadDone(p) PROVE IInv'
<1>1. PICK d : d = Head(wire[p]).entry
  OBVIOUS
<1>2. /\ wire[p] # <<>> /\ Head(wire[p]).type = "DONE"
      /\ transit' = [transit EXCEPT ![p] = transit[p] \ {d}]
      /\ wire' = [wire EXCEPT ![p] = Tail(wire[p])]
      /\ UNCHANGED <<user, outgoing, incoming, inputs, passed, calls, broken>>
      /\ Collect(tensor, mem)
  BY <1>1 DEF ReadDone
<1>3. \A q \in Peers : transit'[q] \subseteq transit[q] /\ transit' \in [Peers -> SUBSET Entries]
  BY <1>2 DEF IInv, Shape
<1>4. Alive' \subseteq Alive
  <2>1. \A o : o \in Alive' => o \in Alive
    BY <1>2, <1>3, AliveIs
  <2> QED
    BY <2>1
<1>5. TensorShape' /\ Same
  BY <1>2, <1>3, <1>4, LetsGo DEF Same
<1>6. Shape'
  <2>1. wire' \in [Peers -> Seq(Messages)]
    BY <1>2 DEF IInv, Shape
  <2> QED
    BY <1>2, <1>3, <1>5, <2>1, PeersAre DEF IInv, Shape, TensorShape
<1>7. CASE p = "worker"
  <2>1. /\ wire'["main"] = wire["main"] /\ transit'["main"] = transit["main"]
        /\ wire'["worker"] = Tail(wire["worker"]) /\ transit'["worker"] = transit["worker"] \ {d}
    BY <1>2, <1>7, PeersAre DEF IInv, Shape
  <2>2. Settled(wire["worker"], transit["worker"]) => Settled(wire'["worker"], transit'["worker"])
    BY <1>1, <1>2, <1>7, <2>1, DoneSettles
  <2>3. CASE Resting
    <3>1. Resting'
      BY <1>2, <2>1, <2>2, <2>3 DEF Resting, Listens, Rests, Silent
    <3> QED
      BY <1>5, <1>6, <3>1 DEF IInv, Same, Stages
  <2>4. CASE Asking
    <3>1. Asking'
      BY <1>2, <1>5, <2>1, <2>2, <2>4, Steady, PeersAre DEF Asking, Listens, Rests, Silent
    <3> QED
      BY <1>5, <1>6, <3>1 DEF IInv, Same, Stages
  <2>5. CASE \E m \in Messages : Asked(m)
    <3>1. PICK m \in Messages : Asked(m)
      BY <2>5
    <3>2. \A n \in DOMAIN m.ids : m.ids[n] \in Mentioned
      BY <3>1, BearsIds, PeersAre DEF Asked
    <3>3. Sent(m)'
      BY <1>2, <1>5, <2>1, <3>1, <3>2, SentStays DEF Asked
    <3>4. Bears(wire'["worker"], transit'["worker"], m)
      BY <1>1, <1>2, <1>7, <2>1, <3>1, DoneSettles DEF Asked
    <3>5. Asked(m)'
      BY <1>2, <3>1, <3>3, <3>4 DEF Asked, Listens
    <3> QED
      BY <1>5, <1>6, <3>5 DEF IInv, Same, Stages
  <2> QED
    BY <1>2, <1>7, <2>3, <2>4, <2>5, StageOf DEF IInv
<1>8. CASE p = "main"
  <2>1. /\ wire'["worker"] = wire["worker"] /\ transit'["worker"] = transit["worker"]
        /\ wire'["main"] = Tail(wire["main"]) /\ transit'["main"] = transit["main"] \ {d}
    BY <1>2, <1>8, PeersAre DEF IInv, Shape
  <2>2. CASE Running
    <3>1. Settled(wire'["main"], transit'["main"])
      BY <1>1, <1>2, <1>8, <2>1, <2>2, DoneSettles DEF Running
    <3>2. Gives(inputs, tensor', mem', passed)
      BY <1>2, <1>5, <2>2, GivenKept DEF Running, Same
    <3>3. Running'
      BY <1>2, <1>5, <2>1, <2>2, <3>1, <3>2, Steady, PeersAre DEF Running, Listens, Waits, Silent
    <3> QED
      BY <1>5, <1>6, <3>3 DEF IInv, Same, Stages
  <2>3. CASE \E m \in Messages : Replied(m)
    <3>1. PICK m \in Messages : Replied(m)
      BY <2>3
    <3>2. \A n \in DOMAIN m.ids : m.ids[n] \in Mentioned
      BY <3>1, BearsIds, PeersAre DEF Replied
    <3>3. Answered(m)'
      BY <1>2, <1>5, <2>1, <3>1, <3>2, AnsweredStays DEF Replied
    <3>4. Bears(wire'["main"], transit'["main"], m)
      BY <1>1, <1>2, <1>8, <2>1, <3>1, DoneSettles DEF Replied
    <3>5. Replied(m)'
      BY <1>2, <3>1, <3>3, <3>4 DEF Replied, Listens
    <3> QED
      BY <1>5, <1>6, <3>5 DEF IInv, Same, Stages
  <2> QED
    BY <1>2, <1>8, <2>2, <2>3, StageOf DEF IInv
<1> QED
  BY <1>7, <1>8, PeersAre
-----------------------------------------------------------------------------
\* Receiving a message.
LEMMA HeadTensors ==
  /\ \A w, t : Settled(w, t) /\ w # <<>> => Head(w).type # "TENSORS"
  /\ \A w, t, m : Bears(w, t, m) /\ Head(w).type = "TENSORS"
                    => t = {} /\ Head(w) = m /\ Tail(w) = <<>>
<1>1. \A d : Head(<<d>>) = d /\ Tail(<<d>>) = <<>>
  OBVIOUS
<1>2. \A d, m : Head(<<d, m>>) = d
  OBVIOUS
<1>3. \A e : Done(e).type # "TENSORS"
  BY DEF Done
<1>4. \A w, t : Settled(w, t) /\ w # <<>> => Head(w).type # "TENSORS"
  BY <1>1, <1>3 DEF Settled
<1>5. ASSUME NEW w, NEW t, NEW m, Bears(w, t, m), Head(w).type = "TENSORS"
      PROVE  t = {} /\ Head(w) = m /\ Tail(w) = <<>>
  <2>1. \A e : w # <<Done(e), m>>
    BY <1>2, <1>3, <1>5
  <2>2. w = <<m>> /\ t = {}
    BY <1>5, <2>1 DEF Bears
  <2> QED
    BY <1>1, <2>2
<1> QED
  BY <1>4, <1>5

LEMMA LoadingNext ==
  ASSUME NEW m, NEW r, Sent(m)', incoming'["worker"] = r, r.msg = m, r.at # "idle",
         incoming'["main"] = Deaf, wire'["worker"] = <<>>, transit'["worker"] = {},
         Got(r, tensor', mem', Held', passed')
  PROVE  Loading'
BY DEF Loading, Sent, Silent

LEMMA TakingNext ==
  ASSUME NEW m, NEW r, Answered(m)', incoming'["main"] = r, r.msg = m, r.at # "idle",
         incoming'["worker"] = Deaf, wire'["main"] = <<>>, transit'["main"] = {},
         Got(r, tensor', mem', Held', passed')
  PROVE  Taking'
BY DEF Taking, Answered, Silent

LEMMA ReadTensorsKeeps == ASSUME IInv, NEW p \in Peers, ReadTensors(p) PROVE IInv'
<1>1. PICK h, r : h = Head(wire[p]) /\ r = [Deaf EXCEPT !.at = "payload", !.msg = h]
  OBVIOUS
<1>2. /\ wire[p] # <<>> /\ h.type = "TENSORS" /\ incoming[p].at = "idle"
      /\ incoming' = [incoming EXCEPT ![p] = r]
      /\ wire' = [wire EXCEPT ![p] = Tail(wire[p])]
      /\ UNCHANGED <<tensor, mem, user, outgoing, transit, inputs, passed, calls, broken>>
  BY <1>1 DEF ReadTensors
<1>3. /\ h \in Messages /\ Tail(wire[p]) \in Seq(Messages)
      /\ r \in Readings /\ r.at = "payload" /\ r.msg = h /\ r.got = Empty /\ r.copying = {}
  <2>1. wire[p] \in Seq(Messages)
    BY DEF IInv, Shape
  <2>2. h \in Messages /\ Tail(wire[p]) \in Seq(Messages)
    BY <1>1, <1>2, <2>1
  <2> QED
    BY <1>1, <2>2, Blanks DEF Readings
<1>4. Shape'
  BY <1>2, <1>3 DEF IInv, Shape
<1>5. ASSUME incoming[p] = Deaf
      PROVE  Same
  <2>1. DOMAIN incoming[p].got = {} /\ DOMAIN incoming'[p].got = {}
    BY <1>2, <1>3, <1>5, Blanks, EmptyIs DEF IInv, Shape
  <2>2. \A q \in Peers : q # p => incoming'[q] = incoming[q]
    BY <1>2 DEF IInv, Shape
  <2>3. \A o : o \in Alive' => o \in Alive
    BY <1>2, <2>1, <2>2, AliveIs
  <2>4. \A o : o \in Alive => o \in Alive'
    BY <1>2, <2>1, <2>2, AliveIs
  <2>5. Alive' = Alive
    BY <2>3, <2>4
  <2> QED
    BY <1>2, <2>5, Unmoved DEF IInv, Same
<1>6. Got(r, tensor', mem', Held', passed')
  BY <1>3, EmptyIs DEF Got
<1>7. CASE p = "worker"
  <2>1. PICK m \in Messages : Asked(m)
    BY <1>1, <1>2, <1>7, StageOf, HeadTensors DEF IInv, Resting, Asking
  <2>2. transit["worker"] = {} /\ h = m /\ wire'["worker"] = <<>> /\ wire'["main"] = wire["main"]
    BY <1>1, <1>2, <1>7, <2>1, HeadTensors, PeersAre DEF Asked, IInv, Shape
  <2>3. incoming'["worker"] = r /\ incoming'["main"] = Deaf /\ Same
    BY <1>2, <1>5, <1>7, <2>1, PeersAre DEF Asked, Listens, IInv, Shape
  <2>4. \A n \in DOMAIN m.ids : m.ids[n] \in Mentioned
    BY <2>1, BearsIds, PeersAre DEF Asked
  <2>5. Sent(m)'
    BY <1>2, <2>1, <2>2, <2>3, <2>4, SentStays DEF Asked
  <2>6. Loading'
    BY <1>2, <1>3, <1>6, <2>2, <2>3, <2>5, LoadingNext
  <2> QED
    BY <1>4, <2>3, <2>6 DEF IInv, Same, Stages
<1>8. CASE p = "main"
  <2>1. PICK m \in Messages : Replied(m)
    BY <1>1, <1>2, <1>8, StageOf, HeadTensors DEF IInv, Running
  <2>2. transit["main"] = {} /\ h = m /\ wire'["main"] = <<>> /\ wire'["worker"] = wire["worker"]
    BY <1>1, <1>2, <1>8, <2>1, HeadTensors, PeersAre DEF Replied, IInv, Shape
  <2>3. incoming'["main"] = r /\ incoming'["worker"] = Deaf /\ Same
    BY <1>2, <1>5, <1>8, <2>1, PeersAre DEF Replied, Listens, IInv, Shape
  <2>4. \A n \in DOMAIN m.ids : m.ids[n] \in Mentioned
    BY <2>1, BearsIds, PeersAre DEF Replied
  <2>5. Answered(m)'
    BY <1>2, <2>1, <2>2, <2>3, <2>4, AnsweredStays DEF Replied
  <2>6. Taking'
    BY <1>2, <1>3, <1>6, <2>2, <2>3, <2>5, TakingNext
  <2> QED
    BY <1>4, <2>3, <2>6 DEF IInv, Same, Stages
<1> QED
  BY <1>7, <1>8, PeersAre
-----------------------------------------------------------------------------
\* A step of a process that reads a message, to the state r of reading, which is the same
\* message: what was read stays, and so does what is known of the message.
LEMMA ReadOn ==
  ASSUME IInv, NEW p \in Peers, NEW r, Same, r.at # "idle", r.msg = incoming[p].msg,
         Got(r, tensor', mem', Held', passed'), incoming' = [incoming EXCEPT ![p] = r],
         incoming[p].at # "idle",
         UNCHANGED <<outgoing, wire, transit, inputs, passed, broken>>
  PROVE  Stages'
<1>1. \A n \in DOMAIN r.msg.ids : r.msg.ids[n] \in Mentioned
  BY MentionedIs
<1>2. incoming'[p] = r /\ \A q \in Peers : q # p => incoming'[q] = incoming[q]
  BY DEF IInv, Shape
<1>3. CASE p = "worker"
  <2>1. Loading
    BY <1>3, StageOf DEF IInv
  <2>2. Sent(r.msg)
    BY <1>3, <2>1 DEF Loading
  <2>3. PICK m : m = r.msg
    OBVIOUS
  <2>4. Sent(m)'
    BY <1>1, <2>2, <2>3, SentStays
  <2>5. Loading'
    BY <1>2, <1>3, <2>1, <2>3, <2>4, LoadingNext, PeersAre DEF Loading, Silent
  <2> QED
    BY <2>5 DEF Stages
<1>4. CASE p = "main"
  <2>1. Taking
    BY <1>4, StageOf DEF IInv
  <2>2. Answered(r.msg)
    BY <1>4, <2>1 DEF Taking
  <2>3. PICK m : m = r.msg
    OBVIOUS
  <2>4. Answered(m)'
    BY <1>1, <2>2, <2>3, AnsweredStays
  <2>5. Taking'
    BY <1>2, <1>4, <2>1, <2>3, <2>4, TakingNext, PeersAre DEF Taking, Silent
  <2> QED
    BY <2>5 DEF Stages
<1> QED
  BY <1>3, <1>4, PeersAre

\* What was read of the message that p reads.
LEMMA GotOf ==
  ASSUME IInv, NEW p \in Peers, incoming[p].at # "idle" \/ incoming[p].copying # {}
  PROVE  /\ incoming[p].at # "idle" /\ Got(incoming[p], tensor, mem, Held, passed)
         /\ Carries(incoming[p].msg.ids, Held, mem, passed)
BY StageOf, PeersAre DEF IInv, Loading, Taking, Sent, Answered

LEMMA OpenPayloadKeeps == ASSUME IInv, NEW p \in Peers, OpenPayload(p) PROVE IInv'
<1>1. PICK r : r = [incoming[p] EXCEPT !.at = "load"]
  OBVIOUS
<1>2. /\ incoming[p].at = "payload" /\ incoming' = [incoming EXCEPT ![p] = r]
      /\ UNCHANGED <<tensor, mem, user, outgoing, wire, transit, inputs, passed, calls, broken>>
  BY <1>1 DEF OpenPayload, IInv, Shape
<1>3. /\ r \in Readings /\ r.at = "load" /\ r.msg = incoming[p].msg
      /\ r.got = incoming[p].got /\ r.copying = incoming[p].copying
  <2>1. incoming[p] \in Readings
    BY DEF IInv, Shape
  <2> QED
    BY <1>1, <2>1 DEF Readings
<1>4. \A q \in Peers : incoming'[q].got = incoming[q].got
  BY <1>2, <1>3 DEF IInv, Shape
<1>5. Alive' = Alive
  <2>1. \A o : o \in Alive' <=> o \in Alive
    BY <1>2, <1>4, AliveIs
  <2> QED
    BY <2>1
<1>6. Same
  BY <1>2, <1>5, Unmoved DEF IInv, Same
<1>7. Got(r, tensor', mem', Held', passed')
  <2>1. Held' = Held
    BY <1>2, HeldIs
  <2> QED
    BY <1>2, <1>3, <2>1, GotOf DEF Got
<1>8. Stages'
  BY <1>2, <1>3, <1>6, <1>7, ReadOn
<1>9. Shape'
  BY <1>2, <1>3 DEF IInv, Shape
<1> QED
  BY <1>6, <1>8, <1>9 DEF IInv, Same
-----------------------------------------------------------------------------
\* A tensor x is made over a block that is held, or over none, and read as n.
Makes(p, o, x, n, r) ==
  /\ CanMake(p) /\ o = NewObj(p) /\ Collect(With(tensor, o, x), mem)
  /\ x \in Tensors /\ (x.kind = "numeric" => x.id \in Ids) /\ (x.id \in Held \/ x.id = NoId)
  /\ n \in DOMAIN incoming[p].msg.ids /\ ValueIn(x, mem) = passed[n]
  /\ incoming[p].at # "idle" /\ r \in Readings /\ r.at = incoming[p].at
  /\ r.msg = incoming[p].msg /\ r.got = With(incoming[p].got, n, o) /\ r.copying = {}
  /\ incoming' = [incoming EXCEPT ![p] = r]
  /\ UNCHANGED <<user, outgoing, wire, transit, inputs, passed, calls, broken>>

LEMMA Reads ==
  ASSUME IInv, NEW p \in Peers, NEW o, NEW x, NEW n, NEW r, Makes(p, o, x, n, r)
  PROVE  IInv'
<1> USE DEF Makes
<1> DEFINE T == With(tensor, o, x)
<1>1. o \in Objs /\ o \notin DOMAIN tensor
  BY NewObjIs
<1>2. DOMAIN T = DOMAIN tensor \cup {o} /\ T[o] = x /\ \A b \in DOMAIN tensor : T[b] = tensor[b]
  BY <1>1 DEF With
<1>3. /\ incoming'[p] = r /\ \A q \in Peers : q # p => incoming'[q] = incoming[q]
      /\ DOMAIN r.got = DOMAIN incoming[p].got \cup {n} /\ r.got[n] = o
      /\ \A k \in DOMAIN incoming[p].got : k # n => r.got[k] = incoming[p].got[k]
  BY DEF IInv, Shape, With
<1>4. Alive' \subseteq Alive \cup {o}
  <2>1. \A b : b \in Alive' => b \in Alive \/ b = o
    BY <1>3, AliveIs
  <2> QED
    BY <2>1
<1>5. Moves(T, mem, {o}, {})
  <2>1. \A b \in DOMAIN T : T[b] \in Tensors /\ (T[b].kind = "numeric" => T[b].id \in Ids)
    BY <1>2 DEF IInv, Shape, Live
  <2>2. \A q \in Peers : \A e \in transit'[q] : e.blocks \subseteq Held
    BY HeldIs
  <2>3. mem \in [Ids -> [kind : Kinds, val : Contents]]
    BY DEF IInv, Shape
  <2> HIDE DEF T
  <2> QED
    BY <1>1, <1>2, <1>4, <2>1, <2>2, <2>3 DEF Moves, T
<1>6. /\ TensorShape' /\ Live' /\ Calm /\ \A b \in DOMAIN tensor' : tensor'[b] = T[b]
  <2> HIDE DEF T
  <2> QED
    BY <1>5, Frame DEF IInv
<1>7. Same
  BY <1>2, <1>6 DEF Same
<1>8. Got(r, tensor', mem', Held', passed')
  <2>1. Got(incoming[p], tensor, mem, Held, passed)
    BY GotOf
  <2>2. o \in DOMAIN tensor' /\ tensor'[o] = x
    <3>1. o \in Alive'
      BY <1>3, AliveIs
    <3> QED
      BY <1>2, <1>6, <3>1 DEF Live
  <2>3. ValueIn(x, mem') = ValueIn(x, mem)
    <3>1. CASE x.kind = "string"
      BY <3>1 DEF ValueIn
    <3>2. CASE x.kind # "string"
      <4>1. x.id \in Ids /\ x.id # NoId
        BY <3>2, IdAssumption DEF Tensors, Kinds
      <4>2. x.id \in Held /\ x.id \in Held'
        BY <2>2, <4>1, HeldIs
      <4>3. mem'[x.id] = mem[x.id]
        BY <1>6, <4>2, MentionedIs DEF Calm
      <4> QED
        BY <3>2, <4>3 DEF ValueIn
    <3> QED
      BY <3>1, <3>2
  <2>4. ASSUME NEW k \in DOMAIN incoming[p].got, k # n
        PROVE  k \in DOMAIN r.msg.ids /\ ValueIn(tensor'[r.got[k]], mem') = passed[k]
    <3>1. r.got[k] = incoming[p].got[k] /\ r.got[k] \in DOMAIN tensor
      BY <1>3, <2>4, MapsLive DEF Lives
    <3>2. r.got[k] \in DOMAIN tensor'
      BY <1>3, <1>6, <2>4, MapsLiveNext DEF Lives
    <3> QED
      BY <1>6, <2>1, <3>1, <3>2 DEF Calm, Got
  <2> QED
    BY <1>3, <2>2, <2>3, <2>4 DEF Got
<1>9. Stages'
  BY <1>7, <1>8, ReadOn
<1>10. Shape'
  BY <1>6 DEF IInv, Shape, TensorShape
<1> QED
  BY <1>7, <1>9, <1>10 DEF IInv, Same

\* A load fails only if a string tensor was asked for two ids.
LEMMA FailKeeps ==
  ASSUME IInv, NEW p \in Peers, NEW n \in DOMAIN incoming[p].msg.ids,
         incoming[p].at # "idle", incoming[p].msg.ids[n] \notin Held, Fail(p)
  PROVE  IInv'
<1>1. /\ broken' = TRUE /\ incoming' = [incoming EXCEPT ![p] = Deaf]
      /\ UNCHANGED <<user, outgoing, wire, transit, inputs, passed, calls>>
      /\ Collect(tensor, mem)
  BY DEF Fail
<1>2. incoming[p].msg.ids[n] \in Ids /\ incoming[p].msg.ids[n] # NoId
  <2>1. incoming[p].msg.ids \in [DOMAIN incoming[p].msg.ids -> Ids]
    BY Parts, MapsToIs DEF IInv
  <2> QED
    BY <2>1, IdAssumption
<1>3. \A o \in DOMAIN tensor : incoming[p].msg.ids[n] # tensor[o].id
  BY <1>2, HeldIs
<1>4. /\ incoming'[p] = Deaf /\ \A q \in Peers : q # p => incoming'[q] = incoming[q]
  BY <1>1 DEF IInv, Shape
<1>5. TensorShape' /\ Live' /\ Calm
  <2>1. \A o : o \in Alive' => o \in Alive
    BY <1>1, <1>4, Blanks, EmptyIs, AliveIs
  <2>2. Alive' \subseteq Alive
    BY <2>1
  <2> QED
    BY <1>1, <2>2, LetsGo
<1>6. CASE p = "worker"
  <2>1. Loading
    BY <1>6, StageOf DEF IInv
  <2>2. ~Once(outgoing["main"].map, tensor)
    <3>1. n \in DOMAIN outgoing["main"].map
      BY <1>6, <2>1 DEF Loading, Sent, Waits
    <3>2. outgoing["main"].map[n] \in DOMAIN tensor
      BY <3>1, MapsLive, PeersAre DEF Lives
    <3> QED
      BY <1>3, <1>6, <2>1, <3>2 DEF Loading, Sent, IdsOf
  <2>3. ~Once(outgoing["main"].map, tensor')
    <3>1. Lives(outgoing["main"].map, tensor) /\ Lives(outgoing["main"].map, tensor')
      <4>1. Lives(outgoing'["main"].map, tensor')
        BY <1>5, MapsLiveNext, PeersAre
      <4> QED
        BY <1>1, <4>1, MapsLive, PeersAre
    <3> QED
      BY <1>5, <2>2, <3>1, OnceKept
  <2>4. Listens'
    BY <1>4, <1>6, <2>1, PeersAre DEF Listens, Loading
  <2>5. Stuck'
    BY <1>1, <2>1, <2>3, <2>4, PeersAre DEF Stuck, Loading, Sent, Waits, Rests, Silent
  <2> QED
    BY <1>1, <1>5, <2>5, Blanks DEF IInv, Shape, TensorShape, Stages
<1>7. CASE p = "main"
  <2>1. Taking
    BY <1>7, StageOf DEF IInv
  <2>2. PICK o \in incoming[p].msg.entry.objs : incoming[p].msg.ids[n] = tensor[o].id
    BY <1>7, <2>1 DEF Taking, Answered, Backed
  <2>3. incoming[p].msg.entry \in transit["worker"]
    BY <1>7, <2>1 DEF Taking, Answered
  <2>4. o \in DOMAIN tensor
    BY <2>3, AliveIs, PeersAre DEF IInv, Live
  <2> QED
    BY <1>3, <2>2, <2>4
<1> QED
  BY <1>6, <1>7, PeersAre

LEMMA LoadTensorKeeps ==
  ASSUME IInv, NEW p \in Peers, NEW n \in Names, LoadTensor(p, n) PROVE IInv'
<1>1. PICK i, o : i = incoming[p].msg.ids[n] /\ o = NewObj(p)
  OBVIOUS
<1>2. /\ incoming[p].at = "load" /\ incoming[p].copying = {}
      /\ n \in DOMAIN incoming[p].msg.ids /\ n \notin DOMAIN incoming[p].got
  BY DEF LoadTensor
<1>3. /\ incoming[p] \in Readings /\ incoming[p].got \in MapsTo(Objs) /\ i \in Ids
  <2>1. incoming[p].msg.ids \in [DOMAIN incoming[p].msg.ids -> Ids]
    BY Parts, MapsToIs DEF IInv
  <2> QED
    BY <1>1, <1>2, <2>1, Parts DEF IInv
<1>4. CASE i \notin Held /\ Fail(p)
  BY <1>1, <1>2, <1>4, FailKeeps
<1>5. CASE /\ i \in Held /\ mem[i].kind = "numeric" /\ CanMake(p)
           /\ incoming' = [incoming EXCEPT ![p].got = With(incoming[p].got, n, o)]
           /\ UNCHANGED <<user, outgoing, wire, transit, inputs, passed, calls, broken>>
           /\ Collect(With(tensor, o, Numeric(i)), mem)
  <2>1. PICK r, x : r = [incoming[p] EXCEPT !.got = With(incoming[p].got, n, o)] /\ x = Numeric(i)
    OBVIOUS
  <2>2. With(incoming[p].got, n, o) \in MapsTo(Objs)
    BY <1>1, <1>3, <1>5, NewObjIs, WithIs
  <2>3. /\ r \in Readings /\ r.at = incoming[p].at /\ r.msg = incoming[p].msg
        /\ r.got = With(incoming[p].got, n, o) /\ r.copying = {}
    BY <1>2, <1>3, <2>1, <2>2 DEF Readings
  <2>4. incoming' = [incoming EXCEPT ![p] = r]
    BY <1>5, <2>1 DEF IInv, Shape
  <2>5. /\ x \in Tensors /\ x.id = i /\ x.kind = "numeric" /\ ValueIn(x, mem) = mem[i].val
    BY <1>3, <2>1 DEF Numeric, Tensors, Kinds, Contents, ValueIn
  <2>6. ValueIn(x, mem) = passed[n]
    BY <1>1, <1>2, <1>5, <2>5, GotOf DEF Carries
  <2>7. Makes(p, o, x, n, r)
    BY <1>1, <1>2, <1>3, <1>5, <2>1, <2>3, <2>4, <2>5, <2>6 DEF Makes
  <2> QED
    BY <2>7, Reads
<1>6. CASE /\ i \in Held /\ mem[i].kind = "string"
           /\ incoming' = [incoming EXCEPT ![p].copying = {n}]
           /\ UNCHANGED <<tensor, mem, user, outgoing, wire, transit, inputs, passed, calls, broken>>
  <2>1. PICK r : r = [incoming[p] EXCEPT !.copying = {n}]
    OBVIOUS
  <2>2. /\ r \in Readings /\ r.at = incoming[p].at /\ r.msg = incoming[p].msg
        /\ r.got = incoming[p].got /\ r.copying = {n}
    BY <1>3, <2>1 DEF Readings
  <2>3. incoming' = [incoming EXCEPT ![p] = r]
    BY <1>6, <2>1 DEF IInv, Shape
  <2>4. \A q \in Peers : incoming'[q].got = incoming[q].got
    BY <2>2, <2>3 DEF IInv, Shape
  <2>5. Alive' = Alive
    <3>1. \A b : b \in Alive' <=> b \in Alive
      BY <1>6, <2>4, AliveIs
    <3> QED
      BY <3>1
  <2>6. Same
    BY <1>6, <2>5, Unmoved DEF IInv, Same
  <2>7. Got(r, tensor', mem', Held', passed')
    <3>1. Held' = Held
      BY <1>6, HeldIs
    <3> QED
      BY <1>1, <1>2, <1>6, <2>2, <3>1, GotOf DEF Got
  <2>8. Stages'
    BY <1>2, <1>6, <2>2, <2>3, <2>6, <2>7, ReadOn
  <2>9. Shape'
    BY <1>6, <2>2, <2>3 DEF IInv, Shape
  <2> QED
    BY <2>6, <2>8, <2>9 DEF IInv, Same
<1> QED
  BY <1>1, <1>4, <1>5, <1>6 DEF LoadTensor

LEMMA CopyStringsKeeps ==
  ASSUME IInv, NEW p \in Peers, NEW n \in Names, CopyStrings(p, n) PROVE IInv'
<1>1. PICK o, x, r : /\ o = NewObj(p) /\ x = String(mem[incoming[p].msg.ids[n]].val)
                     /\ r = [incoming[p] EXCEPT !.copying = {}, !.got = With(incoming[p].got, n, o)]
  OBVIOUS
<1>2. /\ n \in incoming[p].copying /\ CanMake(p)
      /\ incoming' = [incoming EXCEPT ![p].copying = {}, ![p].got = With(incoming[p].got, n, o)]
      /\ UNCHANGED <<user, outgoing, wire, transit, inputs, passed, calls, broken>>
      /\ Collect(With(tensor, o, x), mem)
  BY <1>1 DEF CopyStrings
<1>3. /\ incoming[p].at # "idle" /\ n \in DOMAIN incoming[p].msg.ids
      /\ incoming[p].msg.ids[n] \in Held /\ mem[incoming[p].msg.ids[n]].val = passed[n]
  BY <1>2, GotOf DEF Got, Carries
<1>4. With(incoming[p].got, n, o) \in MapsTo(Objs)
  BY <1>1, <1>2, NewObjIs, WithIs, Parts DEF IInv
<1>5. /\ r \in Readings /\ r.at = incoming[p].at /\ r.msg = incoming[p].msg
      /\ r.got = With(incoming[p].got, n, o) /\ r.copying = {}
  BY <1>1, <1>4, Parts DEF IInv, Readings
<1>6. incoming' = [incoming EXCEPT ![p] = r]
  BY <1>1, <1>2 DEF IInv, Shape
<1>7. /\ x \in Tensors /\ x.id = NoId /\ x.kind = "string" /\ ValueIn(x, mem) = passed[n]
  <2>1. incoming[p].msg.ids[n] \in Ids
    BY <1>3, HeldIsTyped DEF IInv
  <2>2. mem[incoming[p].msg.ids[n]].val \in Contents
    BY <2>1 DEF IInv, Shape
  <2> QED
    BY <1>1, <1>3, <2>2 DEF String, Tensors, Kinds, ValueIn
<1>8. Makes(p, o, x, n, r)
  BY <1>1, <1>2, <1>3, <1>5, <1>6, <1>7 DEF Makes
<1> QED
  BY <1>8, Reads
-----------------------------------------------------------------------------
\* What was read becomes inputs, or the answer, and a DONE is sent for the message.
LEMMA ObjsAreSome == \A o \in Objs : o # <<>>
<1> SUFFICES ASSUME NEW o \in Objs PROVE o # <<>>
  OBVIOUS
<1>1. PICK q, k : o = <<q, k>>
  BY DEF Objs
<1>2. Len(<<q, k>>) = 2 /\ Len(<<>>) = 0
  OBVIOUS
<1> QED
  BY <1>1, <1>2

LEMMA DoneIsAll == \A d : Append(<<>>, d) = <<d>>
OBVIOUS

LEMMA DoneIsMessage == \A e \in Entries : Done(e) \in Messages
BY EmptyIs DEF Done, Messages

LEMMA LetGoIs ==
  ASSUME IInv, NEW p \in Peers, LetGo(p)
  PROVE  /\ incoming'[p] = Deaf /\ incoming'[Other(p)] = incoming[Other(p)]
         /\ wire'[Other(p)] = Append(wire[Other(p)], Done(incoming[p].msg.entry)) /\ wire'[p] = wire[p]
         /\ incoming' \in [Peers -> Readings] /\ wire' \in [Peers -> Seq(Messages)]
<1>1. Other(p) \in Peers /\ Other(p) # p
  BY PeersAre DEF Other
<1>2. /\ incoming' = [incoming EXCEPT ![p] = Deaf]
      /\ wire' = [wire EXCEPT ![Other(p)] = Append(wire[Other(p)], Done(incoming[p].msg.entry))]
  BY DEF LetGo
<1>3. Append(wire[Other(p)], Done(incoming[p].msg.entry)) \in Seq(Messages)
  <2>1. wire[Other(p)] \in Seq(Messages) /\ Done(incoming[p].msg.entry) \in Messages
    BY <1>1, Parts, DoneIsMessage DEF IInv
  <2> QED
    BY <2>1, AppendProperties
<1> QED
  BY <1>1, <1>2, <1>3, Blanks DEF IInv, Shape

LEMMA WrapInputsKeeps == ASSUME IInv, WrapInputs PROVE IInv'
<1>1. PICK r : r = incoming["worker"]
  OBVIOUS
<1>2. /\ r.at = "load" /\ r.copying = {} /\ DOMAIN r.got = DOMAIN r.msg.ids
      /\ LetGo("worker") /\ UNCHANGED <<user, outgoing, transit, passed, calls, broken>>
      /\ Collect(tensor, mem)
      /\ inputs' = [n \in DOMAIN r.got \cup DOMAIN inputs |->
                      IF n \in DOMAIN r.got THEN Wrapped(r.got[n]) ELSE inputs[n]]
  BY <1>1 DEF WrapInputs, Read
<1>3. Loading
  BY <1>1, <1>2, StageOf DEF IInv
<1>4. inputs = Empty /\ DOMAIN inputs = {} /\ DOMAIN r.got = DOMAIN passed /\ outgoing["worker"] = Quiet
  BY <1>1, <1>2, <1>3, EmptyIs DEF Loading, Sent, Rests
<1>5. DOMAIN inputs' = DOMAIN passed /\ \A n \in DOMAIN passed : inputs'[n] = Wrapped(r.got[n])
  BY <1>2, <1>4
<1>6. /\ incoming'["worker"] = Deaf /\ incoming'["main"] = incoming["main"]
      /\ wire'["main"] = Append(wire["main"], Done(r.msg.entry)) /\ wire'["worker"] = wire["worker"]
      /\ incoming' \in [Peers -> Readings] /\ wire' \in [Peers -> Seq(Messages)]
  BY <1>1, <1>2, LetGoIs, PeersAre
<1>7. \A n \in DOMAIN passed : /\ r.got[n] \in DOMAIN tensor /\ r.got[n] \in Objs /\ tensor[r.got[n]] \in Tensors
                               /\ ValueIn(tensor[r.got[n]], mem) = passed[n]
  <2>1. \A n \in DOMAIN passed : r.got[n] \in DOMAIN tensor
    BY <1>1, <1>4, MapsLive, PeersAre DEF Lives
  <2>2. \A n \in DOMAIN passed : ValueIn(tensor[r.got[n]], mem) = passed[n]
    BY <1>1, <1>3, <1>4 DEF Loading, Got
  <2> QED
    BY <2>1, <2>2 DEF IInv, Shape
<1>8. \A n \in DOMAIN passed :
        /\ inputs'[n].obj = <<>> => tensor[r.got[n]].kind = "string" /\ inputs'[n].val = tensor[r.got[n]].val
        /\ inputs'[n].obj # <<>> => inputs'[n].obj = r.got[n]
        /\ inputs'[n] \in Given
  <2> SUFFICES ASSUME NEW n \in DOMAIN passed
               PROVE  /\ inputs'[n].obj = <<>> => tensor[r.got[n]].kind = "string" /\ inputs'[n].val = tensor[r.got[n]].val
                      /\ inputs'[n].obj # <<>> => inputs'[n].obj = r.got[n]
                      /\ inputs'[n] \in Given
    OBVIOUS
  <2>1. CASE tensor[r.got[n]].kind = "string"
    BY <1>5, <1>7, <2>1 DEF Wrapped, Given, Tensors
  <2>2. CASE tensor[r.got[n]].kind # "string"
    BY <1>5, <1>7, <2>2, ObjsAreSome DEF Wrapped, Given, Contents
  <2> QED
    BY <2>1, <2>2
<1>9. Alive' \subseteq Alive
  <2>1. \A n \in DOMAIN incoming'["worker"].got : FALSE
    BY <1>6, Blanks, EmptyIs
  <2>2. \A o \in Objs : \A n \in DOMAIN inputs' : o = inputs'[n].obj => o \in Alive
    <3> SUFFICES ASSUME NEW o \in Objs, NEW n \in DOMAIN inputs', o = inputs'[n].obj
                 PROVE  o \in Alive
      OBVIOUS
    <3>1. o = r.got[n] /\ n \in DOMAIN r.got
      BY <1>4, <1>5, <1>8, ObjsAreSome
    <3> QED
      BY <1>1, <3>1, AliveIs, PeersAre
  <2>3. \A q \in Peers : \A n \in DOMAIN incoming'[q].got : incoming'[q].got[n] \in Alive
    BY <1>6, <2>1, AliveIs, PeersAre
  <2>4. \A q \in Peers : \A n \in DOMAIN outgoing'[q].map : outgoing'[q].map[n] \in Alive
    BY <1>2, AliveIs
  <2>5. ASSUME NEW o \in Alive'
        PROVE  o \in Alive
    <3>1. CASE o \in Objs /\ \E n \in DOMAIN inputs' : o = inputs'[n].obj
      BY <2>2, <3>1
    <3>2. CASE o \in user' \/ \E p \in Peers : \E e \in transit'[p] : o \in e.objs
      BY <1>2, <3>2, AliveIs
    <3> QED
      BY <2>3, <2>4, <3>1, <3>2, AliveIs
  <2> QED
    BY <2>5
<1>10. /\ TensorShape' /\ Live' /\ Calm
  BY <1>2, <1>9, LetsGo
<1>11. Gives(inputs', tensor', mem', passed)
  <2> SUFFICES ASSUME NEW n \in DOMAIN inputs'
               PROVE  passed[n] = IF inputs'[n].obj = <<>> THEN inputs'[n].val
                                  ELSE ValueIn(tensor'[inputs'[n].obj], mem')
    BY DEF Gives
  <2>1. CASE inputs'[n].obj = <<>>
    BY <1>5, <1>7, <1>8, <2>1 DEF ValueIn
  <2>2. CASE inputs'[n].obj # <<>>
    <3>1. inputs'[n].obj = r.got[n] /\ r.got[n] \in Objs
      BY <1>5, <1>7, <1>8, <2>2
    <3>2. r.got[n] \in DOMAIN tensor'
      BY <1>10, <3>1, MapsLiveNext, PeersAre
    <3> QED
      BY <1>5, <1>7, <1>10, <2>2, <3>1, <3>2 DEF Calm
  <2> QED
    BY <2>1, <2>2
<1>12. Settled(wire'["main"], transit'["main"])
  <2>1. wire["main"] = <<>> /\ transit'["main"] = {r.msg.entry}
    BY <1>1, <1>2, <1>3 DEF Loading, Sent
  <2>2. wire'["main"] = <<Done(r.msg.entry)>>
    BY <1>6, <2>1, DoneIsAll
  <2> QED
    BY <2>1, <2>2 DEF Settled
<1>13. Listens' /\ Waits' /\ Silent("worker")' /\ ~broken' /\ DOMAIN passed' # {}
  BY <1>1, <1>2, <1>3, <1>6, PeersAre DEF Loading, Sent, Listens, Waits, Silent
<1>14. Running'
  <2>1. /\ outgoing'["worker"] = Quiet /\ DOMAIN Quiet.map = {} /\ DOMAIN Quiet.ids = {}
        /\ Quiet.at = "idle" /\ Quiet.ids = Empty
    BY <1>2, <1>4, Blanks, EmptyIs
  <2>2. /\ IdsOf(Quiet.ids, Quiet.map, tensor') /\ Stands(Quiet.map, tensor', mem', passed')
        /\ Carries(Quiet.ids, Held', mem', passed')
    BY <2>1 DEF IdsOf, Stands, Carries
  <2> QED
    BY <1>2, <1>5, <1>11, <1>12, <1>13, <2>1, <2>2 DEF Running
<1>15. inputs' \in MapsTo(Given)
  <2>1. DOMAIN passed \subseteq Names
    BY MapsToIs DEF IInv, Shape
  <2> QED
    BY <1>2, <1>4, <1>5, <1>8, <2>1, MapsToIs
<1> QED
  BY <1>2, <1>6, <1>10, <1>14, <1>15 DEF IInv, Shape, TensorShape, Stages

LEMMA ReturnKeeps == ASSUME IInv, Return PROVE IInv'
<1>1. PICK r : r = incoming["main"]
  OBVIOUS
<1>2. /\ r.at = "load" /\ r.copying = {}
      /\ user' = user \cup Range(r.got) /\ outgoing' = [outgoing EXCEPT !["main"] = Quiet]
      /\ LetGo("main") /\ passed' = Empty /\ UNCHANGED <<transit, inputs, calls, broken>>
      /\ Collect(tensor, mem)
  BY <1>1 DEF Return, Read
<1>3. Taking
  BY <1>1, <1>2, StageOf DEF IInv
<1>4. /\ incoming'["main"] = Deaf /\ incoming'["worker"] = incoming["worker"]
      /\ wire'["worker"] = Append(wire["worker"], Done(r.msg.entry)) /\ wire'["main"] = wire["main"]
      /\ incoming' \in [Peers -> Readings] /\ wire' \in [Peers -> Seq(Messages)]
  BY <1>1, <1>2, LetGoIs, PeersAre
<1>5. /\ outgoing'["main"] = Quiet /\ outgoing'["worker"] = outgoing["worker"]
      /\ outgoing' \in [Peers -> Sendings]
  BY <1>2, Blanks, PeersAre DEF IInv, Shape
<1>6. \A o \in user' : o \in user \/ \E n \in DOMAIN r.got : o = r.got[n]
  BY <1>2 DEF Range
<1>7. user' \subseteq Objs
  <2>1. r.got \in [DOMAIN r.got -> Objs]
    BY <1>1, Parts, PeersAre, MapsToIs DEF IInv
  <2> QED
    BY <1>6, <2>1 DEF IInv, Shape
<1>8. Alive' \subseteq Alive
  <2>1. (\A n \in DOMAIN incoming'["main"].got : FALSE) /\ (\A n \in DOMAIN outgoing'["main"].map : FALSE)
    BY <1>4, <1>5, Blanks, EmptyIs
  <2>2. \A o \in user' : o \in Alive
    BY <1>1, <1>6, AliveIs, PeersAre
  <2>3. \A q \in Peers : \A n \in DOMAIN incoming'[q].got : incoming'[q].got[n] \in Alive
    BY <1>4, <2>1, AliveIs, PeersAre
  <2>4. \A q \in Peers : \A n \in DOMAIN outgoing'[q].map : outgoing'[q].map[n] \in Alive
    BY <1>5, <2>1, AliveIs, PeersAre
  <2>5. \A o : o \in Alive' => o \in Alive
    BY <1>2, <2>2, <2>3, <2>4, AliveIs
  <2> QED
    BY <2>5
<1>9. TensorShape' /\ Live'
  BY <1>2, <1>8, LetsGo
<1>10. Settled(wire'["worker"], transit'["worker"])
  <2>1. wire["worker"] = <<>> /\ transit'["worker"] = {r.msg.entry}
    BY <1>1, <1>2, <1>3 DEF Taking, Answered
  <2>2. wire'["worker"] = <<Done(r.msg.entry)>>
    BY <1>4, <2>1, DoneIsAll
  <2> QED
    BY <2>1, <2>2 DEF Settled
<1>11. Resting'
  BY <1>1, <1>2, <1>3, <1>4, <1>5, <1>10, PeersAre
     DEF Resting, Taking, Answered, Listens, Rests, Silent
<1> QED
  BY <1>2, <1>4, <1>5, <1>7, <1>9, <1>11, EmptyIs DEF IInv, Shape, TensorShape, Stages
-----------------------------------------------------------------------------
\* The worker answers with its inputs.
LEMMA WrapOutputKeeps == ASSUME IInv, NEW n \in Names, WrapOutput(n) PROVE IInv'
<1>1. PICK s, g, o, map : /\ s = outgoing["worker"] /\ g = inputs[n] /\ o = NewObj("worker")
                          /\ map = With(s.map, n, o)
  OBVIOUS
<1>2. PICK S : S = [s EXCEPT !.at = IF DOMAIN map = DOMAIN inputs THEN "serialize" ELSE "wrap", !.map = map]
  OBVIOUS
<1>3. /\ s.at \in {"idle", "wrap"} /\ n \in DOMAIN inputs /\ n \notin DOMAIN s.map /\ CanMake("worker")
      /\ outgoing' = [outgoing EXCEPT !["worker"] = S]
      /\ UNCHANGED <<user, wire, incoming, transit, inputs, passed, calls, broken>>
      /\ IF g.obj = <<>> THEN Collect(With(tensor, o, String(g.val)), mem)
         ELSE /\ CanIssue
              /\ Collect(With(tensor, o, Numeric(NewId)),
                         [mem EXCEPT ![NewId] = Block("numeric", Value(g.obj))])
  BY <1>1, <1>2 DEF WrapOutput
<1>4. Running
  BY <1>3, StageOf DEF IInv
<1>5. /\ o \in Objs /\ o \notin DOMAIN tensor /\ g \in Given
      /\ passed[n] = IF g.obj = <<>> THEN g.val ELSE ValueIn(tensor[g.obj], mem)
      /\ g.obj = <<>> \/ g.obj \in DOMAIN tensor
  <2>1. o \in Objs /\ o \notin DOMAIN tensor
    BY <1>1, <1>3, NewObjIs, PeersAre
  <2>2. g \in Given
    BY <1>1, <1>3, MapsToIs DEF IInv, Shape
  <2>3. passed[n] = IF g.obj = <<>> THEN g.val ELSE ValueIn(tensor[g.obj], mem)
    BY <1>1, <1>3, <1>4 DEF Running, Gives
  <2>4. g.obj = <<>> \/ g.obj \in DOMAIN tensor
    BY <1>1, <1>3, MapsLive, PeersAre
  <2> QED
    BY <2>1, <2>2, <2>3, <2>4
<1>6. /\ s \in Sendings /\ map \in MapsTo(Objs) /\ S \in Sendings
      /\ S.at = (IF DOMAIN map = DOMAIN inputs THEN "serialize" ELSE "wrap")
      /\ S.map = map /\ S.ids = s.ids
  <2>1. s \in Sendings /\ s.map \in MapsTo(Objs)
    BY <1>1, Parts, PeersAre DEF IInv
  <2>2. map \in MapsTo(Objs)
    BY <1>1, <1>5, <2>1, WithIs
  <2> QED
    BY <1>2, <2>1, <2>2 DEF Sendings
<1>7. /\ DOMAIN map = DOMAIN s.map \cup {n} /\ map[n] = o
      /\ \A k \in DOMAIN s.map : map[k] = s.map[k] /\ map[k] \in DOMAIN tensor
  <2>1. \A k \in DOMAIN s.map : s.map[k] \in DOMAIN tensor
    BY <1>1, MapsLive, PeersAre DEF Lives
  <2> QED
    BY <1>1, <1>3, <2>1 DEF With
<1>8. /\ outgoing'["worker"] = S /\ outgoing'["main"] = outgoing["main"]
      /\ outgoing' \in [Peers -> Sendings]
  BY <1>3, <1>6, PeersAre DEF IInv, Shape
<1>9. Alive' \subseteq Alive \cup {o}
  <2>1. \A q \in Peers : \A k \in DOMAIN outgoing'[q].map : outgoing'[q].map[k] \in Alive \cup {o}
    BY <1>1, <1>6, <1>7, <1>8, AliveIs, PeersAre
  <2>2. \A b : b \in Alive' => b \in Alive \/ b = o
    BY <1>3, <2>1, AliveIs
  <2> QED
    BY <2>2
<1>10. PICK T, M, J, x :
       /\ Moves(T, M, {o}, J) /\ Collect(T, M) /\ T = With(tensor, o, x)
       /\ (o \in DOMAIN tensor' => ValueIn(x, mem') = passed[n])
  <2>1. \A q \in Peers : \A e \in transit'[q] : e.blocks \subseteq Held
    BY <1>3, HeldIs
  <2>2. CASE g.obj = <<>>
    <3>1. PICK x, T : x = String(g.val) /\ T = With(tensor, o, x)
      OBVIOUS
    <3>2. x \in Tensors /\ x.kind = "string" /\ x.id = NoId /\ ValueIn(x, mem') = passed[n]
      BY <1>5, <2>2, <3>1 DEF String, Tensors, Kinds, Given, ValueIn
    <3>3. DOMAIN T = DOMAIN tensor \cup {o} /\ T[o] = x /\ \A b \in DOMAIN tensor : T[b] = tensor[b]
      BY <1>5, <3>1 DEF With
    <3>4. \A b \in DOMAIN T : T[b] \in Tensors /\ (T[b].kind = "numeric" => T[b].id \in Ids)
      BY <3>2, <3>3 DEF IInv, Shape, Live
    <3>5. mem \in [Ids -> [kind : Kinds, val : Contents]]
      BY DEF IInv, Shape
    <3>6. Collect(T, mem)
      BY <1>3, <2>2, <3>1
    <3>7. Moves(T, mem, {o}, {})
      BY <1>5, <1>9, <2>1, <3>2, <3>3, <3>4, <3>5, <3>6 DEF Moves
    <3> QED
      BY <3>1, <3>2, <3>6, <3>7
  <2>3. CASE g.obj # <<>>
    <3>1. PICK x, T, M : /\ x = Numeric(NewId) /\ T = With(tensor, o, x)
                         /\ M = [mem EXCEPT ![NewId] = Block("numeric", Value(g.obj))]
      OBVIOUS
    <3>2. NewId \in Ids /\ NewId \notin Mentioned
      BY <1>3, <2>3, NewIdIs
    <3>3. x \in Tensors /\ x.kind = "numeric" /\ x.id = NewId
      BY <3>1, <3>2 DEF Numeric, Tensors, Kinds, Contents
    <3>4. DOMAIN T = DOMAIN tensor \cup {o} /\ T[o] = x /\ \A b \in DOMAIN tensor : T[b] = tensor[b]
      BY <1>5, <3>1 DEF With
    <3>5. \A b \in DOMAIN T : T[b] \in Tensors /\ (T[b].kind = "numeric" => T[b].id \in Ids)
      BY <3>2, <3>3, <3>4 DEF IInv, Shape, Live
    <3>6. Value(g.obj) = passed[n] /\ Value(g.obj) \in Contents
      <4>1. /\ g.obj \in DOMAIN tensor /\ tensor[g.obj] \in Tensors
            /\ tensor[g.obj].kind = "string" \/ tensor[g.obj].id \in Ids
        BY <1>5, <2>3 DEF IInv, Live, Shape, Tensors, Kinds
      <4> QED
        BY <1>5, <2>3, <4>1 DEF Value, ValueIn, IInv, Shape, Tensors
    <3>7. /\ M \in [Ids -> [kind : Kinds, val : Contents]] /\ M[NewId].val = passed[n]
          /\ \A i \in Ids \ {NewId} : M[i] = mem[i]
      <4>1. /\ Block("numeric", Value(g.obj)) \in [kind : Kinds, val : Contents]
            /\ Block("numeric", Value(g.obj)).val = passed[n]
        BY <3>6 DEF Block, Kinds
      <4> QED
        BY <3>1, <3>2, <4>1 DEF IInv, Shape
    <3>8. Collect(T, M)
      BY <1>3, <2>3, <3>1
    <3>9. Moves(T, M, {o}, {NewId})
      BY <1>5, <1>9, <2>1, <3>2, <3>3, <3>4, <3>5, <3>7, <3>8 DEF Moves
    <3>10. ASSUME o \in DOMAIN tensor'
           PROVE  ValueIn(x, mem') = passed[n]
      <4>1. tensor'[o] = x
        BY <3>4, <3>8, <3>10 DEF Collect
      <4>2. NewId \in Held'
        BY <3>2, <3>3, <3>10, <4>1, HeldIs, IdAssumption
      <4> QED
        BY <3>2, <3>3, <3>7, <3>8, <4>2 DEF Collect, ValueIn
    <3> QED
      BY <3>1, <3>8, <3>9, <3>10
  <2> QED
    BY <2>2, <2>3
<1>11. TensorShape' /\ Live' /\ Calm /\ \A b \in DOMAIN tensor' : b \in DOMAIN T /\ tensor'[b] = T[b]
  BY <1>10, Frame DEF IInv
<1>12. Same /\ T[o] = x
  <2>1. T[o] = x /\ \A b \in DOMAIN tensor : T[b] = tensor[b]
    BY <1>5, <1>10 DEF With
  <2> QED
    BY <1>11, <2>1 DEF Same
<1>13. Stands(map, tensor', mem', passed)
  <2>1. \A k \in DOMAIN map : map[k] \in DOMAIN tensor'
    BY <1>6, <1>8, <1>11, MapsLiveNext, PeersAre DEF Lives
  <2>2. ASSUME NEW k \in DOMAIN s.map
        PROVE  ValueIn(tensor'[map[k]], mem') = passed[k]
    <3>1. ValueIn(tensor[map[k]], mem) = passed[k]
      BY <1>1, <1>4, <1>7 DEF Running, Stands
    <3> QED
      BY <1>7, <1>11, <2>1, <3>1 DEF Calm
  <2>3. ValueIn(tensor'[o], mem') = passed[n]
    BY <1>7, <1>10, <1>11, <1>12, <2>1
  <2> QED
    BY <1>7, <2>2, <2>3 DEF Stands
<1>14. \A j, k \in DOMAIN map : map[j] = map[k] => j = k
  <2>1. \A j, k \in DOMAIN s.map : s.map[j] = s.map[k] => j = k
    BY <1>1, <1>4 DEF Running
  <2> QED
    BY <1>5, <1>7, <2>1
<1>15. Gives(inputs, tensor', mem', passed)
  BY <1>3, <1>4, <1>11, GivenKept DEF Running
<1>16. Running'
  <2>1. S.ids = Empty /\ DOMAIN S.ids = {} /\ S.at # "wait"
    BY <1>1, <1>3, <1>4, <1>6, EmptyIs DEF Running
  <2>2. IdsOf(S.ids, map, tensor') /\ Carries(S.ids, Held', mem', passed)
    BY <2>1 DEF IdsOf, Carries
  <2>3. DOMAIN map \subseteq DOMAIN passed /\ DOMAIN inputs = DOMAIN passed
    BY <1>1, <1>3, <1>4, <1>7 DEF Running
  <2>4. S.at = "serialize" => DOMAIN map = DOMAIN passed
    BY <1>6, <2>3
  <2>5. Waits' /\ Listens' /\ ~broken' /\ Silent("worker")' /\ Settled(wire'["main"], transit'["main"])
    BY <1>3, <1>4, <1>8 DEF Running, Waits, Listens, Silent
  <2>6. DOMAIN passed # {}
    BY <1>4 DEF Running
  <2> QED
    BY <1>3, <1>6, <1>8, <1>13, <1>14, <1>15, <2>1, <2>2, <2>3, <2>4, <2>5, <2>6 DEF Running
<1> QED
  BY <1>3, <1>8, <1>11, <1>16 DEF IInv, Shape, TensorShape, Stages
-----------------------------------------------------------------------------
LEMMA InitIs == Init => IInv
<1> SUFFICES ASSUME Init PROVE IInv
  OBVIOUS
<1>1. /\ \A p \in Peers : outgoing[p] = Quiet /\ incoming[p] = Deaf /\ wire[p] = <<>> /\ transit[p] = {}
      /\ tensor = Empty /\ user = {} /\ inputs = Empty /\ passed = Empty /\ calls = 0 /\ broken = FALSE
  BY DEF Init
<1>2. Shape
  <2>1. tensor \in [DOMAIN tensor -> Tensors] /\ DOMAIN tensor \subseteq Objs
    BY <1>1, EmptyIs, MapsToIs
  <2>2. Garbage \in [kind : Kinds, val : Contents]
    BY DEF Garbage, Block, Kinds, Contents
  <2>3. /\ mem \in [Ids -> [kind : Kinds, val : Contents]]
        /\ outgoing \in [Peers -> Sendings] /\ incoming \in [Peers -> Readings]
        /\ wire \in [Peers -> Seq(Messages)] /\ transit \in [Peers -> SUBSET Entries]
    BY <2>2, Blanks DEF Init
  <2>4. inputs \in MapsTo(Given) /\ passed \in MapsTo(Contents)
    BY <1>1, EmptyIs
  <2>5. user \subseteq Objs
    BY <1>1
  <2>6. calls \in 0 .. MaxCalls
    BY <1>1, CallsAssumption
  <2>7. broken \in BOOLEAN
    BY <1>1
  <2> QED
    BY <2>1, <2>3, <2>4, <2>5, <2>6, <2>7 DEF Shape
<1>3. Live
  <2>1. \A o : o \notin Alive
    BY <1>1, Blanks, EmptyIs, AliveIs
  <2> QED
    BY <1>1, <2>1, EmptyIs DEF Live
<1>4. Resting
  BY <1>1, PeersAre DEF Resting, Listens, Rests, Silent, Settled
<1> QED
  BY <1>2, <1>3, <1>4 DEF IInv, Stages

LEMMA StutterKeeps == IInv /\ UNCHANGED vars => IInv'
<1> SUFFICES ASSUME IInv, UNCHANGED vars PROVE IInv'
  OBVIOUS
<1>1. UNCHANGED <<tensor, mem, user, outgoing, wire, incoming, transit, inputs, passed, calls, broken>>
  BY DEF vars
<1>2. Alive' = Alive
  <2>1. \A o : o \in Alive' <=> o \in Alive
    BY <1>1, AliveIs
  <2> QED
    BY <2>1
<1>3. Held' = Held
  <2>1. \A i : i \in Held' <=> i \in Held
    BY <1>1, HeldIs
  <2> QED
    BY <2>1
<1>4. Shape' /\ Live'
  BY <1>1, <1>2 DEF IInv, Shape, Live
<1>5. /\ Listens' = Listens /\ Rests' = Rests /\ Waits' = Waits
      /\ \A p \in Peers : Silent(p)' = Silent(p)
      /\ \A m : Sent(m)' = Sent(m) /\ Answered(m)' = Answered(m)
  BY <1>1, <1>3 DEF Listens, Rests, Waits, Silent, Sent, Answered
<1>6. Stages'
  BY <1>1, <1>3, <1>5, PeersAre DEF IInv, Stages, Resting, Asking, Asked, Loading, Running, Replied, Taking, Stuck
<1> QED
  BY <1>4, <1>6 DEF IInv

LEMMA NextKeeps == IInv /\ Next => IInv'
<1> SUFFICES ASSUME IInv, Next PROVE IInv'
  OBVIOUS
<1>1. CASE \E v \in Values : AllocateNumeric(v) \/ AllocateString(v)
  BY <1>1, AllocateNumericKeeps, AllocateStringKeeps
<1>2. CASE \E o \in user : Drop(o) \/ \E v \in Values : Write(o, v)
  BY <1>2, DropKeeps, WriteKeeps
<1>3. CASE \E map \in MapsTo(user) : Infer(map)
  BY <1>3, InferKeeps
<1>4. CASE \E p \in Peers : Post(p) \/ ReadDone(p) \/ ReadTensors(p) \/ OpenPayload(p)
  BY <1>4, PostKeeps, ReadDoneKeeps, ReadTensorsKeeps, OpenPayloadKeeps
<1>5. CASE \E p \in Peers : \E n \in Names : Serialize(p, n) \/ LoadTensor(p, n) \/ CopyStrings(p, n)
  BY <1>5, SerializeKeeps, LoadTensorKeeps, CopyStringsKeeps
<1>6. CASE WrapInputs \/ Return
  BY <1>6, WrapInputsKeeps, ReturnKeeps
<1>7. CASE \E n \in Names : WrapOutput(n)
  BY <1>7, WrapOutputKeeps
<1> QED
  BY <1>1, <1>2, <1>3, <1>4, <1>5, <1>6, <1>7 DEF Next

(***************************************************************************)
(* The stages are the ones a call passes through (proxy: serialize, send,  *)
(* receive; worker: load, infer, reply), and in each of them every block   *)
(* that is held contains the value that was passed for its name.           *)
(***************************************************************************)
THEOREM StagesHold == Spec => []IInv
<1>1. IInv /\ [Next]_vars => IInv'
  BY NextKeeps, StutterKeeps
<1> QED
  BY InitIs, <1>1, PTL DEF Spec
-----------------------------------------------------------------------------
(***************************************************************************)
(* Every variable keeps its type, whatever the processes do.               *)
(***************************************************************************)
THEOREM TypeCorrect == Spec => []TypeOK
<1>1. ASSUME NEW S, NEW f \in MapsTo(S)
      PROVE  IsMap(f, S)
  BY MapsToIs DEF IsMap
<1>2. \A e \in Entries : IsEntry(e)
  BY DEF Entries, IsEntry
<1>3. \A m \in Messages : IsMessage(m)
  BY <1>1, <1>2 DEF Messages, IsMessage
<1>4. ASSUME Shape
      PROVE  TypeOK
  <2>1. DOMAIN tensor \subseteq Objs /\ \A o \in DOMAIN tensor : tensor[o] \in Tensors
    BY <1>4 DEF Shape
  <2>2. ASSUME NEW p \in Peers
        PROVE  /\ outgoing[p].at \in {"idle", "wrap", "serialize", "wait"}
               /\ IsMap(outgoing[p].map, Objs) /\ IsMap(outgoing[p].ids, Ids)
               /\ \A k \in DOMAIN wire[p] : IsMessage(wire[p][k])
               /\ incoming[p].at \in {"idle", "payload", "load"}
               /\ IsMessage(incoming[p].msg) /\ IsMap(incoming[p].got, Objs)
               /\ incoming[p].copying \subseteq Names
               /\ \A e \in transit[p] : IsEntry(e)
    <3>1. outgoing[p].at \in {"idle", "wrap", "serialize", "wait"} /\ incoming[p].at \in {"idle", "payload", "load"}
      BY <1>4, Parts DEF Sendings, Readings
    <3>2. \A k \in DOMAIN wire[p] : wire[p][k] \in Messages
      BY <1>4, Parts
    <3> QED
      BY <1>1, <1>2, <1>3, <1>4, <3>1, <3>2, Parts
  <2>3. IsMap(inputs, Given) /\ IsMap(passed, Contents)
    BY <1>1, <1>4 DEF Shape
  <2> QED
    BY <1>4, <2>1, <2>2, <2>3 DEF TypeOK, Shape, Given
<1>5. IInv => TypeOK
  BY <1>4 DEF IInv
<1> QED
  BY <1>5, StagesHold, PTL
-----------------------------------------------------------------------------
\* The ids of a message are those of tensors that the sender keeps.
LEMMA SentHeld ==
  ASSUME IInv, NEW m \in Messages, Sent(m), Once(outgoing["main"].map, tensor)
  PROVE  m.entry.blocks \subseteq Held /\ \A n \in DOMAIN m.ids : m.ids[n] \in Held
<1>1. m.entry.blocks \subseteq Held
  BY HeldIs, PeersAre DEF Sent
<1>2. ASSUME NEW n \in DOMAIN m.ids
      PROVE  m.ids[n] \in Held
  <2>1. m.ids[n] \in Ids
    BY <1>2, MapsToIs DEF Messages
  <2>2. outgoing["main"].map[n] \in DOMAIN tensor
    BY <1>2, MapsLive, PeersAre DEF Lives, Sent, Waits
  <2>3. m.ids[n] = tensor[outgoing["main"].map[n]].id
    BY <1>2 DEF Sent, IdsOf
  <2> QED
    BY <2>1, <2>2, <2>3, HeldIs, IdAssumption
<1> QED
  BY <1>1, <1>2

LEMMA AnsweredHeld ==
  ASSUME IInv, NEW m \in Messages, Answered(m)
  PROVE  m.entry.blocks \subseteq Held /\ \A n \in DOMAIN m.ids : m.ids[n] \in Held
<1>1. m.entry \in transit["worker"]
  BY DEF Answered
<1>2. m.entry.blocks \subseteq Held
  BY <1>1, HeldIs, PeersAre
<1>3. ASSUME NEW n \in DOMAIN m.ids
      PROVE  m.ids[n] \in Held
  <2>1. m.ids[n] \in Ids
    BY <1>3, MapsToIs DEF Messages
  <2>2. PICK o \in m.entry.objs : m.ids[n] = tensor[o].id
    BY <1>3 DEF Answered, Backed
  <2>3. o \in DOMAIN tensor
    BY <1>1, AliveIs, PeersAre DEF IInv, Live
  <2> QED
    BY <2>1, <2>2, <2>3, HeldIs, IdAssumption
<1> QED
  BY <1>2, <1>3

LEMMA UnreadIn ==
  ASSUME NEW p \in Peers,
         \A k \in DOMAIN wire[p] : wire[p][k].type = "TENSORS" =>
           /\ wire[p][k].entry.blocks \subseteq Held
           /\ \A n \in DOMAIN wire[p][k].ids : wire[p][k].ids[n] \in Held,
         incoming[p] = Deaf \/ /\ incoming[p].msg.entry.blocks \subseteq Held
                               /\ \A n \in DOMAIN incoming[p].msg.ids : incoming[p].msg.ids[n] \in Held
  PROVE  Unread(p) \subseteq Held
<1> SUFFICES ASSUME NEW i \in Unread(p) PROVE i \in Held
  OBVIOUS
<1>1. CASE \E k \in DOMAIN wire[p] : /\ wire[p][k].type = "TENSORS"
                                     /\ i \in Range(wire[p][k].ids) \cup wire[p][k].entry.blocks
  BY <1>1 DEF Range
<1>2. CASE incoming[p].at = "payload" /\ i \in incoming[p].msg.entry.blocks
  BY <1>2, Blanks
<1>3. CASE \E n \in DOMAIN incoming[p].msg.ids : i = incoming[p].msg.ids[n]
  BY <1>3, Blanks, EmptyIs
<1>4. \A k : k \in Range(wire[p]) => \E j \in DOMAIN wire[p] : k = wire[p][j]
  BY DEF Range
<1> QED
  BY <1>1, <1>2, <1>3, <1>4 DEF Unread

LEMMA QuietWires ==
  ASSUME NEW p \in Peers, NEW m
  PROVE  /\ Settled(wire[p], transit[p]) => \A k \in DOMAIN wire[p] : wire[p][k].type # "TENSORS"
         /\ Bears(wire[p], transit[p], m)
              => \A k \in DOMAIN wire[p] : wire[p][k].type = "TENSORS" => wire[p][k] = m
<1>1. DOMAIN <<>> = {}
  OBVIOUS
<1>2. \A d : DOMAIN <<d>> = {1} /\ <<d>>[1] = d
  OBVIOUS
<1>3. \A d : DOMAIN <<d, m>> = {1, 2} /\ <<d, m>>[1] = d /\ <<d, m>>[2] = m
  OBVIOUS
<1>4. \A e : Done(e).type # "TENSORS"
  BY DEF Done
<1>5. ASSUME Settled(wire[p], transit[p]), NEW k \in DOMAIN wire[p]
      PROVE  wire[p][k].type # "TENSORS"
  BY <1>1, <1>2, <1>4, <1>5 DEF Settled
<1>6. ASSUME Bears(wire[p], transit[p], m), NEW k \in DOMAIN wire[p], wire[p][k].type = "TENSORS"
      PROVE  wire[p][k] = m
  BY <1>2, <1>3, <1>4, <1>6 DEF Bears
<1> QED
  BY <1>5, <1>6

\* In every stage, the messages that are not read yet can be loaded.
LEMMA StagesLoad == IInv => TransitIsLoadable
<1> SUFFICES ASSUME IInv, AskedOnce
             PROVE  Unread("main") \subseteq Held /\ Unread("worker") \subseteq Held /\ ~broken
  BY PeersAre DEF TransitIsLoadable
<1>1. Once(outgoing["main"].map, tensor)
  BY DEF AskedOnce, Once
<1>2. DOMAIN <<>> = {}
  OBVIOUS
<1>3. CASE Resting \/ Asking
  <2>1. /\ Listens /\ ~broken /\ wire["main"] = <<>> /\ Settled(wire["worker"], transit["worker"])
    BY <1>3 DEF Resting, Asking, Silent
  <2> QED
    BY <1>2, <2>1, QuietWires, UnreadIn, PeersAre DEF Listens
<1>4. CASE \E m \in Messages : Asked(m)
  <2>1. PICK m \in Messages : Asked(m)
    BY <1>4
  <2>2. /\ Listens /\ ~broken /\ wire["main"] = <<>> /\ Bears(wire["worker"], transit["worker"], m)
        /\ m.entry.blocks \subseteq Held /\ \A n \in DOMAIN m.ids : m.ids[n] \in Held
    BY <1>1, <2>1, SentHeld DEF Asked, Sent
  <2> QED
    BY <1>2, <2>2, QuietWires, UnreadIn, PeersAre DEF Listens
<1>5. CASE Loading
  <2>1. PICK m \in Messages : m = incoming["worker"].msg /\ Sent(m)
    BY <1>5, Parts, PeersAre DEF Loading, IInv
  <2>2. /\ incoming["main"] = Deaf /\ ~broken /\ wire["main"] = <<>> /\ wire["worker"] = <<>>
        /\ m.entry.blocks \subseteq Held /\ \A n \in DOMAIN m.ids : m.ids[n] \in Held
    BY <1>1, <1>5, <2>1, SentHeld DEF Loading, Sent, Silent
  <2> QED
    BY <1>2, <2>1, <2>2, UnreadIn, PeersAre
<1>6. CASE Running
  <2>1. /\ Listens /\ ~broken /\ wire["worker"] = <<>> /\ Settled(wire["main"], transit["main"])
    BY <1>6 DEF Running, Silent
  <2> QED
    BY <1>2, <2>1, QuietWires, UnreadIn, PeersAre DEF Listens
<1>7. CASE \E m \in Messages : Replied(m)
  <2>1. PICK m \in Messages : Replied(m)
    BY <1>7
  <2>2. /\ Listens /\ ~broken /\ wire["worker"] = <<>> /\ Bears(wire["main"], transit["main"], m)
        /\ m.entry.blocks \subseteq Held /\ \A n \in DOMAIN m.ids : m.ids[n] \in Held
    BY <2>1, AnsweredHeld DEF Replied, Answered
  <2> QED
    BY <1>2, <2>2, QuietWires, UnreadIn, PeersAre DEF Listens
<1>8. CASE Taking
  <2>1. PICK m \in Messages : m = incoming["main"].msg /\ Answered(m)
    BY <1>8, Parts, PeersAre DEF Taking, IInv
  <2>2. /\ incoming["worker"] = Deaf /\ ~broken /\ wire["main"] = <<>> /\ wire["worker"] = <<>>
        /\ m.entry.blocks \subseteq Held /\ \A n \in DOMAIN m.ids : m.ids[n] \in Held
    BY <1>8, <2>1, AnsweredHeld DEF Taking, Answered, Silent
  <2> QED
    BY <1>2, <2>1, <2>2, UnreadIn, PeersAre
<1> QED
  BY <1>1, <1>3, <1>4, <1>5, <1>6, <1>7, <1>8 DEF IInv, Stages, Stuck

(***************************************************************************)
(* No load fails and no id on its way has lost its block (shm_tensor.hh,   *)
(* in_transit_), as long as each string tensor is asked for its id once.   *)
(***************************************************************************)
THEOREM TransitLoadable == Spec => []TransitIsLoadable
BY StagesHold, StagesLoad, PTL

\* What was taken of the answer is what was passed.
LEMMA StagesEcho == IInv => EchoIsExact
<1> SUFFICES ASSUME IInv, Read("main")
             PROVE  [n \in DOMAIN incoming["main"].got |-> Value(incoming["main"].got[n])] = passed
  BY DEF EchoIsExact
<1>1. Taking
  BY StageOf DEF IInv, Read
<1>2. DOMAIN incoming["main"].got = DOMAIN passed
  BY <1>1 DEF Taking, Answered, Read
<1>3. passed \in [DOMAIN passed -> Contents]
  BY MapsToIs DEF IInv, Shape
<1>4. \A n \in DOMAIN passed : Value(incoming["main"].got[n]) = passed[n]
  BY <1>1, <1>2 DEF Taking, Got, Value, ValueIn
<1> QED
  BY <1>2, <1>3, <1>4

(***************************************************************************)
(* What a model that gives back its inputs gives back is what was passed:  *)
(* no block is reused under a reader, and no earlier id is sent again.     *)
(***************************************************************************)
THEOREM EchoExact == Spec => []EchoIsExact
BY StagesHold, StagesEcho, PTL
=============================================================================
