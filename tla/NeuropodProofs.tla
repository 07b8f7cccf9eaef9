--------------------------- MODULE NeuropodProofs ---------------------------
(***************************************************************************)
(* Theorems about Neuropod, for any number of threads, models, libraries   *)
(* and custom ops, any defaults and overrides, and any bounds: the types,  *)
(* what a failed load leaves behind, and the backends that are found; then *)
(* the custom ops: no process opens one twice, and a TensorFlow graph is   *)
(* parsed with all of its ops open.                                        *)
(***************************************************************************)
EXTENDS Neuropod, TLAPS

\* Where a Neuropod can be.
States == Waiting \cup Choosing \cup {"construct"} \cup Loading

\* overrides and todo are of any type, except while ops are loaded.
RecOK(r) == r \in [at : States, model : Models, ope : BOOLEAN, eager : BOOLEAN,
                   overrides : {r.overrides}, todo : {r.todo}, paths : Seq(Ops),
                   lib : Libs \cup {NoLib}, loads : 0 .. MaxLoads, dirs : Nat,
                   created : BOOLEAN, listed : Nat]

PodOK(r) == /\ RecOK(r)
            /\ r.at = "insert" => r.lib \in Libs
            /\ r.at \in Loading => r.todo \in Seq(Ops)
            /\ r.at \in {"locked", "opened"} => r.todo # <<>>

\* What a process shares.
ProcSet == [registered : [Types -> Libs \cup {NoLib}], mapped : SUBSET Libs, hashes : SUBSET Ops,
            opens : [Ops -> Nat], lock : Threads \cup {NoThread}]

Shape == /\ process \in [Procs -> ProcSet]
         /\ pod = [t \in Threads |-> pod[t]]
         /\ \A t \in Threads : PodOK(pod[t])
         /\ stray \in Nat /\ retried \in BOOLEAN /\ news \in 0 .. MaxNew /\ down \in BOOLEAN

\* The initial values have their types.
LEMMA NoPodOK == PodOK(NoPod)
  BY ModelAssumption, BoundAssumption, LibAssumption DEF NoPod, PodOK, RecOK, States, Waiting, Loading

\* So have those of a new process.
LEMMA NewProcessOK == NewProcess \in ProcSet
  BY DEF NewProcess, ProcSet

\* What the steps write into a process.
LEMMA ProcessFields ==
  ASSUME NEW q \in ProcSet
  PROVE  /\ \A u \in Threads \cup {NoThread} : [q EXCEPT !.lock = u] \in ProcSet
         /\ \A o \in Ops : /\ [q EXCEPT !.hashes = @ \cup {o}] \in ProcSet
                          /\ [q EXCEPT !.hashes = @ \cup {o}, !.lock = NoThread] \in ProcSet
                          /\ [q EXCEPT !.opens[o] = @ + 1] \in ProcSet
         /\ \A l \in Libs : /\ [q EXCEPT !.mapped = @ \cup {l}] \in ProcSet
                           /\ \A y \in Types : [q EXCEPT !.registered[y] = l] \in ProcSet
<1>1. ASSUME NEW o \in Ops
      PROVE  [q EXCEPT !.opens[o] = @ + 1] \in ProcSet
  <2>1. [q.opens EXCEPT ![o] = @ + 1] \in [Ops -> Nat]
    BY DEF ProcSet
  <2> QED
    BY <2>1 DEF ProcSet
<1>2. ASSUME NEW l \in Libs, NEW y \in Types
      PROVE  [q EXCEPT !.registered[y] = l] \in ProcSet
  <2>1. [q.registered EXCEPT ![y] = l] \in [Types -> Libs \cup {NoLib}]
    BY DEF ProcSet
  <2> QED
    BY <2>1 DEF ProcSet
<1>3. ASSUME NEW o \in Ops
      PROVE  /\ [q EXCEPT !.hashes = @ \cup {o}] \in ProcSet
             /\ [q EXCEPT !.hashes = @ \cup {o}, !.lock = NoThread] \in ProcSet
  BY DEF ProcSet
<1>4. ASSUME NEW l \in Libs PROVE [q EXCEPT !.mapped = @ \cup {l}] \in ProcSet
  BY DEF ProcSet
<1>5. ASSUME NEW u \in Threads \cup {NoThread} PROVE [q EXCEPT !.lock = u] \in ProcSet
  BY DEF ProcSet
<1> QED
  BY <1>1, <1>2, <1>3, <1>4, <1>5

\* A model is loaded in one of the processes.
LEMMA ProcIsProc == ASSUME NEW t \in Threads PROVE Proc(t) \in Procs
  BY DEF Proc, Procs

\* An exception keeps the types.
LEMMA UnlockedOK ==
  ASSUME Shape, NEW t \in Threads
  PROVE  /\ Unlocked(t) \in [Procs -> ProcSet]
         /\ \A p \in Procs \ {Proc(t)} : Unlocked(t)[p] = process[p]
         /\ \A p \in Procs : /\ Unlocked(t)[p].registered = process[p].registered
                             /\ Unlocked(t)[p].hashes = process[p].hashes
                             /\ Unlocked(t)[p].opens = process[p].opens
                             /\ Unlocked(t)[p].mapped = process[p].mapped
  BY ProcIsProc DEF Shape, Unlocked, ProcSet

\* The end of a Neuropod keeps the types and the rest of the state.
LEMMA EndOK ==
  ASSUME Shape, NEW t \in Threads, End(t)
  PROVE  /\ process' \in [Procs -> ProcSet]
         /\ \A p \in Procs \ {Proc(t)} : process'[p] = process[p]
         /\ ~pod[t].ope => \A p \in Procs : /\ process'[p].registered = process[p].registered
                             /\ process'[p].hashes = process[p].hashes
                             /\ process'[p].opens = process[p].opens
         /\ pod' = [u \in Threads |-> pod'[u]]
         /\ pod'[t] = NoPod
         /\ \A u \in Threads \ {t} : pod'[u] = pod[u]
         /\ stray' \in Nat
<1>1. pod[t].ope => Proc(t) = t
  BY DEF Proc
<1>2. pod[t].ope => process' = [process EXCEPT ![t] = NewProcess]
  BY DEF End
<1>3. ~pod[t].ope => process' = Unlocked(t)
  BY DEF End
<1>4. pod[t].dirs \in Nat /\ pod[t].ope \in BOOLEAN
  BY DEF Shape, PodOK, RecOK
<1>5. process' \in [Procs -> ProcSet] /\ \A p \in Procs \ {Proc(t)} : process'[p] = process[p]
  BY <1>1, <1>2, <1>3, <1>4, NewProcessOK, UnlockedOK DEF Shape
<1>6. stray' \in Nat
  BY <1>4 DEF Shape, End, Discard
<1> QED
  BY <1>3, <1>4, <1>5, <1>6, UnlockedOK DEF Shape, End

\* So does an error.
LEMMA FailsOK ==
  ASSUME Shape, NEW t \in Threads, Fails(t)
  PROVE  /\ process' \in [Procs -> ProcSet]
         /\ \A p \in Procs \ {Proc(t)} : process'[p] = process[p]
         /\ pod' = [u \in Threads |-> pod'[u]]
         /\ PodOK(pod'[t])
         /\ \A u \in Threads \ {t} : pod'[u] = pod[u]
         /\ stray' \in Nat
<1>1. CASE ~Survives(t)
  BY <1>1, EndOK, NoPodOK DEF Fails
<1>2. CASE Survives(t) /\ pod[t].ope
  <2>1. pod'[t] = [NoPod EXCEPT !.at = "built", !.ope = TRUE,
                                          !.model = pod[t].model, !.loads = pod[t].loads,
                                          !.overrides = pod[t].overrides]
    BY <1>2 DEF Fails, Shape
  <2>2. PodOK(pod'[t])
    BY <2>1, NoPodOK DEF Shape, PodOK, RecOK, States, Waiting, Loading
  <2>3. stray' \in Nat
    BY <1>2 DEF Fails, Discard, Shape, PodOK, RecOK
  <2> QED
    BY <2>2, <2>3, <1>2, UnlockedOK DEF Fails, Shape
<1>3. CASE Survives(t) /\ ~pod[t].ope
  <2>1. pod'[t] = [pod[t] EXCEPT !.at = "built"]
    BY <1>3 DEF Fails, Shape
  <2>2. PodOK(pod'[t])
    BY <2>1 DEF Shape, PodOK, RecOK, States, Waiting, Loading
  <2> QED
    BY <2>2, <1>3, UnlockedOK DEF Fails, Shape
<1> QED
  BY <1>1, <1>2, <1>3

\* What a step of t may change.
Only(t) == /\ \A u \in Threads \ {t} : pod'[u] = pod[u]
           /\ \A p \in Procs \ {Proc(t)} : process'[p] = process[p]

Doing(t) == New(t) \/ LoadModel(t) \/ Destroy(t) \/ Step(t)

\* A lookup sees a library or nothing.
LEMMA SeenOK ==
  ASSUME Shape, NEW t \in Threads
  PROVE  Seen(t) \subseteq Libs \cup {NoLib}
<1>1. Here(t).registered \in [Types -> Libs \cup {NoLib}]
  BY ProcIsProc DEF Shape, Here, ProcSet
<1>2. Platform(t) \in Types
  BY ModelAssumption DEF Shape, PodOK, RecOK, Platform
<1> QED
  BY <1>1, <1>2 DEF Seen, Inserted, Inserting, Shape, PodOK, RecOK

\* What the steps write into a pod.
LEMMA PodFields ==
  ASSUME NEW r, PodOK(r)
  PROVE  /\ r.at \in States /\ r.model \in Models /\ r.model.ops \in Seq(Ops)
         /\ r.paths \in Seq(Ops) /\ r.lib \in Libs \cup {NoLib}
         /\ r.loads \in 0 .. MaxLoads /\ r.dirs \in Nat /\ r.listed \in Nat
         /\ {r.ope, r.eager, r.created} \subseteq BOOLEAN
  BY ModelAssumption DEF PodOK, RecOK

\* The updates of a pod that keep its type, one for each of the values that change.
LEMMA PodUpdates ==
  ASSUME NEW r, PodOK(r), NEW s, NEW q \in Seq(Ops), NEW p \in Seq(Ops), NEW n \in Nat
  PROVE  /\ r.at = "ops" /\ s = [r EXCEPT !.todo = q] => PodOK(s)
         /\ r.at = "ops" /\ s = [r EXCEPT !.paths = p] => PodOK(s)
         /\ r.at = "ops" /\ s = [r EXCEPT !.todo = q, !.paths = p, !.dirs = n] => PodOK(s)
         /\ s = [r EXCEPT !.at = "ops", !.todo = q, !.paths = p] => PodOK(s)
         /\ r.at = "ops" /\ r.todo # <<>> /\ s = [r EXCEPT !.at = "locked", !.dirs = n] => PodOK(s)
         /\ r.at \in Loading /\ s = [r EXCEPT !.at = "python", !.dirs = n] => PodOK(s)
         /\ s = [r EXCEPT !.at = "ready", !.listed = n] => PodOK(s)
         /\ r.at \in Loading /\ s = [r EXCEPT !.at = "initializing", !.listed = n] => PodOK(s)
         /\ r.at \in Loading /\ s = [r EXCEPT !.at = "mapping", !.created = TRUE] => PodOK(s)
         /\ n <= MaxLoads /\ s = [r EXCEPT !.loads = n] => PodOK(s)
<1> USE DEF PodOK, RecOK, States, Waiting, Choosing, Loading
<1>1. r.at = "ops" /\ s = [r EXCEPT !.todo = q] => PodOK(s)
  OBVIOUS
<1>2. r.at = "ops" /\ s = [r EXCEPT !.paths = p] => PodOK(s)
  OBVIOUS
<1>3. r.at = "ops" /\ s = [r EXCEPT !.todo = q, !.paths = p, !.dirs = n] => PodOK(s)
  OBVIOUS
<1>4. s = [r EXCEPT !.at = "ops", !.todo = q, !.paths = p] => PodOK(s)
  OBVIOUS
<1>5. r.at = "ops" /\ r.todo # <<>> /\ s = [r EXCEPT !.at = "locked", !.dirs = n] => PodOK(s)
  OBVIOUS
<1>6. r.at \in Loading /\ s = [r EXCEPT !.at = "python", !.dirs = n] => PodOK(s)
  OBVIOUS
<1>7. s = [r EXCEPT !.at = "ready", !.listed = n] => PodOK(s)
  OBVIOUS
<1>8. r.at \in Loading /\ s = [r EXCEPT !.at = "initializing", !.listed = n] => PodOK(s)
  OBVIOUS
<1>9. r.at \in Loading /\ s = [r EXCEPT !.at = "mapping", !.created = TRUE] => PodOK(s)
  OBVIOUS
<1>10. n <= MaxLoads /\ s = [r EXCEPT !.loads = n] => PodOK(s)
  BY BoundAssumption
<1> QED
  BY <1>1, <1>2, <1>3, <1>4, <1>5, <1>6, <1>7, <1>8, <1>9, <1>10

\* A new Neuropod has its type.
LEMMA NewPodOK ==
  ASSUME NEW r, PodOK(r), NEW a \in {"built", "find"}, NEW m \in Models, NEW o \in BOOLEAN,
         NEW e \in BOOLEAN, NEW v \in Overrides
  PROVE  PodOK([r EXCEPT !.at = a, !.model = m, !.ope = o, !.eager = e, !.overrides = v])
  BY DEF PodOK, RecOK, States, Waiting, Choosing, Loading

\* So has one that starts to load.
LEMMA StartLoadOK ==
  ASSUME NEW t \in Threads, PodOK(pod[t])
  PROVE  PodOK(StartLoad(t))
<1>1. pod[t].model.ops \in Seq(Ops) /\ <<>> \in Seq(Ops)
  BY PodFields
<1> QED
  BY <1>1, PodUpdates DEF StartLoad

\* Every step keeps the types, and changes one pod and what its process shares.
LEMMA ShapeStep ==
  ASSUME Shape, NEW t \in Threads, Doing(t)
  PROVE  Shape' /\ Only(t)
<1> USE DEF Only
<1>0. /\ PodOK(pod[t]) /\ Proc(t) \in Procs
      /\ pod = [u \in Threads |-> pod[u]]
      /\ process \in [Procs -> ProcSet]
  BY ProcIsProc DEF Shape
<1>00. process[Proc(t)] \in ProcSet
  BY <1>0
<1>01. /\ pod[t].dirs \in Nat /\ pod[t].listed + 1 \in Nat /\ pod[t].dirs + 1 \in Nat
       /\ <<>> \in Seq(Ops)
  BY <1>0, PodFields
<1>1. CASE New(t)
  <2>1. PICK m \in Models, ope \in BOOLEAN, eager \in BOOLEAN, o \in Overrides :
          pod' = [pod EXCEPT ![t] = [NoPod EXCEPT !.at = IF ope /\ ~eager THEN "built" ELSE "find",
                                       !.model = m, !.ope = ope, !.eager = eager, !.overrides = o]]
    BY <1>1 DEF New
  <2>2. pod'[t] = [NoPod EXCEPT !.at = IF ope /\ ~eager THEN "built" ELSE "find",
                                !.model = m, !.ope = ope, !.eager = eager, !.overrides = o]
    BY <2>1, <1>0
  <2>3. PodOK(pod'[t])
    <3>1. PICK a \in {"built", "find"} :
            pod'[t] = [NoPod EXCEPT !.at = a, !.model = m, !.ope = ope, !.eager = eager, !.overrides = o]
      BY <2>2
    <3>2. PodOK([NoPod EXCEPT !.at = a, !.model = m, !.ope = ope, !.eager = eager, !.overrides = o])
      BY NoPodOK, NewPodOK
    <3> QED
      BY <3>1, <3>2
  <2>4. news' \in 0 .. MaxNew
    BY <1>1, BoundAssumption DEF New, Shape
  <2> QED
    BY <1>0, <1>1, <2>1, <2>3, <2>4 DEF New, Shape
<1>2. CASE LoadModel(t)
  <2> DEFINE r == IF pod[t].ope THEN [pod[t] EXCEPT !.at = "find"] ELSE StartLoad(t)
  <2>1. PodOK(r) /\ r.loads = pod[t].loads
    <3>1. CASE pod[t].ope
      BY <1>0, <3>1 DEF PodOK, RecOK, States, Choosing, Loading
    <3>2. CASE ~pod[t].ope
      BY <1>0, <3>2, StartLoadOK DEF StartLoad, PodOK, RecOK
    <3> QED
      BY <3>1, <3>2
  <2>2. pod'[t] = [r EXCEPT !.loads = pod[t].loads + 1]
    BY <1>2, <1>0, <2>1 DEF LoadModel
  <2>3. PodOK(pod'[t])
    <3>1. pod[t].loads + 1 \in Nat /\ pod[t].loads + 1 <= MaxLoads
      BY <1>0, <1>2, BoundAssumption, PodFields DEF LoadModel
    <3> HIDE DEF r
    <3> QED
      BY <1>01, <2>1, <2>2, <3>1, PodUpdates
  <2> QED
    BY <1>0, <1>2, <2>3 DEF LoadModel, Shape, Rest
<1>3. CASE Destroy(t)
  BY <1>3, EndOK, NoPodOK DEF Destroy, Shape
<1>4. CASE Find(t)
  <2>1. PICK l \in Libs \cup {NoLib} :
          pod' = [pod EXCEPT ![t].at = IF Suits(t, l) THEN "construct" ELSE "check",
                             ![t].lib = IF Suits(t, l) THEN l ELSE NoLib]
    BY <1>4, SeenOK DEF Find
  <2>2. pod'[t] = [pod[t] EXCEPT !.at = IF Suits(t, l) THEN "construct" ELSE "check",
                                 !.lib = IF Suits(t, l) THEN l ELSE NoLib]
    BY <1>0, <2>1
  <2>3. PodOK(pod'[t])
    BY <2>2, <1>0 DEF PodOK, RecOK, States, Waiting, Loading, Choosing
  <2> QED
    BY <1>0, <1>4, <2>1, <2>3 DEF Find, Shape, Rest
<1>5. CASE Check(t)
  <2>1. CASE Fails(t)
    BY <2>1, <1>5, FailsOK DEF Check, Shape
  <2>2. CASE ~Fails(t)
    <3>1. pod' = [pod EXCEPT ![t].at = "open", ![t].todo = Candidates(t)] /\ UNCHANGED <<process, stray>>
      BY <2>2, <1>5 DEF Check
    <3>2. PodOK(pod'[t])
      BY <3>1, <1>0 DEF PodOK, RecOK, States, Waiting, Loading, Choosing
    <3> QED
      BY <1>0, <1>5, <3>1, <3>2 DEF Check, Shape
  <2> QED
    BY <2>1, <2>2
<1>6. CASE Open(t)
  <2>1. CASE Fails(t)
    BY <2>1, <1>6, FailsOK DEF Open, Shape
  <2>2. CASE ~Fails(t)
    <3>1. PICK path \in Libs :
            /\ pod' = [pod EXCEPT ![t].at = IF path \in Here(t).mapped THEN "refind" ELSE "insert",
                                  ![t].todo = <<>>, ![t].lib = path]
            /\ process' = [process EXCEPT ![Proc(t)].mapped = @ \cup {path}]
            /\ UNCHANGED stray
      BY <2>2, <1>6 DEF Open
    <3>2. PodOK(pod'[t])
      BY <3>1, <1>0 DEF PodOK, RecOK, States, Waiting, Loading, Choosing
    <3>3. process' \in [Procs -> ProcSet]
      BY <3>1, <1>0, <1>00, ProcessFields
    <3> QED
      BY <1>0, <1>6, <3>1, <3>2, <3>3 DEF Open, Shape
  <2> QED
    BY <2>1, <2>2
<1>7. CASE Insert(t)
  <2>1. CASE Fails(t)
    BY <2>1, <1>7, FailsOK DEF Insert, Shape
  <2>2. CASE ~Fails(t)
    <3>1. \/ /\ process' = [process EXCEPT ![Proc(t)].registered[LibType[pod[t].lib]] = pod[t].lib]
             /\ pod' = [pod EXCEPT ![t].at = "refind"]
             /\ UNCHANGED <<stray, down>>
          \/ /\ down' = TRUE
             /\ UNCHANGED <<process, pod, stray>>
      BY <2>2, <1>7 DEF Insert, Goto
    <3>2. PodOK(pod'[t])
      BY <3>1, <1>0 DEF PodOK, RecOK, States, Waiting, Loading, Choosing
    <3>3. LibType[pod[t].lib] \in Types /\ pod[t].lib \in Libs
      BY <1>0, <1>7, LibAssumption DEF Insert, At, PodOK, RecOK
    <3>4. [process[Proc(t)] EXCEPT !.registered[LibType[pod[t].lib]] = pod[t].lib] \in ProcSet
      BY <3>3, <1>00, ProcessFields
    <3>5. process' \in [Procs -> ProcSet]
      BY <3>1, <3>4, <1>0
    <3> QED
      BY <1>0, <1>7, <3>1, <3>2, <3>5 DEF Insert, Shape
  <2> QED
    BY <2>1, <2>2
<1>8. CASE Refind(t)
  <2>1. CASE Fails(t)
    BY <2>1, <1>8, FailsOK DEF Refind, Shape
  <2>2. CASE ~Fails(t)
    <3>1. PICK l \in Libs \cup {NoLib} : /\ pod' = [pod EXCEPT ![t].at = "construct", ![t].lib = l]
                                         /\ UNCHANGED <<process, stray>>
      BY <2>2, <1>8, SeenOK DEF Refind
    <3>2. PodOK(pod'[t])
      BY <3>1, <1>0 DEF PodOK, RecOK, States, Waiting, Loading, Choosing
    <3> QED
      BY <1>0, <1>8, <3>1, <3>2 DEF Refind, Shape
  <2> QED
    BY <2>1, <2>2
<1>9. CASE Construct(t)
  <2>1. pod'[t] = IF pod[t].eager \/ pod[t].ope THEN StartLoad(t) ELSE [pod[t] EXCEPT !.at = "built"]
    BY <1>9, <1>0 DEF Construct
  <2>2. PodOK([pod[t] EXCEPT !.at = "built"])
    BY <1>0 DEF PodOK, RecOK, States, Waiting, Loading, Choosing
  <2>3. PodOK(pod'[t])
    BY <1>0, <2>1, <2>2, StartLoadOK
  <2> QED
    BY <1>0, <1>9, <2>3 DEF Construct, Shape, Rest
<1>10. CASE LockOps(t)
  <2>1. pod[t].todo \in Seq(Ops) /\ pod[t].todo # <<>> /\ Tail(pod[t].todo) \in Seq(Ops) /\ pod[t].at = "ops"
    BY <1>0, <1>10 DEF LockOps, At, PodOK, RecOK, Loading
  <2>2. Unzipped(t) \in Nat
    BY <1>01 DEF Unzipped
  <2>3. CASE Op(t) \in Here(t).hashes
    <3>1. pod' = [pod EXCEPT ![t].todo = Tail(@)] /\ UNCHANGED <<process, Rest>>
      BY <2>3, <1>10 DEF LockOps
    <3>2. pod'[t] = [pod[t] EXCEPT !.todo = Tail(pod[t].todo)]
      BY <1>0, <3>1
    <3>3. PodOK(pod'[t])
      BY <1>0, <1>01, <2>1, <3>2, PodUpdates
    <3> QED
      BY <1>0, <3>1, <3>3 DEF Shape, Rest
  <2>4. CASE Op(t) \notin Here(t).hashes
    <3>1. /\ pod' = [pod EXCEPT ![t].at = "locked", ![t].dirs = Unzipped(t)]
          /\ process' = [process EXCEPT ![Proc(t)].lock = t]
          /\ UNCHANGED Rest
      BY <2>4, <1>10 DEF LockOps
    <3>2. pod'[t] = [pod[t] EXCEPT !.at = "locked", !.dirs = Unzipped(t)]
      BY <1>0, <3>1
    <3>3. PodOK(pod'[t])
      BY <1>0, <1>01, <2>1, <2>2, <3>2, PodUpdates
    <3>4. process' \in [Procs -> ProcSet]
      BY <1>0, <1>00, <3>1, ProcessFields
    <3> QED
      BY <1>0, <3>1, <3>3, <3>4 DEF Shape, Rest
  <2> QED
    BY <2>3, <2>4
<1>11. CASE OpenOp(t)
  <2>1. CASE Fails(t)
    BY <2>1, <1>11, FailsOK DEF OpenOp, Shape
  <2>2. CASE ~Fails(t)
    <3>1. /\ pod' = [pod EXCEPT ![t].at = "opened"]
          /\ process' = [process EXCEPT ![Proc(t)].opens[Op(t)] = @ + 1]
          /\ UNCHANGED stray
      BY <2>2, <1>11 DEF OpenOp, Goto
    <3>2. PodOK(pod'[t])
      BY <3>1, <1>0, <1>11 DEF OpenOp, At, PodOK, RecOK, States, Waiting, Loading, Choosing
    <3>3. Op(t) \in Ops
      BY <1>0, <1>11 DEF OpenOp, At, PodOK, RecOK, Loading, Op
    <3>4. process' \in [Procs -> ProcSet]
      BY <3>1, <3>3, <1>0, <1>00, ProcessFields
    <3> QED
      BY <1>0, <1>11, <3>1, <3>2, <3>4 DEF OpenOp, Shape
  <2> QED
    BY <2>1, <2>2
<1>12. CASE ListOpened(t)
  <2>1. pod[t].todo \in Seq(Ops) /\ pod[t].todo # <<>> /\ Op(t) \in Ops
    BY <1>0, <1>12 DEF ListOpened, At, PodOK, RecOK, Loading, Op
  <2>2. /\ pod' = [pod EXCEPT ![t].at = "ops", ![t].todo = Tail(@)]
        /\ process' = [process EXCEPT ![Proc(t)].hashes = @ \cup {Op(t)}, ![Proc(t)].lock = NoThread]
    BY <1>12 DEF ListOpened
  <2>3. pod'[t] = [pod[t] EXCEPT !.at = "ops", !.todo = Tail(@)]
    BY <1>0, <2>2
  <2>4. PodOK(pod'[t])
    <3>1. Tail(pod[t].todo) \in Seq(Ops)
      BY <2>1
    <3> QED
      BY <1>0, <2>3, <3>1 DEF PodOK, RecOK, States, Waiting, Loading, Choosing
  <2>5. process' \in [Procs -> ProcSet]
    BY <1>0, <1>00, <2>1, <2>2, ProcessFields
  <2> QED
    BY <1>0, <1>12, <2>2, <2>4, <2>5 DEF ListOpened, Shape, Rest
<1>13. CASE ListOp(t)
  <2>1. pod[t].todo \in Seq(Ops) /\ pod[t].todo # <<>> /\ Op(t) \in Ops
    BY <1>0, <1>13 DEF ListOp, At, PodOK, RecOK, Loading, Op
  <2>2. Unzipped(t) \in Nat
    BY <1>0 DEF Unzipped, PodOK, RecOK
  <2>3. PodOK(pod'[t]) /\ \A u \in Threads \ {t} : pod'[u] = pod[u]
    <3>0. Tail(pod[t].todo) \in Seq(Ops) /\ Append(pod[t].paths, Op(t)) \in Seq(Ops) /\ pod[t].at = "ops"
      BY <1>0, <1>13, <2>1, PodFields DEF ListOp, At
    <3>1. CASE Op(t) \in Here(t).hashes
      <4>1. pod' = [pod EXCEPT ![t].todo = Tail(@)]
        BY <3>1, <1>13 DEF ListOp
      <4>2. pod'[t] = [pod[t] EXCEPT !.todo = Tail(pod[t].todo)]
        BY <1>0, <4>1
      <4> QED
        BY <1>0, <1>01, <3>0, <4>1, <4>2, PodUpdates
    <3>2. CASE Op(t) \notin Here(t).hashes
      <4>1. pod' = [pod EXCEPT ![t].todo = Tail(@), ![t].paths = Append(@, Op(t)), ![t].dirs = Unzipped(t)]
        BY <3>2, <1>13 DEF ListOp
      <4>2. pod'[t] = [pod[t] EXCEPT !.todo = Tail(pod[t].todo), !.paths = Append(pod[t].paths, Op(t)),
                                     !.dirs = Unzipped(t)]
        BY <1>0, <4>1
      <4> QED
        BY <1>0, <2>2, <3>0, <4>1, <4>2, PodUpdates
    <3> QED
      BY <3>1, <3>2
  <2>4. pod' = [u \in Threads |-> pod'[u]]
    BY <1>0, <1>13 DEF ListOp
  <2>5. process' \in [Procs -> ProcSet]
    BY <1>0, <1>00, <1>13, <2>1, ProcessFields DEF ListOp
  <2> QED
    BY <1>0, <1>13, <2>3, <2>4, <2>5 DEF ListOp, Shape, Rest
<1>14. CASE OpenListed(t)
  <2>1. CASE Fails(t)
    BY <2>1, <1>14, FailsOK DEF OpenListed, Shape
  <2>2. CASE ~Fails(t)
    <3>1. /\ pod' = [pod EXCEPT ![t].paths = Tail(@)]
          /\ process' = [process EXCEPT ![Proc(t)].opens[Head(pod[t].paths)] = @ + 1]
          /\ UNCHANGED stray
      BY <2>2, <1>14 DEF OpenListed
    <3>2. pod'[t] = [pod[t] EXCEPT !.paths = Tail(@)]
      BY <1>0, <3>1
    <3>3. pod[t].paths \in Seq(Ops) /\ pod[t].paths # <<>> /\ Head(pod[t].paths) \in Ops
      BY <1>0, <1>14 DEF OpenListed, PodOK, RecOK
    <3>4. PodOK(pod'[t])
      <4>1. Tail(pod[t].paths) \in Seq(Ops) /\ pod[t].at = "ops"
        BY <3>3, <1>14 DEF OpenListed, At
      <4> QED
        BY <1>0, <1>01, <3>2, <4>1, PodUpdates
    <3>5. process' \in [Procs -> ProcSet]
      BY <3>1, <3>3, <1>0, <1>00, ProcessFields
    <3> QED
      BY <1>0, <1>14, <3>1, <3>4, <3>5 DEF OpenListed, Shape
  <2> QED
    BY <2>1, <2>2
<1>15. CASE LoadGraph(t)
  <2>1. CASE Fails(t)
    BY <2>1, <1>15, FailsOK DEF LoadGraph, Shape
  <2>2. CASE ~Fails(t)
    <3>1. /\ \/ pod' = [pod EXCEPT ![t] = [@ EXCEPT !.at = "mapping", !.created = TRUE]]
             \/ pod' = [pod EXCEPT ![t] = [@ EXCEPT !.at = "ready", !.listed = pod[t].listed + 1]]
          /\ UNCHANGED <<process, stray>>
      <4>1. CASE Platform(t) = "tensorflow"
        BY <2>2, <1>15, <4>1 DEF LoadGraph
      <4>2. CASE Platform(t) # "tensorflow"
        BY <2>2, <1>15, <4>2 DEF LoadGraph
      <4> QED
        BY <4>1, <4>2
    <3>2. \/ pod'[t] = [pod[t] EXCEPT !.at = "mapping", !.created = TRUE]
          \/ pod'[t] = [pod[t] EXCEPT !.at = "ready", !.listed = pod[t].listed + 1]
      BY <1>0, <3>1
    <3>3. PodOK(pod'[t])
      BY <3>2, <1>0, <1>01, <1>15, PodUpdates DEF LoadGraph, Parses, Loading
    <3> QED
      BY <1>0, <1>15, <3>1, <3>3 DEF LoadGraph, Shape
  <2> QED
    BY <2>1, <2>2
<1>16. CASE MapNodes(t)
  <2>1. CASE Fails(t)
    BY <2>1, <1>16, FailsOK DEF MapNodes, Shape
  <2>2. CASE ~Fails(t)
    <3>1. /\ pod' = [pod EXCEPT ![t].at = "initializing", ![t].listed = @ + 1]
          /\ UNCHANGED <<process, stray>>
      BY <2>2, <1>16 DEF MapNodes
    <3>2. pod'[t] = [pod[t] EXCEPT !.at = "initializing", !.listed = @ + 1]
      BY <1>0, <3>1
    <3>3. PodOK(pod'[t])
      BY <3>2, <1>0, <1>01, <1>16, PodUpdates DEF MapNodes, At, Loading
    <3> QED
      BY <1>0, <1>16, <3>1, <3>3 DEF MapNodes, Shape
  <2> QED
    BY <2>1, <2>2
<1>17. CASE RunInitOps(t)
  <2>1. CASE Fails(t)
    BY <2>1, <1>17, FailsOK DEF RunInitOps, Shape
  <2>2. CASE ~Fails(t)
    <3>1. pod' = [pod EXCEPT ![t].at = "ready"] /\ UNCHANGED <<process, stray>>
      BY <2>2, <1>17 DEF RunInitOps, Goto
    <3>2. PodOK(pod'[t])
      BY <3>1, <1>0 DEF PodOK, RecOK, States, Waiting, Loading, Choosing
    <3> QED
      BY <1>0, <1>17, <3>1, <3>2 DEF RunInitOps, Shape
  <2> QED
    BY <2>1, <2>2
<1>18. CASE LoadPython(t)
  <2>1. pod[t].dirs + 1 \in Nat
    BY <1>0 DEF PodOK, RecOK
  <2>2. PICK dirs \in Nat : pod' = [pod EXCEPT ![t].at = "python", ![t].dirs = dirs]
    BY <1>18, <2>1 DEF LoadPython
  <2>5. pod'[t] = [pod[t] EXCEPT !.at = "python", !.dirs = dirs]
    BY <1>0, <2>2
  <2>3. PodOK(pod'[t])
    BY <2>5, <1>0, <1>18 DEF LoadPython, At, PodOK, RecOK, States, Waiting, Loading, Choosing
  <2>4. retried' \in BOOLEAN
    BY <1>18 DEF LoadPython
  <2> QED
    BY <1>0, <1>18, <2>2, <2>3, <2>4 DEF LoadPython, Shape
<1>19. CASE PythonLoads(t)
  <2>1. CASE Fails(t)
    BY <2>1, <1>19, FailsOK DEF PythonLoads, Shape
  <2>2. CASE ~Fails(t)
    <3>1. pod' = [pod EXCEPT ![t].at = "ready"] /\ UNCHANGED <<process, stray>>
      BY <2>2, <1>19 DEF PythonLoads, Goto
    <3>2. PodOK(pod'[t])
      BY <3>1, <1>0 DEF PodOK, RecOK, States, Waiting, Loading, Choosing
    <3> QED
      BY <1>0, <1>19, <3>1, <3>2 DEF PythonLoads, Shape
  <2> QED
    BY <2>1, <2>2
<1> QED
  BY <1>1, <1>2, <1>3, <1>4, <1>5, <1>6, <1>7, <1>8, <1>9, <1>10, <1>11, <1>12, <1>13, <1>14,
     <1>15, <1>16, <1>17, <1>18, <1>19 DEF Doing, Step

-----------------------------------------------------------------------------
IsTF(r) == r.model.platform = "tensorflow"
IsPython(r) == r.model.platform = "python"

\* What a pod's directories and lists of outputs are at each point of a load.
LoadOK(r) ==
  /\ r.at \in {"none", "construct"} \cup Choosing => r.dirs = 0
  /\ r.at = "built" => ~r.eager /\ (r.ope => r.dirs = 0)
  /\ r.at \in {"locked", "opened", "mapping", "initializing"} => IsTF(r)
  /\ r.at = "python" => IsPython(r)
  /\ IF IsPython(r) /\ ~r.eager /\ ~r.ope
     THEN r.dirs <= r.loads /\ (r.at = "ops" => r.dirs < r.loads)
     ELSE r.dirs <= 1 /\ (IsPython(r) /\ r.at = "ops" => r.dirs = 0)
  /\ IsTF(r) /\ (~r.created \/ r.at = "mapping") => r.listed = 0
  /\ r.at = "mapping" => r.created
  /\ r.at \in {"initializing", "ready"} /\ ~IsPython(r) => r.listed = 1
  /\ ~IsTF(r) /\ r.at # "ready" => r.listed = 0
  /\ IsPython(r) => r.listed = 0

\* Every step keeps LoadOK of the pod it changes.
LEMMA LoadStep ==
  ASSUME Shape, NEW t \in Threads, LoadOK(pod[t]), Doing(t)
  PROVE  LoadOK(pod'[t])
<1>0. PodOK(pod[t]) /\ pod = [u \in Threads |-> pod[u]]
  BY DEF Shape
<1>1. LoadOK(NoPod)
  BY DEF LoadOK, NoPod, IsTF, IsPython, Choosing
<1>2. CASE Fails(t)
  <2>1. CASE ~Survives(t)
    BY <1>0, <1>1, <1>2, <2>1 DEF Fails, End
  <2>2. CASE Survives(t) /\ pod[t].ope
    <3>1. pod'[t] = [NoPod EXCEPT !.at = "built", !.ope = TRUE, !.model = pod[t].model,
                                  !.loads = pod[t].loads, !.overrides = pod[t].overrides]
      BY <1>0, <1>2, <2>2 DEF Fails
    <3> QED
      BY <3>1, <1>0 DEF NoPod, LoadOK, IsTF, IsPython, PodOK, RecOK, Choosing
  <2>3. CASE Survives(t) /\ ~pod[t].ope
    <3>1. pod'[t] = [pod[t] EXCEPT !.at = "built"]
      BY <1>0, <1>2, <2>3 DEF Fails
    <3> QED
      BY <3>1, <1>0, <2>3 DEF Survives, LoadOK, IsTF, IsPython, PodOK, RecOK, Choosing, Loading
  <2> QED
    BY <2>1, <2>2, <2>3
<1>3. CASE New(t)
  <2>0. PICK m \in Models, ope \in BOOLEAN, eager \in BOOLEAN, o \in Overrides :
          pod' = [pod EXCEPT ![t] = [NoPod EXCEPT !.at = IF ope /\ ~eager THEN "built" ELSE "find",
                                       !.model = m, !.ope = ope, !.eager = eager, !.overrides = o]]
    BY <1>3 DEF New
  <2>1. pod'[t] = [NoPod EXCEPT !.at = IF ope /\ ~eager THEN "built" ELSE "find",
                     !.model = m, !.ope = ope, !.eager = eager, !.overrides = o]
    BY <1>0, <2>0
  <2>2. /\ pod'[t].at = (IF ope /\ ~eager THEN "built" ELSE "find") /\ pod'[t].eager = eager
        /\ pod'[t].dirs = 0 /\ pod'[t].loads = 0 /\ pod'[t].created = FALSE /\ pod'[t].listed = 0
    BY <2>1 DEF NoPod
  <2>3. \/ pod'[t].at = "find"
        \/ pod'[t].at = "built" /\ ~pod'[t].eager
    BY <2>2
  <2> QED
    BY <2>2, <2>3 DEF LoadOK, IsTF, IsPython, Choosing
<1>4. CASE LoadModel(t)
  <2>1. \/ /\ pod[t].ope
           /\ pod'[t] = [[pod[t] EXCEPT !.at = "find"] EXCEPT !.loads = pod[t].loads + 1]
        \/ /\ ~pod[t].ope
           /\ pod'[t] = [StartLoad(t) EXCEPT !.loads = pod[t].loads + 1]
    BY <1>0, <1>4 DEF LoadModel, StartLoad, PodOK, RecOK
  <2>2. CASE pod[t].ope
    BY <1>0, <1>4, <2>1, <2>2 DEF LoadModel, LoadOK, IsTF, IsPython, PodOK, RecOK, Choosing, At
  <2>3. CASE ~pod[t].ope
    <3>1. StartLoad(t) = [pod[t] EXCEPT !.at = "ops", !.todo = pod[t].model.ops, !.paths = <<>>]
      BY DEF StartLoad
    <3>2. RecOK(StartLoad(t))
      BY <1>0, StartLoadOK DEF PodOK
    <3>3. /\ pod'[t].at = "ops" /\ pod'[t].loads = pod[t].loads + 1
          /\ pod'[t].model = pod[t].model /\ pod'[t].dirs = pod[t].dirs
          /\ pod'[t].eager = pod[t].eager /\ pod'[t].ope = pod[t].ope
          /\ pod'[t].listed = pod[t].listed /\ pod'[t].created = pod[t].created
      BY <1>0, <2>1, <2>3, <3>1, <3>2 DEF RecOK, PodOK
    <3>4. pod[t].dirs \in Nat /\ pod[t].loads \in Nat /\ pod[t].at = "built"
      BY <1>0, <1>4, BoundAssumption, PodFields DEF LoadModel, At
    <3> QED
      BY <3>3, <3>4 DEF LoadOK, IsTF, IsPython, Choosing
  <2> QED
    BY <2>2, <2>3
<1>5. CASE Destroy(t)
  BY <1>0, <1>1, <1>5 DEF Destroy, End
<1>6. CASE Find(t)
  <2>1. PICK a \in {"construct", "check"}, l \in Seen(t) \cup {NoLib} :
          pod'[t] = [pod[t] EXCEPT !.at = a, !.lib = l]
    BY <1>0, <1>6 DEF Find
  <2> QED
    BY <1>0, <1>6, <2>1 DEF Find, LoadOK, IsTF, IsPython, PodOK, RecOK, Choosing, At
<1>7. CASE Check(t) /\ ~Fails(t)
  BY <1>0, <1>7 DEF Check, LoadOK, IsTF, IsPython, PodOK, RecOK, Choosing, At
<1>8. CASE Open(t) /\ ~Fails(t)
  BY <1>0, <1>8 DEF Open, LoadOK, IsTF, IsPython, PodOK, RecOK, Choosing, At
<1>9. CASE Insert(t) /\ ~Fails(t)
  BY <1>0, <1>9 DEF Insert, Goto, LoadOK, IsTF, IsPython, PodOK, RecOK, Choosing, At
<1>10. CASE Refind(t) /\ ~Fails(t)
  BY <1>0, <1>10 DEF Refind, LoadOK, IsTF, IsPython, PodOK, RecOK, Choosing, At
<1>11. CASE Construct(t)
  BY <1>0, <1>11 DEF Construct, StartLoad, LoadOK, IsTF, IsPython, PodOK, RecOK, Choosing, At
<1>12. CASE LockOps(t)
  BY <1>0, <1>12 DEF LockOps, Unzipped, Platform, LoadOK, IsTF, IsPython, PodOK, RecOK, Choosing, At
<1>13. CASE OpenOp(t) /\ ~Fails(t)
  BY <1>0, <1>13 DEF OpenOp, Goto, LoadOK, IsTF, IsPython, PodOK, RecOK, Choosing, At
<1>14. CASE ListOpened(t)
  BY <1>0, <1>14 DEF ListOpened, LoadOK, IsTF, IsPython, PodOK, RecOK, Choosing, At
<1>15. CASE ListOp(t)
  BY <1>0, <1>15 DEF ListOp, Unzipped, Platform, LoadOK, IsTF, IsPython, PodOK, RecOK, Choosing, At
<1>16. CASE OpenListed(t) /\ ~Fails(t)
  <2>1. pod'[t] = [pod[t] EXCEPT !.paths = Tail(@)]
    BY <1>0, <1>16 DEF OpenListed
  <2> QED
    BY <1>0, <2>1 DEF LoadOK, IsTF, IsPython, PodOK, RecOK, Choosing
<1>17. CASE LoadGraph(t) /\ ~Fails(t)
  <2>1. /\ pod[t].at = "ops" /\ ~IsPython(pod[t]) /\ ~pod[t].created
        /\ \/ IsTF(pod[t]) /\ pod'[t] = [pod[t] EXCEPT !.at = "mapping", !.created = TRUE]
           \/ ~IsTF(pod[t]) /\ pod'[t] = [pod[t] EXCEPT !.at = "ready", !.listed = pod[t].listed + 1]
    BY <1>0, <1>17 DEF LoadGraph, Parses, Platform, IsTF, IsPython
  <2>2. /\ pod'[t].at = IF IsTF(pod[t]) THEN "mapping" ELSE "ready"
        /\ IsTF(pod[t]) => pod'[t].created
        /\ pod'[t].listed = IF IsTF(pod[t]) THEN pod[t].listed ELSE pod[t].listed + 1
        /\ pod'[t].model = pod[t].model /\ pod'[t].dirs = pod[t].dirs
    BY <1>0, <2>1 DEF PodOK, RecOK
  <2>3. pod[t].listed = 0 /\ pod[t].dirs <= 1
    BY <2>1 DEF LoadOK, IsPython
  <2> QED
    BY <2>1, <2>2, <2>3 DEF LoadOK, IsTF, IsPython, Choosing
<1>18. CASE MapNodes(t) /\ ~Fails(t)
  <2>1. /\ pod[t].at = "mapping"
        /\ pod'[t] = [pod[t] EXCEPT !.at = "initializing", !.listed = pod[t].listed + 1]
    BY <1>0, <1>18 DEF MapNodes, At
  <2> QED
    BY <1>0, <2>1 DEF LoadOK, IsTF, IsPython, PodOK, RecOK, Choosing
<1>19. CASE RunInitOps(t) /\ ~Fails(t)
  BY <1>0, <1>19 DEF RunInitOps, Goto, LoadOK, IsTF, IsPython, PodOK, RecOK, Choosing, At
<1>20. CASE LoadPython(t)
  BY <1>0, <1>20 DEF LoadPython, Platform, LoadOK, IsTF, IsPython, PodOK, RecOK, Choosing, At
<1>21. CASE PythonLoads(t) /\ ~Fails(t)
  BY <1>0, <1>21 DEF PythonLoads, Goto, LoadOK, IsTF, IsPython, PodOK, RecOK, Choosing, At
<1> QED
  BY <1>2, <1>3, <1>4, <1>5, <1>6, <1>7, <1>8, <1>9, <1>10, <1>11, <1>12, <1>13, <1>14,
     <1>15, <1>16, <1>17, <1>18, <1>19, <1>20, <1>21 DEF Doing, Step

\* Only a Python model that is loaded again makes a second directory.
RetriedOK == /\ stray > 0 => retried
             /\ \A t \in Threads : pod[t].dirs > 1 => retried

\* Every step keeps it, because LoadPython remembers a second directory.
LEMMA RetriedStep ==
  ASSUME Shape, RetriedOK, NEW t \in Threads, Doing(t)
  PROVE  RetriedOK'
<1>0. PodOK(pod[t]) /\ pod = [u \in Threads |-> pod[u]] /\ Only(t) /\ Shape'
  BY ShapeStep DEF Shape
<1>1. stray \in Nat /\ stray' \in Nat /\ pod[t].dirs \in Nat
  BY <1>0, PodFields DEF Shape
<1>2. SUFFICES /\ retried => retried'
               /\ stray' > stray => pod[t].dirs > 1
               /\ pod'[t].dirs \notin {0, 1, pod[t].dirs} => retried'
  BY <1>0, <1>1 DEF RetriedOK, Only
<1>3. ASSUME stray' = stray, retried' = retried,
             pod'[t].dirs \in {0, 1, pod[t].dirs}
      PROVE  /\ retried => retried'
             /\ stray' > stray => pod[t].dirs > 1
             /\ pod'[t].dirs \notin {0, 1, pod[t].dirs} => retried'
  BY <1>1, <1>3
<1>4. CASE Fails(t) /\ retried' = retried
  <2>1. CASE ~Survives(t)
    BY <1>0, <1>1, <1>4, <2>1 DEF Fails, End, Discard, NoPod
  <2>2. CASE Survives(t) /\ pod[t].ope
    <3>1. pod'[t] = [NoPod EXCEPT !.at = "built", !.ope = TRUE, !.model = pod[t].model,
                                  !.loads = pod[t].loads, !.overrides = pod[t].overrides]
      BY <1>0, <1>4, <2>2 DEF Fails
    <3> QED
      BY <3>1, <1>1, <1>4, <2>2 DEF Fails, Discard, NoPod
  <2>3. CASE Survives(t) /\ ~pod[t].ope
    <3>1. pod'[t] = [pod[t] EXCEPT !.at = "built"]
      BY <1>0, <1>4, <2>3 DEF Fails
    <3> QED
      BY <3>1, <1>0, <1>1, <1>4, <2>3 DEF Fails, PodOK, RecOK
  <2> QED
    BY <2>1, <2>2, <2>3
<1>5. CASE New(t)
  <2>0. PICK m \in Models, ope \in BOOLEAN, eager \in BOOLEAN, o \in Overrides :
          pod' = [pod EXCEPT ![t] = [NoPod EXCEPT !.at = IF ope /\ ~eager THEN "built" ELSE "find",
                                       !.model = m, !.ope = ope, !.eager = eager, !.overrides = o]]
    BY <1>5 DEF New
  <2>1. pod'[t] = [NoPod EXCEPT !.at = IF ope /\ ~eager THEN "built" ELSE "find",
                     !.model = m, !.ope = ope, !.eager = eager, !.overrides = o]
    BY <1>0, <2>0
  <2> QED
    BY <1>3, <1>5, <2>1 DEF New, NoPod
<1>6. CASE LoadModel(t)
  BY <1>0, <1>3, <1>6 DEF LoadModel, StartLoad, Rest, PodOK, RecOK
<1>7. CASE Destroy(t)
  BY <1>0, <1>1, <1>7 DEF Destroy, End, Discard, NoPod
<1>8. CASE Find(t)
  BY <1>0, <1>3, <1>8 DEF Find, Rest, PodOK, RecOK
<1>9. CASE Check(t) /\ ~Fails(t)
  BY <1>0, <1>3, <1>9 DEF Check, PodOK, RecOK
<1>10. CASE Open(t) /\ ~Fails(t)
  BY <1>0, <1>3, <1>10 DEF Open, PodOK, RecOK
<1>11. CASE Insert(t) /\ ~Fails(t)
  BY <1>0, <1>3, <1>11 DEF Insert, Goto, PodOK, RecOK
<1>12. CASE Refind(t) /\ ~Fails(t)
  BY <1>0, <1>3, <1>12 DEF Refind, PodOK, RecOK
<1>13. CASE Construct(t)
  BY <1>0, <1>3, <1>13 DEF Construct, StartLoad, Rest, PodOK, RecOK
<1>14. CASE LockOps(t)
  BY <1>0, <1>3, <1>14 DEF LockOps, Unzipped, Rest, PodOK, RecOK
<1>15. CASE OpenOp(t) /\ ~Fails(t)
  BY <1>0, <1>3, <1>15 DEF OpenOp, Goto, PodOK, RecOK
<1>16. CASE ListOpened(t)
  BY <1>0, <1>3, <1>16 DEF ListOpened, Rest, PodOK, RecOK
<1>17. CASE ListOp(t)
  BY <1>0, <1>3, <1>17 DEF ListOp, Unzipped, Rest, PodOK, RecOK
<1>18. CASE OpenListed(t) /\ ~Fails(t)
  BY <1>0, <1>3, <1>18 DEF OpenListed, PodOK, RecOK
<1>19. CASE LoadGraph(t) /\ ~Fails(t)
  <2>1. \/ pod'[t] = [pod[t] EXCEPT !.at = "mapping", !.created = TRUE]
        \/ pod'[t] = [pod[t] EXCEPT !.at = "ready", !.listed = pod[t].listed + 1]
    BY <1>0, <1>19 DEF LoadGraph
  <2> QED
    BY <1>0, <1>3, <1>19, <2>1 DEF LoadGraph, PodOK, RecOK
<1>20. CASE MapNodes(t) /\ ~Fails(t)
  BY <1>0, <1>3, <1>20 DEF MapNodes, PodOK, RecOK
<1>21. CASE RunInitOps(t) /\ ~Fails(t)
  BY <1>0, <1>3, <1>21 DEF RunInitOps, Goto, PodOK, RecOK
<1>22. CASE LoadPython(t)
  <2>1. pod'[t].dirs \in {0, pod[t].dirs + 1} /\ stray' = stray
    BY <1>0, <1>22 DEF LoadPython, PodOK, RecOK
  <2>2. (retried => retried') /\ (pod[t].dirs > 0 => retried')
    BY <1>0, <1>22 DEF LoadPython, Shape
  <2> QED
    BY <1>1, <2>1, <2>2
<1>23. CASE PythonLoads(t) /\ ~Fails(t)
  BY <1>0, <1>3, <1>23 DEF PythonLoads, Goto, PodOK, RecOK
<1>24. CASE Step(t) /\ Fails(t) /\ ~(Find(t) \/ Construct(t) \/ LockOps(t) \/ ListOpened(t) \/ ListOp(t) \/ LoadPython(t))
  <2>1. retried' = retried
    BY <1>24 DEF Step, Check, Open, Insert, Refind, OpenOp, OpenListed, LoadGraph, MapNodes, RunInitOps, PythonLoads
  <2> QED
    BY <1>4, <1>24, <2>1
<1> QED
  BY <1>5, <1>6, <1>7, <1>8, <1>9, <1>10, <1>11, <1>12, <1>13, <1>14,
     <1>15, <1>16, <1>17, <1>18, <1>19, <1>20, <1>21, <1>22, <1>23, <1>24 DEF Doing, Step

LInv == Shape /\ (\A t \in Threads : LoadOK(pod[t])) /\ RetriedOK

\* A step is one of some thread.
LEMMA StepDone == ASSUME Next PROVE \E t \in Threads : Doing(t)
  BY DEF Next, Doing

\* The types, and the points of a load, are an invariant.
THEOREM LoadInvariant == Spec => []LInv
<1>1. Init => LInv
  <2> SUFFICES ASSUME Init PROVE LInv
    OBVIOUS
  <2>1. \A t \in Threads : pod[t] = NoPod
    BY DEF Init
  <2>2. LoadOK(NoPod) /\ NoPod.dirs = 0
    BY DEF LoadOK, NoPod, IsTF, IsPython, Choosing
  <2>3. Shape
    <3>1. process \in [Procs -> ProcSet] /\ pod = [t \in Threads |-> pod[t]]
      BY NewProcessOK DEF Init
    <3>2. stray \in Nat /\ news \in 0 .. MaxNew
      BY BoundAssumption DEF Init
    <3>3. retried \in BOOLEAN /\ down \in BOOLEAN
      BY Zenon DEF Init
    <3> QED
      BY <2>1, <3>1, <3>2, <3>3, NoPodOK DEF Shape
  <2> QED
    BY <2>1, <2>2, <2>3 DEF LInv, RetriedOK, Init
<1>2. LInv /\ [Next]_vars => LInv'
  <2> SUFFICES ASSUME LInv, [Next]_vars PROVE LInv'
    OBVIOUS
  <2>1. CASE Next
    <3>1. PICK t \in Threads : Doing(t)
      BY <2>1, StepDone
    <3>2. Shape' /\ Only(t) /\ RetriedOK' /\ LoadOK(pod'[t])
      BY <3>1, ShapeStep, RetriedStep, LoadStep DEF LInv
    <3> QED
      BY <3>2 DEF LInv, Only
  <2>2. CASE UNCHANGED vars
    BY <2>2 DEF vars, LInv, Shape, RetriedOK
  <2> QED
    BY <2>1, <2>2
<1> QED
  BY <1>1, <1>2, PTL DEF Spec

\* The invariant implies the types.
LEMMA TypesHold == LInv => TypeOK
<1> SUFFICES ASSUME LInv PROVE TypeOK
  OBVIOUS
<1>1. ASSUME NEW t \in Threads
      PROVE  /\ pod[t].at \in States /\ pod[t].model \in Models /\ pod[t].lib \in Libs \cup {NoLib}
             /\ pod[t].loads \in 0 .. MaxLoads /\ pod[t].dirs \in 0 .. MaxLoads /\ pod[t].listed \in Nat
  BY BoundAssumption, PodFields DEF LInv, Shape, LoadOK
<1>2. ASSUME NEW p \in Procs
      PROVE  process[p] \in ProcSet
  BY DEF LInv, Shape
<1> QED
  BY <1>1, <1>2 DEF TypeOK, States, ProcSet, LInv, Shape

\* TypeOK, in every state: what the processes and the Neuropods of any number of
\* threads keep has its type, and a Neuropod makes at most one directory for each load.
THEOREM TypeCorrect == Spec => []TypeOK
  BY LoadInvariant, TypesHold, PTL

\* It implies that failed loads leave nothing.
LEMMA LoadsAreClean == LInv => FailedLoadsLeaveNothing
  BY DEF LInv, LoadOK, IsPython, RetriedOK, FailedLoadsLeaveNothing, Platform

\* FailedLoadsLeaveNothing, in every state: whichever loads fail and are tried again,
\* only a Python model that is loaded twice leaves a directory, and the outputs of a
\* model that is ready are listed once.
THEOREM FailedLoadsAreClean == Spec => []FailedLoadsLeaveNothing
  BY LoadInvariant, LoadsAreClean, PTL

-----------------------------------------------------------------------------
\* The dynamic linker runs one initializer at a time in a process.
OneInserter == \A t, u \in Threads :
                 pod[t].at = "insert" /\ pod[u].at = "insert" /\ Proc(t) = Proc(u) => t = u

\* l may be, and may stay, the backend of t's Neuropod.
Match(t, l) == /\ LibVersion[l] \in pod[t].model.range
               /\ \/ Here(t).registered[Platform(t)] = l
                  \/ l \in Inserted(Proc(t), Platform(t))

Matching == /\ OneInserter
            /\ \A t \in Threads : pod[t].lib # NoLib /\ pod[t].at \notin Choosing => Match(t, pod[t].lib)

\* A worker has one Neuropod.
LEMMA OwnWorker ==
  ASSUME NEW t \in Threads, NEW u \in Threads, Proc(u) = Proc(t), pod[t].ope
  PROVE  u = t
  BY ThreadAssumption DEF Proc

\* A step that registers nothing and starts no initializer; one that leaves an
\* initializer does so because its type was registered.
LEMMA QuietStep ==
  ASSUME Shape, Matching, NEW t \in Threads, Only(t),
         \A u \in Threads \ {t} : process'[Proc(u)].registered = process[Proc(u)].registered,
         pod'[t].at # "insert",
         pod[t].at = "insert" => Here(t).registered[LibType[pod[t].lib]] # NoLib,
         pod'[t].lib # NoLib /\ pod'[t].at \notin Choosing =>
           /\ pod'[t].model = pod[t].model /\ pod'[t].ope = pod[t].ope
           /\ Match(t, pod'[t].lib)
           /\ process'[Proc(t)].registered = Here(t).registered
  PROVE  Matching'
<1>1. \A u \in Threads \ {t} : Proc(u)' = Proc(u) /\ Platform(u)' = Platform(u)
  BY DEF Only, Proc, Platform
<1>2. OneInserter'
  BY <1>1 DEF Matching, OneInserter, Only
<1>3. ASSUME NEW p, NEW y, NEW l \in Inserted(p, y), process'[p].registered = process[p].registered
      PROVE  l \in Inserted(p, y)'
  <2>1. PICK v \in Threads : /\ Proc(v) = p /\ pod[v].at = "insert" /\ pod[v].lib = l
                            /\ LibType[l] = y /\ process[p].registered[y] = NoLib
    BY DEF Inserted, Inserting
  <2>2. v # t
    BY <2>1 DEF Here
  <2> QED
    BY <1>1, <1>3, <2>1, <2>2 DEF Inserted, Inserting, Only
<1>4. ASSUME NEW u \in Threads \ {t}, pod'[u].lib # NoLib, pod'[u].at \notin Choosing
      PROVE  Match(u, pod[u].lib)'
  BY <1>1, <1>3, <1>4 DEF Matching, Match, Only, Here
<1>5. ASSUME pod'[t].lib # NoLib, pod'[t].at \notin Choosing
      PROVE  Match(t, pod[t].lib)'
  <2>1. Proc(t)' = Proc(t) /\ Platform(t)' = Platform(t)
    BY <1>5 DEF Proc, Platform
  <2> QED
    BY <1>3, <1>5, <2>1 DEF Match, Here
<1> QED
  BY <1>2, <1>4, <1>5 DEF Matching

\* An error, or the end of a Neuropod, keeps the backends of the others.
LEMMA FailsMatching ==
  ASSUME Shape, Matching, NEW t \in Threads, Fails(t) \/ End(t),
         pod[t].at = "insert" => Here(t).registered[LibType[pod[t].lib]] # NoLib
  PROVE  Matching'
<1>0. /\ pod = [u \in Threads |-> pod[u]] /\ PodOK(pod[t]) /\ Only(t)
      /\ process \in [Procs -> ProcSet] /\ Proc(t) \in Procs
  BY ProcIsProc, FailsOK, EndOK DEF Shape, Only
<1>1. \A u \in Threads \ {t} : process'[Proc(u)].registered = process[Proc(u)].registered
  <2> SUFFICES ASSUME NEW u \in Threads \ {t}
               PROVE  process'[Proc(u)].registered = process[Proc(u)].registered
    OBVIOUS
  <2>1. CASE Proc(u) # Proc(t)
    BY <1>0, <2>1, ProcIsProc DEF Only
  <2>2. CASE Proc(u) = Proc(t)
    <3>1. ~pod[t].ope /\ Proc(u) \in Procs
      BY <2>2, OwnWorker, ProcIsProc
    <3>2. process' = Unlocked(t)
      BY <3>1 DEF Fails, End
    <3> QED
      BY <3>1, <3>2, UnlockedOK
  <2> QED
    BY <2>1, <2>2
<1>2. CASE End(t)
  <2>1. pod'[t].lib = NoLib /\ pod'[t].at # "insert"
    BY <1>0, <1>2 DEF End, NoPod
  <2> QED
    BY <1>0, <1>1, <2>1, QuietStep
<1>3. CASE Fails(t) /\ Survives(t) /\ pod[t].ope
  <2>1. pod'[t] = [NoPod EXCEPT !.at = "built", !.ope = TRUE, !.model = pod[t].model,
                                !.loads = pod[t].loads, !.overrides = pod[t].overrides]
    BY <1>0, <1>3 DEF Fails
  <2>2. pod'[t].lib = NoLib /\ pod'[t].at # "insert"
    BY <2>1 DEF NoPod
  <2> QED
    BY <1>0, <1>1, <2>2, QuietStep
<1>4. CASE Fails(t) /\ Survives(t) /\ ~pod[t].ope
  <2>1. pod'[t] = [pod[t] EXCEPT !.at = "built"] /\ process' = Unlocked(t) /\ pod[t].at \in Loading
    BY <1>0, <1>4 DEF Fails, Survives
  <2>2. /\ pod'[t].lib = pod[t].lib /\ pod'[t].at # "insert" /\ pod'[t].model = pod[t].model
        /\ pod'[t].ope = pod[t].ope
    BY <1>0, <2>1 DEF PodOK, RecOK
  <2>3. process'[Proc(t)].registered = Here(t).registered
    BY <1>0, <2>1, UnlockedOK DEF Here
  <2>4. pod[t].lib # NoLib => Match(t, pod[t].lib)
    BY <2>1 DEF Matching, Loading, Choosing
  <2> QED
    BY <1>0, <1>1, <2>2, <2>3, <2>4, QuietStep
<1> QED
  BY <1>2, <1>3, <1>4 DEF Fails

\* A step after the backend was chosen, which keeps it, keeps Matching.
LEMMA SameBackend ==
  ASSUME Shape, Matching, NEW t \in Threads, Only(t),
         \A p \in Procs : process'[p].registered = process[p].registered,
         pod'[t].lib = pod[t].lib, pod'[t].model = pod[t].model, pod'[t].ope = pod[t].ope,
         pod'[t].at # "insert", pod[t].at \notin Choosing
  PROVE  Matching'
<1>1. \A u \in Threads : process'[Proc(u)].registered = process[Proc(u)].registered
  BY ProcIsProc
<1>2. pod[t].at # "insert"
  BY DEF Choosing
<1>3. pod[t].lib # NoLib => Match(t, pod[t].lib)
  BY DEF Matching
<1>4. process'[Proc(t)].registered = Here(t).registered
  BY <1>1 DEF Here
<1> QED
  BY <1>1, <1>2, <1>3, <1>4, QuietStep

\* The lookups, and what the initializer of a library does.
LEMMA ChoosingStep ==
  ASSUME Shape, Matching, NEW t \in Threads, Only(t),
         Find(t) \/ Check(t) \/ Open(t) \/ Insert(t) \/ Refind(t)
  PROVE  Matching'
<1>0. PodOK(pod[t]) /\ pod = [u \in Threads |-> pod[u]] /\ process \in [Procs -> ProcSet] /\ Proc(t) \in Procs
  BY ProcIsProc DEF Shape
<1>1. \A l : l \in Seen(t) /\ Suits(t, l) => Match(t, l)
  BY DEF Seen, Suits, Match
<1>2. CASE Find(t)
  <2>1. PICK l \in Seen(t) :
          pod'[t] = [pod[t] EXCEPT !.at = IF Suits(t, l) THEN "construct" ELSE "check",
                                   !.lib = IF Suits(t, l) THEN l ELSE NoLib]
    BY <1>0, <1>2 DEF Find
  <2>2. /\ pod'[t].model = pod[t].model /\ pod'[t].ope = pod[t].ope
        /\ pod'[t].at = IF Suits(t, l) THEN "construct" ELSE "check"
        /\ pod'[t].lib = IF Suits(t, l) THEN l ELSE NoLib
    BY <1>0, <2>1 DEF PodOK, RecOK
  <2>3. process' = process /\ pod[t].at = "find"
    BY <1>2 DEF Find, At
  <2> QED
    BY <1>1, <2>2, <2>3, QuietStep DEF Here
<1>3. CASE Check(t)
  <2>1. pod[t].at = "check"
    BY <1>3 DEF Check, At
  <2>2. CASE Fails(t)
    BY <2>1, <2>2, FailsMatching
  <2>3. CASE ~Fails(t)
    <3>1. pod'[t].at = "open" /\ process' = process
      BY <1>0, <1>3, <2>3 DEF Check, PodOK, RecOK
    <3> QED
      BY <2>1, <3>1, QuietStep DEF Choosing
  <2> QED
    BY <2>2, <2>3
<1>4. CASE Open(t)
  <2>1. pod[t].at = "open"
    BY <1>4 DEF Open, At
  <2>2. CASE Fails(t)
    BY <2>1, <2>2, FailsMatching
  <2>3. CASE ~Fails(t)
    <3>1. /\ Inserting(Proc(t)) = {} /\ pod'[t].at \in {"refind", "insert"} /\ pod'[t].ope = pod[t].ope
      BY <1>0, <1>4, <2>3 DEF Open, PodOK, RecOK
    <3>2. \A p \in Procs : process'[p].registered = process[p].registered
      <4>1. PICK path \in Libs : process' = [process EXCEPT ![Proc(t)].mapped = @ \cup {path}]
        BY <1>4, <2>3 DEF Open
      <4> QED
        BY <1>0, <4>1 DEF ProcSet
    <3>3. \A u \in Threads : Proc(u)' = Proc(u) /\ Proc(u) \in Procs
      BY <3>1, ProcIsProc DEF Only, Proc
    <3>4. OneInserter'
      BY <2>1, <3>1, <3>3 DEF Matching, OneInserter, Inserting, Only
    <3>5. ASSUME NEW u \in Threads \ {t}, pod[u].lib # NoLib, pod[u].at \notin Choosing
          PROVE  Match(u, pod[u].lib)'
      <4>1. Platform(u)' = Platform(u) /\ pod'[u] = pod[u] /\ Match(u, pod[u].lib)
        BY <3>5 DEF Only, Platform, Matching
      <4>2. CASE Here(u).registered[Platform(u)] = pod[u].lib
        BY <3>2, <3>3, <4>1, <4>2 DEF Match, Here
      <4>3. CASE pod[u].lib \in Inserted(Proc(u), Platform(u))
        <5>1. PICK v \in Threads : /\ Proc(v) = Proc(u) /\ pod[v].at = "insert" /\ pod[v].lib = pod[u].lib
                                  /\ LibType[pod[u].lib] = Platform(u)
                                  /\ process[Proc(u)].registered[Platform(u)] = NoLib
          BY <4>3 DEF Inserted, Inserting
        <5>2. v # t
          BY <2>1, <5>1
        <5> QED
          BY <3>2, <3>3, <4>1, <5>1, <5>2 DEF Match, Inserted, Inserting, Only
      <4> QED
        BY <4>1, <4>2, <4>3 DEF Match
    <3> QED
      BY <3>1, <3>4, <3>5 DEF Matching, Only, Choosing
  <2> QED
    BY <2>2, <2>3
<1>5. CASE Insert(t)
  <2> DEFINE type == LibType[pod[t].lib]
  <2>1. pod[t].at = "insert"
    BY <1>5 DEF Insert, At
  <2>2. CASE Fails(t) /\ Here(t).registered[type] # NoLib
    BY <2>1, <2>2, FailsMatching
  <2>3. CASE UNCHANGED <<process, pod>>
    BY <2>3 DEF Matching, OneInserter, Match, Here, Proc, Platform, Inserted, Inserting
  <2>4. CASE /\ Here(t).registered[type] = NoLib
             /\ process' = [process EXCEPT ![Proc(t)].registered[type] = pod[t].lib]
             /\ Goto(t, "refind")
    <3>1. pod'[t].at = "refind" /\ pod'[t].ope = pod[t].ope
      BY <1>0, <2>4 DEF Goto, PodOK, RecOK
    <3>2. \A u \in Threads : Proc(u)' = Proc(u) /\ Proc(u) \in Procs
      BY <3>1, ProcIsProc DEF Only, Proc
    <3>3. /\ \A p \in Procs \ {Proc(t)} : process'[p] = process[p]
          /\ type \in Types
          /\ process'[Proc(t)].registered = [process[Proc(t)].registered EXCEPT ![type] = pod[t].lib]
          /\ process[Proc(t)].registered \in [Types -> Libs \cup {NoLib}]
      BY <1>0, <2>1, <2>4, LibAssumption DEF ProcSet, PodOK
    <3>4. OneInserter'
      BY <3>1, <3>2 DEF Matching, OneInserter, Only
    <3>5. ASSUME NEW u \in Threads \ {t}, pod[u].lib # NoLib, pod[u].at \notin Choosing
          PROVE  Match(u, pod[u].lib)'
      <4>1. Platform(u)' = Platform(u) /\ pod'[u] = pod[u] /\ Match(u, pod[u].lib) /\ Platform(u) \in Types
        BY <3>5, ModelAssumption, PodFields DEF Only, Platform, Matching, Shape
      <4>2. CASE Here(u).registered[Platform(u)] = pod[u].lib
        <5>1. process'[Proc(u)].registered[Platform(u)] = pod[u].lib
          BY <2>4, <3>2, <3>3, <3>5, <4>1, <4>2 DEF Here
        <5> QED
          BY <3>2, <4>1, <5>1 DEF Match, Here
      <4>3. CASE pod[u].lib \in Inserted(Proc(u), Platform(u))
        <5>1. PICK v \in Threads : /\ Proc(v) = Proc(u) /\ pod[v].at = "insert" /\ pod[v].lib = pod[u].lib
                                  /\ LibType[pod[u].lib] = Platform(u)
                                  /\ process[Proc(u)].registered[Platform(u)] = NoLib
          BY <4>3 DEF Inserted, Inserting
        <5>2. CASE Proc(u) = Proc(t)
          <6>1. v = t
            BY <2>1, <5>1, <5>2 DEF Matching, OneInserter
          <6>2. process'[Proc(u)].registered[Platform(u)] = pod[u].lib
            BY <3>3, <4>1, <5>1, <5>2, <6>1
          <6> QED
            BY <3>2, <4>1, <6>2 DEF Match, Here
        <5>3. CASE Proc(u) # Proc(t)
          BY <3>2, <3>3, <4>1, <5>1, <5>3 DEF Match, Inserted, Inserting, Only
        <5> QED
          BY <5>2, <5>3
      <4> QED
        BY <4>1, <4>2, <4>3 DEF Match
    <3> QED
      BY <3>1, <3>4, <3>5 DEF Matching, Only, Choosing
  <2> QED
    BY <1>5, <2>2, <2>3, <2>4 DEF Insert
<1>6. CASE Refind(t)
  <2>1. pod[t].at = "refind"
    BY <1>6 DEF Refind, At
  <2>2. CASE Fails(t)
    BY <2>1, <2>2, FailsMatching
  <2>3. CASE ~Fails(t)
    <3>1. PICK l \in Seen(t) : /\ Suits(t, l) /\ process' = process
                              /\ pod'[t] = [pod[t] EXCEPT !.at = "construct", !.lib = l]
      BY <1>0, <1>6, <2>3 DEF Refind
    <3>2. /\ pod'[t].model = pod[t].model /\ pod'[t].ope = pod[t].ope
          /\ pod'[t].at = "construct" /\ pod'[t].lib = l
      BY <1>0, <3>1 DEF PodOK, RecOK
    <3> QED
      BY <1>1, <2>1, <3>1, <3>2, QuietStep DEF Here
  <2> QED
    BY <2>2, <2>3
<1> QED
  BY <1>2, <1>3, <1>4, <1>5, <1>6

\* A load changes neither the backend nor what is registered.
LEMMA LoadingStep ==
  ASSUME Shape, Matching, NEW t \in Threads, Only(t), pod[t].at \in Loading,
         \/ LockOps(t) \/ OpenOp(t) \/ ListOpened(t) \/ ListOp(t) \/ OpenListed(t)
         \/ LoadGraph(t) \/ MapNodes(t) \/ RunInitOps(t) \/ LoadPython(t) \/ PythonLoads(t)
  PROVE  Matching'
<1>0. PodOK(pod[t]) /\ pod = [u \in Threads |-> pod[u]] /\ process \in [Procs -> ProcSet] /\ Proc(t) \in Procs
  BY ProcIsProc DEF Shape
<1>1. CASE Fails(t)
  BY <1>1, FailsMatching DEF Loading
<1>2. CASE LockOps(t)
  <2>1. /\ pod'[t].lib = pod[t].lib /\ pod'[t].model = pod[t].model /\ pod'[t].ope = pod[t].ope
        /\ pod'[t].at # "insert" /\ pod[t].at \notin Choosing
    BY <1>0, <1>2 DEF LockOps, At, PodOK, RecOK, Choosing
  <2>2. \A p \in Procs : process'[p].registered = process[p].registered
    <3>1. process' = process \/ process' = [process EXCEPT ![Proc(t)].lock = t]
      BY <1>2 DEF LockOps
    <3> QED
      BY <1>0, <3>1 DEF ProcSet
  <2> QED
    BY <2>1, <2>2, SameBackend
<1>3. CASE OpenOp(t) /\ ~Fails(t)
  <2>1. /\ pod'[t].lib = pod[t].lib /\ pod'[t].model = pod[t].model /\ pod'[t].ope = pod[t].ope
        /\ pod'[t].at # "insert" /\ pod[t].at \notin Choosing
    BY <1>0, <1>3 DEF OpenOp, Goto, At, PodOK, RecOK, Choosing
  <2>2. \A p \in Procs : process'[p].registered = process[p].registered
    BY <1>0, <1>3 DEF OpenOp, Goto, At, ProcSet
  <2> QED
    BY <2>1, <2>2, SameBackend
<1>4. CASE ListOpened(t)
  <2>1. /\ pod'[t].lib = pod[t].lib /\ pod'[t].model = pod[t].model /\ pod'[t].ope = pod[t].ope
        /\ pod'[t].at # "insert" /\ pod[t].at \notin Choosing
    BY <1>0, <1>4 DEF ListOpened, At, PodOK, RecOK, Choosing
  <2>2. \A p \in Procs : process'[p].registered = process[p].registered
    BY <1>0, <1>4 DEF ListOpened, At, ProcSet
  <2> QED
    BY <2>1, <2>2, SameBackend
<1>5. CASE ListOp(t)
  <2>1. /\ pod'[t].lib = pod[t].lib /\ pod'[t].model = pod[t].model /\ pod'[t].ope = pod[t].ope
        /\ pod'[t].at # "insert" /\ pod[t].at \notin Choosing
    BY <1>0, <1>5 DEF ListOp, At, PodOK, RecOK, Choosing
  <2>2. \A p \in Procs : process'[p].registered = process[p].registered
    BY <1>0, <1>5 DEF ListOp, At, ProcSet
  <2> QED
    BY <2>1, <2>2, SameBackend
<1>6. CASE OpenListed(t) /\ ~Fails(t)
  <2>1. /\ pod'[t].lib = pod[t].lib /\ pod'[t].model = pod[t].model /\ pod'[t].ope = pod[t].ope
        /\ pod'[t].at # "insert" /\ pod[t].at \notin Choosing
    BY <1>0, <1>6 DEF OpenListed, At, PodOK, RecOK, Choosing
  <2>2. \A p \in Procs : process'[p].registered = process[p].registered
    <3>1. process' = [process EXCEPT ![Proc(t)].opens[Head(pod[t].paths)] = @ + 1]
      BY <1>6 DEF OpenListed
    <3> QED
      BY <1>0, <3>1 DEF ProcSet
  <2> QED
    BY <2>1, <2>2, SameBackend
<1>7. CASE LoadGraph(t) /\ ~Fails(t)
  <2>1. /\ pod'[t].lib = pod[t].lib /\ pod'[t].model = pod[t].model /\ pod'[t].ope = pod[t].ope
        /\ pod'[t].at # "insert" /\ pod[t].at \notin Choosing
    <3>1. \/ pod'[t] = [pod[t] EXCEPT !.at = "mapping", !.created = TRUE]
          \/ pod'[t] = [pod[t] EXCEPT !.at = "ready", !.listed = pod[t].listed + 1]
      BY <1>0, <1>7 DEF LoadGraph
    <3>2. pod[t].at = "ops"
      BY <1>7 DEF LoadGraph, Parses
    <3> QED
      BY <1>0, <3>1, <3>2 DEF PodOK, RecOK, Choosing
  <2>2. \A p \in Procs : process'[p].registered = process[p].registered
    BY <1>0, <1>7 DEF LoadGraph, Parses, ProcSet
  <2> QED
    BY <2>1, <2>2, SameBackend
<1>8. CASE MapNodes(t) /\ ~Fails(t)
  <2>1. /\ pod'[t].lib = pod[t].lib /\ pod'[t].model = pod[t].model /\ pod'[t].ope = pod[t].ope
        /\ pod'[t].at # "insert" /\ pod[t].at \notin Choosing
    BY <1>0, <1>8 DEF MapNodes, At, PodOK, RecOK, Choosing
  <2>2. \A p \in Procs : process'[p].registered = process[p].registered
    BY <1>0, <1>8 DEF MapNodes, At, ProcSet
  <2> QED
    BY <2>1, <2>2, SameBackend
<1>9. CASE RunInitOps(t) /\ ~Fails(t)
  <2>1. /\ pod'[t].lib = pod[t].lib /\ pod'[t].model = pod[t].model /\ pod'[t].ope = pod[t].ope
        /\ pod'[t].at # "insert" /\ pod[t].at \notin Choosing
    BY <1>0, <1>9 DEF RunInitOps, Goto, At, PodOK, RecOK, Choosing
  <2>2. \A p \in Procs : process'[p].registered = process[p].registered
    BY <1>0, <1>9 DEF RunInitOps, Goto, At, ProcSet
  <2> QED
    BY <2>1, <2>2, SameBackend
<1>10. CASE LoadPython(t)
  <2>1. /\ pod'[t].lib = pod[t].lib /\ pod'[t].model = pod[t].model /\ pod'[t].ope = pod[t].ope
        /\ pod'[t].at # "insert" /\ pod[t].at \notin Choosing
    BY <1>0, <1>10 DEF LoadPython, At, PodOK, RecOK, Choosing
  <2>2. \A p \in Procs : process'[p].registered = process[p].registered
    BY <1>0, <1>10 DEF LoadPython, At, ProcSet
  <2> QED
    BY <2>1, <2>2, SameBackend
<1>11. CASE PythonLoads(t) /\ ~Fails(t)
  <2>1. /\ pod'[t].lib = pod[t].lib /\ pod'[t].model = pod[t].model /\ pod'[t].ope = pod[t].ope
        /\ pod'[t].at # "insert" /\ pod[t].at \notin Choosing
    BY <1>0, <1>11 DEF PythonLoads, Goto, At, PodOK, RecOK, Choosing
  <2>2. \A p \in Procs : process'[p].registered = process[p].registered
    BY <1>0, <1>11 DEF PythonLoads, Goto, At, ProcSet
  <2> QED
    BY <2>1, <2>2, SameBackend
<1> QED
  BY <1>1, <1>2, <1>3, <1>4, <1>5, <1>6, <1>7, <1>8, <1>9, <1>10, <1>11

\* Every step keeps Matching.
LEMMA MatchingStep ==
  ASSUME Shape, Matching, NEW t \in Threads, Doing(t)
  PROVE  Matching'
<1>0. PodOK(pod[t]) /\ pod = [u \in Threads |-> pod[u]] /\ Only(t)
  BY ShapeStep DEF Shape
<1>1. CASE Find(t) \/ Check(t) \/ Open(t) \/ Insert(t) \/ Refind(t)
  BY <1>0, <1>1, ChoosingStep
<1>2. CASE \/ LockOps(t) \/ OpenOp(t) \/ ListOpened(t) \/ ListOp(t) \/ OpenListed(t)
           \/ LoadGraph(t) \/ MapNodes(t) \/ RunInitOps(t) \/ LoadPython(t) \/ PythonLoads(t)
  <2>1. pod[t].at \in Loading
    BY <1>2 DEF LockOps, OpenOp, ListOpened, ListOp, OpenListed, LoadGraph, Parses, MapNodes, RunInitOps,
                LoadPython, PythonLoads, At, Loading
  <2> QED
    BY <1>0, <1>2, <2>1, LoadingStep
<1>3. CASE New(t)
  <2>0. PICK m \in Models, ope \in BOOLEAN, eager \in BOOLEAN, o \in Overrides :
          pod' = [pod EXCEPT ![t] = [NoPod EXCEPT !.at = IF ope /\ ~eager THEN "built" ELSE "find",
                                       !.model = m, !.ope = ope, !.eager = eager, !.overrides = o]]
    BY <1>3 DEF New
  <2>1. pod'[t] = [NoPod EXCEPT !.at = IF ope /\ ~eager THEN "built" ELSE "find",
                     !.model = m, !.ope = ope, !.eager = eager, !.overrides = o]
    BY <1>0, <2>0
  <2>2. pod'[t].lib = NoLib /\ pod'[t].at # "insert" /\ pod[t].at = "none" /\ process' = process
    BY <1>3, <2>1 DEF New, NoPod, At
  <2> QED
    BY <1>0, <2>2, QuietStep
<1>4. CASE Construct(t)
  <2>1. /\ pod[t].at = "construct" /\ process' = process
        /\ pod'[t].lib = pod[t].lib /\ pod'[t].model = pod[t].model /\ pod'[t].ope = pod[t].ope
        /\ pod'[t].at # "insert"
    BY <1>0, <1>4 DEF Construct, StartLoad, At, PodOK, RecOK
  <2> QED
    BY <1>0, <2>1, SameBackend DEF Choosing
<1>5. CASE LoadModel(t) /\ pod[t].ope
  <2>1. pod'[t] = [[pod[t] EXCEPT !.at = "find"] EXCEPT !.loads = @ + 1]
    BY <1>0, <1>5 DEF LoadModel
  <2>2. pod'[t].at = "find" /\ pod[t].at = "built" /\ process' = process
    BY <1>0, <1>5, <2>1 DEF LoadModel, At, PodOK, RecOK
  <2> QED
    BY <1>0, <2>2, QuietStep DEF Choosing
<1>6. CASE LoadModel(t) /\ ~pod[t].ope
  <2>1. pod'[t] = [StartLoad(t) EXCEPT !.loads = @ + 1]
    BY <1>0, <1>6 DEF LoadModel
  <2>2. /\ pod[t].at = "built" /\ process' = process
        /\ pod'[t].lib = pod[t].lib /\ pod'[t].model = pod[t].model /\ pod'[t].ope = pod[t].ope
        /\ pod'[t].at # "insert"
    BY <1>0, <1>6, <2>1 DEF LoadModel, StartLoad, At, PodOK, RecOK
  <2> QED
    BY <1>0, <2>2, SameBackend DEF Choosing
<1>7. CASE Destroy(t)
  BY <1>7, FailsMatching DEF Destroy, At
<1> QED
  BY <1>1, <1>2, <1>3, <1>4, <1>5, <1>6, <1>7 DEF Doing, Step

\* BackendsMatch, in every state: however many threads look up, open and register
\* backends, those of a platform in a process are one library, in a version that each
\* of the models accepts.
THEOREM BackendsAlwaysMatch == Spec => []BackendsMatch
<1>1. Init => Matching
  BY DEF Init, Matching, OneInserter, NoPod
<1>2. LInv /\ Matching /\ [Next]_vars => Matching'
  <2> SUFFICES ASSUME LInv, Matching, [Next]_vars PROVE Matching'
    OBVIOUS
  <2>1. CASE Next
    BY <2>1, StepDone, MatchingStep DEF LInv
  <2>2. CASE UNCHANGED vars
    BY <2>2 DEF vars, Matching, OneInserter, Match, Here, Proc, Platform, Inserted, Inserting
  <2> QED
    BY <2>1, <2>2
<1>3. Matching => BackendsMatch
  BY DEF Matching, Match, BackendsMatch
<1> QED
  BY <1>1, <1>2, <1>3, LoadInvariant, PTL DEF Spec

-----------------------------------------------------------------------------
\* Nothing is in a sequence twice.
Distinct(s) == \A i, j \in DOMAIN s : s[i] = s[j] => i = j

\* What is taken off the front of a sequence.
LEMMA RangeOfTail ==
  ASSUME NEW S, NEW s \in Seq(S), s # <<>>
  PROVE  /\ Range(s) = {Head(s)} \cup Range(Tail(s))
         /\ Distinct(s) => Distinct(Tail(s)) /\ Head(s) \notin Range(Tail(s))
<1>1. /\ Len(s) \in Nat \ {0} /\ DOMAIN s = 1 .. Len(s) /\ Head(s) = s[1]
      /\ DOMAIN Tail(s) = 1 .. (Len(s) - 1)
      /\ \A i \in 1 .. (Len(s) - 1) : Tail(s)[i] = s[i + 1]
  OBVIOUS
<1>2. \A i \in DOMAIN s : i # 1 => i - 1 \in DOMAIN Tail(s) /\ Tail(s)[i - 1] = s[i]
  BY <1>1
<1>3. Range(s) \subseteq {Head(s)} \cup Range(Tail(s))
  BY <1>1, <1>2 DEF Range
<1>4. {Head(s)} \cup Range(Tail(s)) \subseteq Range(s)
  BY <1>1 DEF Range
<1>5. ASSUME Distinct(s) PROVE Distinct(Tail(s)) /\ Head(s) \notin Range(Tail(s))
  BY <1>1, <1>5 DEF Range, Distinct
<1> QED
  BY <1>3, <1>4, <1>5

\* What is put at the end of a sequence.
LEMMA RangeOfAppend ==
  ASSUME NEW S, NEW s \in Seq(S), NEW e \in S
  PROVE  /\ Range(Append(s, e)) = Range(s) \cup {e}
         /\ Distinct(s) /\ e \notin Range(s) => Distinct(Append(s, e))
<1>1. /\ Len(s) \in Nat /\ DOMAIN s = 1 .. Len(s) /\ DOMAIN Append(s, e) = 1 .. (Len(s) + 1)
      /\ Append(s, e)[Len(s) + 1] = e
      /\ \A i \in 1 .. Len(s) : Append(s, e)[i] = s[i]
  OBVIOUS
<1>2. Range(Append(s, e)) \subseteq Range(s) \cup {e}
  BY <1>1 DEF Range
<1>3. Range(s) \cup {e} \subseteq Range(Append(s, e))
  BY <1>1 DEF Range
<1>4. ASSUME Distinct(s), e \notin Range(s) PROVE Distinct(Append(s, e))
  BY <1>1, <1>4 DEF Range, Distinct
<1> QED
  BY <1>2, <1>3, <1>4

\* Nothing is in the empty sequence.
LEMMA RangeOfEmpty == Range(<<>>) = {} /\ Distinct(<<>>)
  BY DEF Range, Distinct
-----------------------------------------------------------------------------
\* The ops of a platform's models.
OpsOf(type) == {o \in Ops : \E m \in Models : m.platform = type /\ o \in Range(m.ops)}

\* The two backends that load ops have none in common.
LEMMA OpsAreApart == OpsOf("tensorflow") \cap OpsOf("torchscript") = {}
<1> SUFFICES ASSUME NEW m \in Models, NEW n \in Models, NEW o \in Ops,
                    m.platform = "tensorflow", n.platform = "torchscript",
                    o \in Range(m.ops), o \in Range(n.ops)
             PROVE  FALSE
  BY DEF OpsOf
<1>1. PICK i \in DOMAIN m.ops : m.ops[i] = o
  BY DEF Range
<1>2. PICK j \in DOMAIN n.ops : n.ops[j] = o
  BY DEF Range
<1> QED
  BY <1>1, <1>2, OpAssumption

\* What holds of the Neuropod of a thread, and of a process.
Locking == {"locked", "opened"}

ThreadOps(t) ==
  /\ pod[t].at \in Locking => Here(t).lock = t /\ Op(t) \notin Here(t).hashes
  /\ pod[t].at = "opened" => Here(t).opens[Op(t)] > 0
  /\ pod[t].at \in {"ops"} \cup Locking /\ ~IsPython(pod[t]) =>
       /\ Range(pod[t].todo) \subseteq Range(pod[t].model.ops)
       /\ Range(pod[t].model.ops) \subseteq Range(pod[t].todo) \cup Here(t).hashes
  /\ Range(pod[t].paths) \subseteq Range(pod[t].model.ops) \cap Here(t).hashes
  /\ \A o \in Range(pod[t].paths) : Here(t).opens[o] = 0
  /\ Distinct(pod[t].paths)
  /\ pod[t].paths # <<>> => Platform(t) = "torchscript"

ProcOps(p) ==
  /\ \A t \in Threads : process[p].lock = t => Proc(t) = p /\ pod[t].at \in Locking
  /\ \A o \in Ops :
       /\ process[p].opens[o] <= 1
       /\ process[p].opens[o] > 0 =>
            \/ o \in process[p].hashes
            \/ \E t \in Threads : process[p].lock = t /\ pod[t].at = "opened" /\ Op(t) = o
       /\ o \in OpsOf("tensorflow") \cap process[p].hashes => process[p].opens[o] > 0

OpsInv == /\ \A t \in Threads : ThreadOps(t)
          /\ \A p \in Procs : ProcOps(p)
          /\ \A t, u \in Threads : t # u /\ Proc(t) = Proc(u) =>
               Range(pod[t].paths) \cap Range(pod[u].paths) = {}

\* What a step leaves alone of the other processes, and of the Neuropods there.
LEMMA OtherProcs ==
  ASSUME OpsInv, NEW t \in Threads, Only(t)
  PROVE  /\ \A p \in Procs \ {Proc(t)} : ProcOps(p)'
         /\ \A u \in Threads \ {t} : Proc(u) # Proc(t) => ThreadOps(u)'
<1>1. \A u \in Threads \ {t} : Proc(u)' = Proc(u) /\ pod'[u] = pod[u]
  BY DEF Only, Proc
<1>2. ASSUME NEW p \in Procs \ {Proc(t)} PROVE ProcOps(p)'
  <2>1. process'[p] = process[p] /\ ProcOps(p)
    BY DEF Only, OpsInv
  <2>2. process[p].lock # t
    BY <2>1 DEF ProcOps
  <2> QED
    BY <1>1, <2>1, <2>2 DEF ProcOps, Op
<1>3. ASSUME NEW u \in Threads \ {t}, Proc(u) # Proc(t) PROVE ThreadOps(u)'
  <2>1. process'[Proc(u)] = process[Proc(u)] /\ ThreadOps(u)
    BY <1>3, ProcIsProc DEF Only, OpsInv
  <2> QED
    BY <1>1, <2>1 DEF ThreadOps, Here, Op, Platform, IsPython
<1> QED
  BY <1>2, <1>3

\* A step that opens and lists nothing, and may give up the lock.
Quiet(t) ==
  /\ \A p \in Procs : /\ process'[p].hashes = process[p].hashes
                      /\ process'[p].opens = process[p].opens
                      /\ process'[p].lock = IF process[p].lock = t THEN NoThread ELSE process[p].lock
  /\ pod[t].at # "opened" /\ pod'[t].at \notin Locking
  /\ pod'[t].at = "ops" /\ ~IsPython(pod'[t]) =>
       /\ Range(pod'[t].todo) \subseteq Range(pod'[t].model.ops)
       /\ Range(pod'[t].model.ops) \subseteq Range(pod'[t].todo) \cup Here(t)'.hashes
  /\ \/ pod'[t].paths = <<>>
     \/ pod'[t].paths = pod[t].paths /\ pod'[t].model = pod[t].model /\ pod'[t].ope = pod[t].ope

\* A quiet step keeps the invariant.
LEMMA QuietOps ==
  ASSUME OpsInv, NEW t \in Threads, Only(t), Quiet(t)
  PROVE  OpsInv'
<1>1. \A u \in Threads \ {t} : Proc(u)' = Proc(u) /\ pod'[u] = pod[u]
  BY DEF Only, Proc
<1>2. \A u \in Threads : Proc(u) \in Procs
  BY ProcIsProc
<1>3. NoThread \notin Threads
  BY ThreadAssumption
<1>4. ASSUME NEW p \in Procs PROVE ProcOps(p)'
  <2>1. ProcOps(p)
    BY DEF OpsInv
  <2> QED
    BY <1>1, <1>3, <2>1 DEF ProcOps, Quiet, Op
<1>5. ASSUME NEW u \in Threads \ {t} PROVE ThreadOps(u)'
  <2>1. ThreadOps(u)
    BY DEF OpsInv
  <2>2. /\ Here(u)'.hashes = Here(u).hashes /\ Here(u)'.opens = Here(u).opens
        /\ Here(u).lock = u => Here(u)'.lock = u
    BY <1>1, <1>2 DEF Here, Quiet
  <2> QED
    BY <1>1, <2>1, <2>2 DEF ThreadOps, Op, Platform, IsPython
<1>6. ThreadOps(t)'
  <2>1. CASE pod'[t].paths = <<>>
    BY <2>1, RangeOfEmpty DEF ThreadOps, Quiet, IsPython, Locking
  <2>2. CASE pod'[t].paths = pod[t].paths /\ pod'[t].model = pod[t].model /\ pod'[t].ope = pod[t].ope
    <3>1. Proc(t)' = Proc(t) /\ Platform(t)' = Platform(t)
      BY <2>2 DEF Proc, Platform
    <3>2. Here(t)'.hashes = Here(t).hashes /\ Here(t)'.opens = Here(t).opens
      BY <1>2, <3>1 DEF Here, Quiet
    <3>3. ThreadOps(t)
      BY DEF OpsInv
    <3> QED
      BY <2>2, <3>1, <3>2, <3>3 DEF ThreadOps, Quiet, IsPython, Locking
  <2> QED
    BY <2>1, <2>2 DEF Quiet
<1>7. ASSUME NEW u \in Threads, NEW v \in Threads, u # v, Proc(u)' = Proc(v)'
      PROVE  Range(pod'[u].paths) \cap Range(pod'[v].paths) = {}
  <2>1. CASE pod'[t].paths = <<>> /\ t \in {u, v}
    BY <2>1, RangeOfEmpty
  <2>2. CASE t \notin {u, v}
    BY <1>1, <1>7, <2>2 DEF OpsInv
  <2>3. CASE pod'[t].paths = pod[t].paths /\ pod'[t].ope = pod[t].ope
    <3>1. Proc(t)' = Proc(t)
      BY <2>3 DEF Proc
    <3> QED
      BY <1>1, <1>7, <2>3, <3>1 DEF OpsInv
  <2> QED
    BY <2>1, <2>2, <2>3 DEF Quiet
<1> QED
  BY <1>4, <1>5, <1>6, <1>7 DEF OpsInv

\* A worker ends.
LEMMA ResetOps ==
  ASSUME OpsInv, Shape, NEW t \in Threads, Only(t), pod[t].ope, pod'[t] = NoPod,
         process' = [process EXCEPT ![t] = NewProcess]
  PROVE  OpsInv'
<1>1. \A u \in Threads \ {t} : Proc(u) # Proc(t) /\ Proc(u)' = Proc(u) /\ pod'[u] = pod[u]
  BY OwnWorker DEF Only, Proc
<1>2. Proc(t) = t /\ t \in Procs /\ process'[t] = NewProcess
  BY DEF Proc, Procs, Shape
<1>3. ProcOps(t)'
  BY <1>2, ThreadAssumption DEF ProcOps, NewProcess
<1>4. /\ pod'[t].at = "none" /\ pod'[t].paths = <<>>
  BY DEF NoPod
<1>5. ThreadOps(t)'
  BY <1>4, RangeOfEmpty DEF ThreadOps, Locking
<1>6. ASSUME NEW u \in Threads, NEW v \in Threads, u # v, Proc(u)' = Proc(v)'
      PROVE  Range(pod'[u].paths) \cap Range(pod'[v].paths) = {}
  BY <1>1, <1>4, <1>6, RangeOfEmpty DEF OpsInv
<1> QED
  BY <1>1, <1>2, <1>3, <1>5, <1>6, OtherProcs DEF OpsInv

\* An error, or the end of a Neuropod, keeps it: its lock is given up.
LEMMA FailsOps ==
  ASSUME OpsInv, Shape, NEW t \in Threads, Fails(t) \/ End(t), pod[t].at # "opened"
  PROVE  OpsInv'
<1>0. /\ pod = [u \in Threads |-> pod[u]] /\ PodOK(pod[t]) /\ Only(t)
      /\ process \in [Procs -> ProcSet]
  BY FailsOK, EndOK DEF Shape, Only
<1>1. CASE End(t) /\ pod[t].ope
  BY <1>0, <1>1, ResetOps DEF End
<1>2. CASE process' = Unlocked(t)
  <2>1. /\ pod'[t].at \in {"none", "built"}
        /\ \/ pod'[t].paths = <<>>
           \/ pod'[t].paths = pod[t].paths /\ pod'[t].model = pod[t].model /\ pod'[t].ope = pod[t].ope
    <3>1. CASE End(t)
      BY <1>0, <3>1 DEF End, NoPod
    <3>2. CASE Fails(t) /\ Survives(t) /\ pod[t].ope
      <4>1. pod'[t] = [NoPod EXCEPT !.at = "built", !.ope = TRUE, !.model = pod[t].model,
                                    !.loads = pod[t].loads, !.overrides = pod[t].overrides]
        BY <1>0, <3>2 DEF Fails
      <4> QED
        BY <4>1 DEF NoPod
    <3>3. CASE Fails(t) /\ Survives(t) /\ ~pod[t].ope
      <4>1. pod'[t] = [pod[t] EXCEPT !.at = "built"]
        BY <1>0, <3>3 DEF Fails
      <4> QED
        BY <1>0, <4>1 DEF PodOK, RecOK
    <3> QED
      BY <3>1, <3>2, <3>3 DEF Fails
  <2>2. \A p \in Procs \ {Proc(t)} : process[p].lock # t
    BY DEF OpsInv, ProcOps
  <2>3. \A p \in Procs : process'[p].lock = IF process[p].lock = t THEN NoThread ELSE process[p].lock
    BY <1>0, <1>2, <2>2, ProcIsProc DEF Unlocked, ProcSet
  <2>4. Quiet(t)
    BY <1>2, <2>1, <2>3, UnlockedOK DEF Quiet, Locking
  <2> QED
    BY <1>0, <2>4, QuietOps
<1> QED
  BY <1>1, <1>2 DEF Fails, End

\* The op to load next is one of the model's.
LEMMA OpIsOfItsModel ==
  ASSUME Shape, NEW t \in Threads, pod[t].at \in Loading, pod[t].todo # <<>>,
         Range(pod[t].todo) \subseteq Range(pod[t].model.ops)
  PROVE  Op(t) \in OpsOf(Platform(t)) /\ Op(t) \in Range(pod[t].todo)
<1>1. pod[t].todo \in Seq(Ops) /\ pod[t].model \in Models
  BY PodFields DEF Shape, PodOK
<1>2. Op(t) \in Ops /\ Op(t) \in Range(pod[t].todo)
  BY <1>1, RangeOfTail DEF Op
<1> QED
  BY <1>1, <1>2 DEF OpsOf, Platform

\* An op that is about to be opened, or was just opened, is one of TensorFlow.
LEMMA LockedOp ==
  ASSUME Shape, NEW t \in Threads, LoadOK(pod[t]), ThreadOps(t), pod[t].at \in Locking
  PROVE  Op(t) \in OpsOf("tensorflow") /\ Op(t) \in Ops /\ ~IsPython(pod[t])
<1>1. Platform(t) = "tensorflow" /\ ~IsPython(pod[t])
  BY DEF LoadOK, Locking, IsTF, IsPython, Platform
<1>2. pod[t].at \in Loading /\ pod[t].todo # <<>>
  BY DEF Shape, PodOK, Locking, Loading
<1>3. Range(pod[t].todo) \subseteq Range(pod[t].model.ops)
  BY <1>1 DEF ThreadOps
<1>4. Op(t) \in OpsOf("tensorflow")
  BY <1>1, <1>2, <1>3, OpIsOfItsModel
<1> QED
  BY <1>1, <1>4 DEF OpsOf

\* What a step that changes the ops of a process has to show.
LEMMA OpsChange ==
  ASSUME OpsInv, NEW t \in Threads, Only(t), Proc(t)' = Proc(t),
         ProcOps(Proc(t))', ThreadOps(t)',
         \A u \in Threads \ {t} : Proc(u) = Proc(t) =>
           ThreadOps(u)' /\ Range(pod'[t].paths) \cap Range(pod[u].paths) = {}
  PROVE  OpsInv'
<1>1. \A u \in Threads \ {t} : Proc(u)' = Proc(u) /\ pod'[u] = pod[u]
  BY DEF Only, Proc
<1>2. \A u \in Threads : ThreadOps(u)'
  BY OtherProcs
<1>3. \A p \in Procs : ProcOps(p)'
  BY OtherProcs
<1>4. ASSUME NEW u \in Threads, NEW v \in Threads, u # v, Proc(u)' = Proc(v)'
      PROVE  Range(pod'[u].paths) \cap Range(pod'[v].paths) = {}
  <2>1. CASE u = t
    BY <1>1, <1>4, <2>1
  <2>2. CASE v = t
    BY <1>1, <1>4, <2>2
  <2>3. CASE t \notin {u, v}
    BY <1>1, <1>4, <2>3 DEF OpsInv
  <2> QED
    BY <2>1, <2>2, <2>3
<1> QED
  BY <1>2, <1>3, <1>4 DEF OpsInv

\* LockOps, of an op that is not listed.
LEMMA LockStep ==
  ASSUME OpsInv, Shape, NEW t \in Threads, Only(t), LockOps(t), Op(t) \notin Here(t).hashes
  PROVE  OpsInv'
<1>0. /\ pod = [u \in Threads |-> pod[u]] /\ PodOK(pod[t]) /\ process \in [Procs -> ProcSet]
      /\ Proc(t) \in Procs /\ ThreadOps(t) /\ ProcOps(Proc(t))
  BY ProcIsProc DEF Shape, OpsInv
<1>1. /\ pod' = [pod EXCEPT ![t].at = "locked", ![t].dirs = Unzipped(t)]
      /\ process' = [process EXCEPT ![Proc(t)].lock = t]
      /\ pod[t].at = "ops" /\ Platform(t) = "tensorflow" /\ Here(t).lock = NoThread
  BY DEF LockOps, At, CanLock
<1>2. pod'[t] = [pod[t] EXCEPT !.at = "locked", !.dirs = Unzipped(t)]
  BY <1>0, <1>1
<1>3. /\ pod'[t].at = "locked" /\ pod'[t].todo = pod[t].todo /\ pod'[t].paths = pod[t].paths
      /\ pod'[t].model = pod[t].model /\ pod'[t].ope = pod[t].ope
  BY <1>0, <1>2 DEF PodOK, RecOK
<1>4. Proc(t)' = Proc(t) /\ Op(t)' = Op(t) /\ Platform(t)' = Platform(t)
  BY <1>3 DEF Proc, Op, Platform
<1>5. /\ process'[Proc(t)].lock = t /\ process'[Proc(t)].hashes = process[Proc(t)].hashes
      /\ process'[Proc(t)].opens = process[Proc(t)].opens
  BY <1>0, <1>1 DEF ProcSet
<1>6. ThreadOps(t)'
  BY <1>0, <1>1, <1>3, <1>4, <1>5 DEF ThreadOps, Here, IsPython
<1>7. ProcOps(Proc(t))'
  BY <1>0, <1>1, <1>3, <1>4, <1>5, ThreadAssumption DEF ProcOps, Here, Locking
<1>8. ASSUME NEW u \in Threads \ {t}, Proc(u) = Proc(t)
      PROVE  ThreadOps(u)' /\ Range(pod'[t].paths) \cap Range(pod[u].paths) = {}
  <2>1. pod'[u] = pod[u] /\ Proc(u)' = Proc(u) /\ ThreadOps(u)
    BY DEF Only, Proc, OpsInv
  <2>2. pod[u].at \notin Locking
    BY <1>1, <1>8, <2>1, ThreadAssumption DEF ThreadOps, Here
  <2>3. ThreadOps(u)'
    BY <1>5, <1>8, <2>1, <2>2 DEF ThreadOps, Here, IsPython, Platform, Locking
  <2> QED
    BY <1>3, <1>8, <2>3 DEF OpsInv
<1> QED
  BY <1>4, <1>6, <1>7, <1>8, OpsChange

\* OpenOp, when dlopen succeeds: nobody had opened the op.
LEMMA OpenStep ==
  ASSUME OpsInv, Shape, NEW t \in Threads, Only(t), LoadOK(pod[t]), OpenOp(t), ~Fails(t)
  PROVE  OpsInv'
<1>0. /\ pod = [u \in Threads |-> pod[u]] /\ PodOK(pod[t]) /\ process \in [Procs -> ProcSet]
      /\ Proc(t) \in Procs /\ ThreadOps(t) /\ ProcOps(Proc(t))
  BY ProcIsProc DEF Shape, OpsInv
<1>1. /\ pod'[t] = [pod[t] EXCEPT !.at = "opened"] /\ pod[t].at = "locked"
      /\ process' = [process EXCEPT ![Proc(t)].opens[Op(t)] = @ + 1]
  BY <1>0 DEF OpenOp, Goto, At
<1>2. Op(t) \in Ops /\ Here(t).lock = t /\ Op(t) \notin Here(t).hashes
  BY <1>0, <1>1, LockedOp DEF ThreadOps, Locking
<1>3. /\ pod'[t].at = "opened" /\ pod'[t].todo = pod[t].todo /\ pod'[t].paths = pod[t].paths
      /\ pod'[t].model = pod[t].model /\ pod'[t].ope = pod[t].ope
  BY <1>0, <1>1 DEF PodOK, RecOK
<1>4. Proc(t)' = Proc(t) /\ Op(t)' = Op(t) /\ Platform(t)' = Platform(t)
  BY <1>3 DEF Proc, Op, Platform
<1>5. /\ process'[Proc(t)].lock = process[Proc(t)].lock
      /\ process'[Proc(t)].hashes = process[Proc(t)].hashes
      /\ process'[Proc(t)].opens = [process[Proc(t)].opens EXCEPT ![Op(t)] = @ + 1]
      /\ process[Proc(t)].opens \in [Ops -> Nat]
  BY <1>0, <1>1 DEF ProcSet
<1>6. Here(t).opens[Op(t)] = 0
  BY <1>0, <1>1, <1>2, <1>5 DEF ProcOps, Here
<1>7. /\ process'[Proc(t)].opens[Op(t)] = 1
      /\ \A o \in Ops \ {Op(t)} : process'[Proc(t)].opens[o] = process[Proc(t)].opens[o]
  BY <1>2, <1>5, <1>6 DEF Here
<1>8. \A u \in Threads : Proc(u) = Proc(t) =>
        \A o \in Range(pod[u].paths) : o \in Ops /\ o # Op(t)
  <2> SUFFICES ASSUME NEW u \in Threads, Proc(u) = Proc(t), NEW o \in Range(pod[u].paths)
               PROVE  o \in Ops /\ o # Op(t)
    OBVIOUS
  <2>1. o \in process[Proc(t)].hashes
    BY DEF OpsInv, ThreadOps, Here
  <2> QED
    BY <1>0, <1>2, <2>1 DEF Here, ProcSet
<1>9. ThreadOps(t)'
  BY <1>0, <1>1, <1>2, <1>3, <1>4, <1>5, <1>7, <1>8 DEF ThreadOps, Here, IsPython, Locking
<1>10. ProcOps(Proc(t))'
  <2>1. \A u \in Threads : process'[Proc(t)].lock = u => Proc(u)' = Proc(t) /\ pod'[u].at \in Locking
    BY <1>2, <1>3, <1>4, <1>5 DEF Here, Locking
  <2>2. ASSUME NEW o \in Ops
        PROVE  /\ process'[Proc(t)].opens[o] <= 1
               /\ process'[Proc(t)].opens[o] > 0 =>
                    \/ o \in process'[Proc(t)].hashes
                    \/ \E u \in Threads : process'[Proc(t)].lock = u /\ pod'[u].at = "opened" /\ Op(u)' = o
               /\ o \in OpsOf("tensorflow") \cap process'[Proc(t)].hashes => process'[Proc(t)].opens[o] > 0
    <3>1. CASE o = Op(t)
      BY <1>2, <1>3, <1>4, <1>5, <1>7, <3>1 DEF Here
    <3>2. CASE o # Op(t)
      BY <1>0, <1>1, <1>2, <1>5, <1>7, <3>2 DEF ProcOps, Here
    <3> QED
      BY <3>1, <3>2
  <2> QED
    BY <1>4, <2>1, <2>2 DEF ProcOps
<1>11. ASSUME NEW u \in Threads \ {t}, Proc(u) = Proc(t)
       PROVE  ThreadOps(u)' /\ Range(pod'[t].paths) \cap Range(pod[u].paths) = {}
  <2>1. pod'[u] = pod[u] /\ Proc(u)' = Proc(u) /\ ThreadOps(u)
    BY DEF Only, Proc, OpsInv
  <2>2. pod[u].at \notin Locking
    BY <1>2, <1>11, <2>1 DEF ThreadOps, Here
  <2>3. ThreadOps(u)'
    BY <1>5, <1>7, <1>8, <1>11, <2>1, <2>2 DEF ThreadOps, Here, IsPython, Platform, Locking
  <2> QED
    BY <1>3, <1>11, <2>3 DEF OpsInv
<1> QED
  BY <1>4, <1>9, <1>10, <1>11, OpsChange

\* ListOpened, which gives up the lock.
LEMMA ListOpenedStep ==
  ASSUME OpsInv, Shape, NEW t \in Threads, Only(t), LoadOK(pod[t]), ListOpened(t)
  PROVE  OpsInv'
<1>0. /\ pod = [u \in Threads |-> pod[u]] /\ PodOK(pod[t]) /\ process \in [Procs -> ProcSet]
      /\ Proc(t) \in Procs /\ ThreadOps(t) /\ ProcOps(Proc(t))
  BY ProcIsProc DEF Shape, OpsInv
<1>1. /\ pod[t].at = "opened"
      /\ pod' = [pod EXCEPT ![t].at = "ops", ![t].todo = Tail(@)]
      /\ process' = [process EXCEPT ![Proc(t)].hashes = @ \cup {Op(t)}, ![Proc(t)].lock = NoThread]
  BY DEF ListOpened, At
<1>2. /\ Op(t) \in Ops /\ Here(t).lock = t /\ Here(t).opens[Op(t)] > 0 /\ ~IsPython(pod[t])
      /\ pod[t].todo \in Seq(Ops) /\ pod[t].todo # <<>>
  BY <1>0, <1>1, LockedOp DEF ThreadOps, Locking, PodOK, Loading
<1>3. pod'[t] = [pod[t] EXCEPT !.at = "ops", !.todo = Tail(@)]
  BY <1>0, <1>1
<1>4. /\ pod'[t].at = "ops" /\ pod'[t].todo = Tail(pod[t].todo) /\ pod'[t].paths = pod[t].paths
      /\ pod'[t].model = pod[t].model /\ pod'[t].ope = pod[t].ope
  BY <1>0, <1>3 DEF PodOK, RecOK
<1>5. Proc(t)' = Proc(t) /\ Platform(t)' = Platform(t)
  BY <1>4 DEF Proc, Platform
<1>6. /\ process'[Proc(t)].lock = NoThread
      /\ process'[Proc(t)].hashes = process[Proc(t)].hashes \cup {Op(t)}
      /\ process'[Proc(t)].opens = process[Proc(t)].opens
  BY <1>0, <1>1 DEF ProcSet
<1>7. ThreadOps(t)'
  <2>1. Range(pod[t].todo) = {Op(t)} \cup Range(pod'[t].todo)
    BY <1>2, <1>4, RangeOfTail DEF Op
  <2>2. /\ Range(pod'[t].todo) \subseteq Range(pod'[t].model.ops)
        /\ Range(pod'[t].model.ops) \subseteq Range(pod'[t].todo) \cup Here(t)'.hashes
    BY <1>0, <1>1, <1>2, <1>4, <1>5, <1>6, <2>1 DEF ThreadOps, Here, Locking
  <2> QED
    BY <1>0, <1>4, <1>5, <1>6, <2>2 DEF ThreadOps, Here, Locking
<1>8. ProcOps(Proc(t))'
  BY <1>0, <1>2, <1>5, <1>6, ThreadAssumption DEF ProcOps, Here
<1>9. ASSUME NEW u \in Threads \ {t}, Proc(u) = Proc(t)
      PROVE  ThreadOps(u)' /\ Range(pod'[t].paths) \cap Range(pod[u].paths) = {}
  <2>1. pod'[u] = pod[u] /\ Proc(u)' = Proc(u) /\ ThreadOps(u)
    BY DEF Only, Proc, OpsInv
  <2>2. pod[u].at \notin Locking
    BY <1>2, <1>9, <2>1 DEF ThreadOps, Here
  <2>3. ThreadOps(u)'
    BY <1>6, <1>9, <2>1, <2>2 DEF ThreadOps, Here, IsPython, Platform, Locking
  <2> QED
    BY <1>4, <1>9, <2>3 DEF OpsInv
<1> QED
  BY <1>5, <1>7, <1>8, <1>9, OpsChange

\* TorchScript lists an op that it will open.
LEMMA ListStep ==
  ASSUME OpsInv, Shape, NEW t \in Threads, Only(t), \A u \in Threads : LoadOK(pod[u]),
         ListOp(t), Op(t) \notin Here(t).hashes
  PROVE  OpsInv'
<1>0. /\ pod = [u \in Threads |-> pod[u]] /\ PodOK(pod[t]) /\ process \in [Procs -> ProcSet]
      /\ Proc(t) \in Procs /\ ThreadOps(t) /\ ProcOps(Proc(t))
  BY ProcIsProc DEF Shape, OpsInv
<1>1. /\ pod[t].at = "ops" /\ Platform(t) = "torchscript" /\ pod[t].todo # <<>>
      /\ pod' = [pod EXCEPT ![t].todo = Tail(@), ![t].paths = Append(@, Op(t)), ![t].dirs = Unzipped(t)]
      /\ process' = [process EXCEPT ![Proc(t)].hashes = @ \cup {Op(t)}]
  BY DEF ListOp, At
<1>2. ~IsPython(pod[t]) /\ pod[t].todo \in Seq(Ops) /\ pod[t].paths \in Seq(Ops)
  BY <1>0, <1>1, PodFields DEF PodOK, Loading, IsPython, Platform
<1>3. Op(t) \in OpsOf("torchscript") /\ Op(t) \in Ops /\ Op(t) \in Range(pod[t].model.ops)
  BY <1>0, <1>1, <1>2, OpIsOfItsModel DEF ThreadOps, Loading, OpsOf
<1>4. pod'[t] = [pod[t] EXCEPT !.todo = Tail(pod[t].todo), !.paths = Append(pod[t].paths, Op(t)),
                               !.dirs = Unzipped(t)]
  BY <1>0, <1>1
<1>5. /\ pod'[t].at = "ops" /\ pod'[t].todo = Tail(pod[t].todo)
      /\ pod'[t].paths = Append(pod[t].paths, Op(t))
      /\ pod'[t].model = pod[t].model /\ pod'[t].ope = pod[t].ope
  BY <1>0, <1>1, <1>4 DEF PodOK, RecOK
<1>6. Proc(t)' = Proc(t) /\ Platform(t)' = Platform(t)
  BY <1>5 DEF Proc, Platform
<1>7. /\ process'[Proc(t)].lock = process[Proc(t)].lock
      /\ process'[Proc(t)].hashes = process[Proc(t)].hashes \cup {Op(t)}
      /\ process'[Proc(t)].opens = process[Proc(t)].opens
      /\ process[Proc(t)].opens \in [Ops -> Nat]
  BY <1>0, <1>1 DEF ProcSet
<1>8. \A u \in Threads : pod[u].at \in Locking => Op(u) # Op(t)
  BY <1>3, LockedOp, OpsAreApart DEF OpsInv
<1>9. Here(t).opens[Op(t)] = 0
  <2>1. ~(Here(t).opens[Op(t)] > 0)
    BY <1>0, <1>3, <1>8 DEF ProcOps, Here, Locking
  <2> QED
    BY <1>3, <1>7, <2>1 DEF Here
<1>10. Range(pod'[t].paths) = Range(pod[t].paths) \cup {Op(t)} /\ Distinct(pod'[t].paths)
  <2>1. Op(t) \notin Range(pod[t].paths)
    BY <1>0 DEF ThreadOps
  <2>2. Distinct(pod[t].paths)
    BY <1>0 DEF ThreadOps
  <2> QED
    BY <1>2, <1>3, <1>5, <2>1, <2>2, RangeOfAppend
<1>11. ThreadOps(t)'
  <2>1. Range(pod[t].todo) = {Op(t)} \cup Range(pod'[t].todo)
    BY <1>1, <1>2, <1>5, RangeOfTail DEF Op
  <2>2. /\ Range(pod'[t].todo) \subseteq Range(pod'[t].model.ops)
        /\ Range(pod'[t].model.ops) \subseteq Range(pod'[t].todo) \cup Here(t)'.hashes
    BY <1>0, <1>1, <1>2, <1>5, <1>6, <1>7, <2>1 DEF ThreadOps, Here
  <2>3. /\ Range(pod'[t].paths) \subseteq Range(pod'[t].model.ops) \cap Here(t)'.hashes
        /\ \A o \in Range(pod'[t].paths) : Here(t)'.opens[o] = 0
    BY <1>0, <1>3, <1>5, <1>6, <1>7, <1>9, <1>10 DEF ThreadOps, Here
  <2> QED
    BY <1>1, <1>5, <1>6, <1>10, <2>2, <2>3 DEF ThreadOps, Locking
<1>12. ProcOps(Proc(t))'
  <2>1. \A u \in Threads : pod[u].at \in Locking => pod'[u] = pod[u] /\ Op(u)' = Op(u) /\ Proc(u)' = Proc(u)
    BY <1>1 DEF Only, Locking, Op, Proc
  <2>2. Op(t) \notin OpsOf("tensorflow")
    BY <1>3, OpsAreApart
  <2> QED
    BY <1>0, <1>6, <1>7, <2>1, <2>2 DEF ProcOps, Locking
<1>13. ASSUME NEW u \in Threads \ {t}, Proc(u) = Proc(t)
       PROVE  ThreadOps(u)' /\ Range(pod'[t].paths) \cap Range(pod[u].paths) = {}
  <2>1. pod'[u] = pod[u] /\ Proc(u)' = Proc(u) /\ Op(u)' = Op(u) /\ ThreadOps(u)
    BY DEF Only, Proc, Op, OpsInv
  <2>2. ThreadOps(u)'
    BY <1>7, <1>8, <1>13, <2>1 DEF ThreadOps, Here, IsPython, Platform
  <2>3. Op(t) \notin Range(pod[u].paths)
    BY <1>13, <2>1 DEF ThreadOps, Here
  <2> QED
    BY <1>10, <1>13, <2>2, <2>3 DEF OpsInv
<1> QED
  BY <1>6, <1>11, <1>12, <1>13, OpsChange

\* OpenListed, when dlopen succeeds: nobody else has the op among its paths.
LEMMA OpenListedStep ==
  ASSUME OpsInv, Shape, NEW t \in Threads, Only(t), \A u \in Threads : LoadOK(pod[u]),
         OpenListed(t), ~Fails(t)
  PROVE  OpsInv'
<1>0. /\ pod = [u \in Threads |-> pod[u]] /\ PodOK(pod[t]) /\ process \in [Procs -> ProcSet]
      /\ Proc(t) \in Procs /\ ThreadOps(t) /\ ProcOps(Proc(t))
  BY ProcIsProc DEF Shape, OpsInv
<1>1. /\ pod[t].at = "ops" /\ pod[t].paths # <<>> /\ pod[t].paths \in Seq(Ops)
      /\ pod'[t] = [pod[t] EXCEPT !.paths = Tail(@)]
      /\ process' = [process EXCEPT ![Proc(t)].opens[Head(pod[t].paths)] = @ + 1]
  BY <1>0, PodFields DEF OpenListed, At
<1> DEFINE op == Head(pod[t].paths)
<1>2. Range(pod[t].paths) = {op} \cup Range(Tail(pod[t].paths)) /\ op \notin Range(Tail(pod[t].paths))
      /\ Distinct(Tail(pod[t].paths))
  BY <1>0, <1>1, RangeOfTail DEF ThreadOps
<1>3. op \in Ops /\ op \in Here(t).hashes /\ Here(t).opens[op] = 0
  BY <1>0, <1>1, <1>2 DEF ThreadOps
<1>4. /\ pod'[t].at = "ops" /\ pod'[t].todo = pod[t].todo /\ pod'[t].paths = Tail(pod[t].paths)
      /\ pod'[t].model = pod[t].model /\ pod'[t].ope = pod[t].ope
  BY <1>0, <1>1 DEF PodOK, RecOK
<1>5. Proc(t)' = Proc(t) /\ Platform(t)' = Platform(t)
  BY <1>4 DEF Proc, Platform
<1>6. /\ process'[Proc(t)].lock = process[Proc(t)].lock
      /\ process'[Proc(t)].hashes = process[Proc(t)].hashes
      /\ process'[Proc(t)].opens = [process[Proc(t)].opens EXCEPT ![op] = @ + 1]
      /\ process[Proc(t)].opens \in [Ops -> Nat]
      /\ process[Proc(t)].hashes \subseteq Ops
  BY <1>0, <1>1 DEF ProcSet
<1>7. /\ process'[Proc(t)].opens[op] = 1
      /\ \A o \in Ops \ {op} : process'[Proc(t)].opens[o] = process[Proc(t)].opens[o]
  BY <1>3, <1>6 DEF Here
<1> HIDE DEF op
<1>8. ThreadOps(t)'
  BY <1>0, <1>1, <1>2, <1>4, <1>5, <1>6, <1>7 DEF ThreadOps, Here, IsPython, Locking
<1>9. ProcOps(Proc(t))'
  <2>1. \A u \in Threads : pod[u].at \in Locking => pod'[u] = pod[u] /\ Op(u)' = Op(u) /\ Proc(u)' = Proc(u)
    BY <1>1 DEF Only, Locking, Op, Proc
  <2>2. ASSUME NEW o \in Ops
        PROVE  /\ process'[Proc(t)].opens[o] <= 1
               /\ process'[Proc(t)].opens[o] > 0 =>
                    \/ o \in process'[Proc(t)].hashes
                    \/ \E u \in Threads : process'[Proc(t)].lock = u /\ pod'[u].at = "opened" /\ Op(u)' = o
               /\ o \in OpsOf("tensorflow") \cap process'[Proc(t)].hashes => process'[Proc(t)].opens[o] > 0
    <3>1. CASE o = op
      BY <1>3, <1>6, <1>7, <3>1 DEF Here
    <3>2. CASE o # op
      BY <1>0, <1>6, <1>7, <2>1, <3>2 DEF ProcOps, Here, Locking
    <3> QED
      BY <3>1, <3>2
  <2>3. \A u \in Threads : process'[Proc(t)].lock = u => Proc(u)' = Proc(t) /\ pod'[u].at \in Locking
    BY <1>0, <1>6, <2>1 DEF ProcOps
  <2> QED
    BY <1>5, <2>2, <2>3 DEF ProcOps
<1>10. ASSUME NEW u \in Threads \ {t}, Proc(u) = Proc(t)
       PROVE  ThreadOps(u)' /\ Range(pod'[t].paths) \cap Range(pod[u].paths) = {}
  <2>1. pod'[u] = pod[u] /\ Proc(u)' = Proc(u) /\ Op(u)' = Op(u) /\ ThreadOps(u)
    BY DEF Only, Proc, Op, OpsInv
  <2>2. Range(pod[t].paths) \cap Range(pod[u].paths) = {}
    BY <1>10 DEF OpsInv
  <2>3. \A o \in Range(pod[u].paths) : o \in Ops /\ o # op
    BY <1>2, <1>6, <1>10, <2>1, <2>2 DEF ThreadOps, Here
  <2>4. \A o \in Ops : process[Proc(t)].opens[o] > 0 => process'[Proc(t)].opens[o] > 0
    BY <1>7
  <2>5. pod[u].at = "opened" => process'[Proc(t)].opens[Op(u)] > 0
    BY <1>10, <2>1, <2>4, LockedOp DEF ThreadOps, Here, Locking
  <2>6. ThreadOps(u)'
    <3>1. \A o \in Range(pod[u].paths) : process'[Proc(t)].opens[o] = 0
      BY <1>7, <1>10, <2>1, <2>3 DEF ThreadOps, Here
    <3>2. Here(u)' = process'[Proc(t)] /\ Here(u) = process[Proc(t)]
      BY <1>10, <2>1 DEF Here
    <3> QED
      BY <1>6, <2>1, <2>5, <3>1, <3>2 DEF ThreadOps, IsPython, Platform
  <2> QED
    BY <1>2, <1>4, <2>2, <2>6
<1> QED
  BY <1>5, <1>8, <1>9, <1>10, OpsChange

\* A step that changes no op, by a Neuropod that has not the lock.
Same(p) == /\ process'[p].hashes = process[p].hashes /\ process'[p].opens = process[p].opens
           /\ process'[p].lock = process[p].lock

\* A Neuropod without the lock takes a step that changes no op.
LEMMA QuietIf ==
  ASSUME OpsInv, NEW t \in Threads, Only(t), \A p \in Procs : Same(p),
         pod[t].at \notin Locking, pod'[t].at \notin Locking,
         pod'[t].at = "ops" /\ ~IsPython(pod'[t]) =>
           /\ Range(pod'[t].todo) \subseteq Range(pod'[t].model.ops)
           /\ Range(pod'[t].model.ops) \subseteq Range(pod'[t].todo) \cup Here(t)'.hashes,
         \/ pod'[t].paths = <<>>
         \/ pod'[t].paths = pod[t].paths /\ pod'[t].model = pod[t].model /\ pod'[t].ope = pod[t].ope
  PROVE  OpsInv'
<1>1. \A p \in Procs : process[p].lock # t
  BY DEF OpsInv, ProcOps
<1>2. Quiet(t)
  BY <1>1 DEF Quiet, Same, Locking
<1> QED
  BY <1>2, QuietOps

\* The lookups and the parsing of a graph.
LEMMA QuietActions ==
  ASSUME OpsInv, Shape, NEW t \in Threads, Only(t), ~Fails(t),
         \/ Find(t) \/ Check(t) \/ Open(t) \/ Insert(t) \/ Refind(t)
         \/ LoadGraph(t) \/ MapNodes(t) \/ RunInitOps(t) \/ LoadPython(t) \/ PythonLoads(t)
  PROVE  OpsInv'
<1>0. /\ PodOK(pod[t]) /\ pod = [u \in Threads |-> pod[u]] /\ process \in [Procs -> ProcSet]
      /\ Proc(t) \in Procs /\ Only(t)
  BY ProcIsProc DEF Shape
<1>1. CASE Find(t)
  <2>1. /\ pod[t].at \notin Locking /\ pod'[t].at \notin {"ops"} \cup Locking
        /\ pod'[t].paths = pod[t].paths /\ pod'[t].model = pod[t].model /\ pod'[t].ope = pod[t].ope
    <3>1. PICK a \in {"construct", "check"}, l \in Seen(t) \cup {NoLib} :
            pod'[t] = [pod[t] EXCEPT !.at = a, !.lib = l]
      BY <1>0, <1>1 DEF Find
    <3> QED
      BY <1>0, <1>1, <3>1 DEF Find, At, PodOK, RecOK, Locking
  <2>2. \A p \in Procs : Same(p)
    BY <1>0, <1>1 DEF Find, At, Same, ProcSet
  <2> QED
    BY <1>0, <2>1, <2>2, QuietIf
<1>2. CASE Check(t)
  <2>1. /\ pod[t].at \notin Locking /\ pod'[t].at \notin {"ops"} \cup Locking
        /\ pod'[t].paths = pod[t].paths /\ pod'[t].model = pod[t].model /\ pod'[t].ope = pod[t].ope
    BY <1>0, <1>2 DEF Check, At, Same, PodOK, RecOK, Locking
  <2>2. \A p \in Procs : Same(p)
    BY <1>0, <1>2 DEF Check, At, Same, ProcSet
  <2> QED
    BY <1>0, <2>1, <2>2, QuietIf
<1>3. CASE Open(t)
  <2>1. /\ pod[t].at \notin Locking /\ pod'[t].at \notin {"ops"} \cup Locking
        /\ pod'[t].paths = pod[t].paths /\ pod'[t].model = pod[t].model /\ pod'[t].ope = pod[t].ope
    BY <1>0, <1>3 DEF Open, At, Same, PodOK, RecOK, Locking
  <2>2. \A p \in Procs : Same(p)
    <3>1. PICK path \in Libs : process' = [process EXCEPT ![Proc(t)].mapped = @ \cup {path}]
      BY <1>3 DEF Open
    <3> QED
      BY <1>0, <3>1 DEF Same, ProcSet
  <2> QED
    BY <1>0, <2>1, <2>2, QuietIf
<1>4. CASE Insert(t)
  <2>1. /\ pod[t].at \notin Locking /\ pod'[t].at \notin {"ops"} \cup Locking
        /\ pod'[t].paths = pod[t].paths /\ pod'[t].model = pod[t].model /\ pod'[t].ope = pod[t].ope
    BY <1>0, <1>4 DEF Insert, Goto, At, Same, PodOK, RecOK, Locking
  <2>2. \A p \in Procs : Same(p)
    BY <1>0, <1>4 DEF Insert, Goto, At, Same, ProcSet
  <2> QED
    BY <1>0, <2>1, <2>2, QuietIf
<1>5. CASE Refind(t)
  <2>1. /\ pod[t].at \notin Locking /\ pod'[t].at \notin {"ops"} \cup Locking
        /\ pod'[t].paths = pod[t].paths /\ pod'[t].model = pod[t].model /\ pod'[t].ope = pod[t].ope
    <3>1. PICK l \in Seen(t) : pod'[t] = [pod[t] EXCEPT !.at = "construct", !.lib = l]
      BY <1>0, <1>5 DEF Refind
    <3> QED
      BY <1>0, <1>5, <3>1 DEF Refind, At, PodOK, RecOK, Locking
  <2>2. \A p \in Procs : Same(p)
    BY <1>0, <1>5 DEF Refind, At, Same, ProcSet
  <2> QED
    BY <1>0, <2>1, <2>2, QuietIf
<1>6. CASE LoadGraph(t)
  <2>1. /\ pod[t].at \notin Locking /\ pod'[t].at \notin {"ops"} \cup Locking
        /\ pod'[t].paths = pod[t].paths /\ pod'[t].model = pod[t].model /\ pod'[t].ope = pod[t].ope
    <3>1. \/ pod'[t] = [pod[t] EXCEPT !.at = "mapping", !.created = TRUE]
          \/ pod'[t] = [pod[t] EXCEPT !.at = "ready", !.listed = pod[t].listed + 1]
      BY <1>0, <1>6 DEF LoadGraph
    <3>2. pod[t].at = "ops"
      BY <1>6 DEF LoadGraph, Parses
    <3> QED
      BY <1>0, <3>1, <3>2 DEF PodOK, RecOK, Locking
  <2>2. \A p \in Procs : Same(p)
    BY <1>0, <1>6 DEF LoadGraph, Parses, Same, ProcSet
  <2> QED
    BY <1>0, <2>1, <2>2, QuietIf
<1>7. CASE MapNodes(t)
  <2>1. /\ pod[t].at \notin Locking /\ pod'[t].at \notin {"ops"} \cup Locking
        /\ pod'[t].paths = pod[t].paths /\ pod'[t].model = pod[t].model /\ pod'[t].ope = pod[t].ope
    BY <1>0, <1>7 DEF MapNodes, At, Same, PodOK, RecOK, Locking
  <2>2. \A p \in Procs : Same(p)
    BY <1>0, <1>7 DEF MapNodes, At, Same, ProcSet
  <2> QED
    BY <1>0, <2>1, <2>2, QuietIf
<1>8. CASE RunInitOps(t)
  <2>1. /\ pod[t].at \notin Locking /\ pod'[t].at \notin {"ops"} \cup Locking
        /\ pod'[t].paths = pod[t].paths /\ pod'[t].model = pod[t].model /\ pod'[t].ope = pod[t].ope
    BY <1>0, <1>8 DEF RunInitOps, Goto, At, Same, PodOK, RecOK, Locking
  <2>2. \A p \in Procs : Same(p)
    BY <1>0, <1>8 DEF RunInitOps, Goto, At, Same, ProcSet
  <2> QED
    BY <1>0, <2>1, <2>2, QuietIf
<1>9. CASE LoadPython(t)
  <2>1. /\ pod[t].at \notin Locking /\ pod'[t].at \notin {"ops"} \cup Locking
        /\ pod'[t].paths = pod[t].paths /\ pod'[t].model = pod[t].model /\ pod'[t].ope = pod[t].ope
    BY <1>0, <1>9 DEF LoadPython, At, Same, PodOK, RecOK, Locking
  <2>2. \A p \in Procs : Same(p)
    BY <1>0, <1>9 DEF LoadPython, At, Same, ProcSet
  <2> QED
    BY <1>0, <2>1, <2>2, QuietIf
<1>10. CASE PythonLoads(t)
  <2>1. /\ pod[t].at \notin Locking /\ pod'[t].at \notin {"ops"} \cup Locking
        /\ pod'[t].paths = pod[t].paths /\ pod'[t].model = pod[t].model /\ pod'[t].ope = pod[t].ope
    BY <1>0, <1>10 DEF PythonLoads, Goto, At, Same, PodOK, RecOK, Locking
  <2>2. \A p \in Procs : Same(p)
    BY <1>0, <1>10 DEF PythonLoads, Goto, At, Same, ProcSet
  <2> QED
    BY <1>0, <2>1, <2>2, QuietIf
<1> QED
  BY <1>1, <1>2, <1>3, <1>4, <1>5, <1>6, <1>7, <1>8, <1>9, <1>10

\* Every step keeps the invariant.
LEMMA OpsStep ==
  ASSUME OpsInv, LInv, NEW t \in Threads, Doing(t)
  PROVE  OpsInv'
<1>0. /\ PodOK(pod[t]) /\ pod = [u \in Threads |-> pod[u]] /\ process \in [Procs -> ProcSet]
      /\ Proc(t) \in Procs /\ Only(t) /\ Shape /\ \A u \in Threads : LoadOK(pod[u])
  BY ShapeStep, ProcIsProc DEF LInv, Shape
<1>1. CASE \/ Find(t) \/ Check(t) \/ Open(t) \/ Insert(t) \/ Refind(t)
           \/ LoadGraph(t) \/ MapNodes(t) \/ RunInitOps(t) \/ LoadPython(t) \/ PythonLoads(t)
  <2>1. pod[t].at # "opened"
    BY <1>1 DEF Find, Check, Open, Insert, Refind, LoadGraph, Parses, MapNodes, RunInitOps,
                LoadPython, PythonLoads, At
  <2> QED
    BY <1>0, <1>1, <2>1, FailsOps, QuietActions
<1>2. CASE New(t)
  <2>0. PICK m \in Models, ope \in BOOLEAN, eager \in BOOLEAN, o \in Overrides :
          pod' = [pod EXCEPT ![t] = [NoPod EXCEPT !.at = IF ope /\ ~eager THEN "built" ELSE "find",
                                       !.model = m, !.ope = ope, !.eager = eager, !.overrides = o]]
    BY <1>2 DEF New
  <2>1. pod'[t] = [NoPod EXCEPT !.at = IF ope /\ ~eager THEN "built" ELSE "find",
                     !.model = m, !.ope = ope, !.eager = eager, !.overrides = o]
    BY <1>0, <2>0
  <2>2. pod'[t].at = (IF ope /\ ~eager THEN "built" ELSE "find") /\ pod'[t].paths = <<>>
    BY <2>1 DEF NoPod
  <2>3. pod'[t].at \in {"built", "find"}
    BY <2>2
  <2>4. pod[t].at = "none" /\ process' = process
    BY <1>2 DEF New, At
  <2> QED
    BY <1>0, <2>2, <2>3, <2>4, QuietIf DEF Locking, Same
<1>3. CASE LoadModel(t) \/ Construct(t)
  <2>1. \/ pod'[t] = [[pod[t] EXCEPT !.at = "find"] EXCEPT !.loads = @ + 1]
        \/ pod'[t] = [StartLoad(t) EXCEPT !.loads = @ + 1]
        \/ pod'[t] = StartLoad(t)
        \/ pod'[t] = [pod[t] EXCEPT !.at = "built"]
    BY <1>0, <1>3 DEF LoadModel, Construct
  <2>2. /\ \/ pod'[t].at \in {"find", "built"} /\ pod'[t].paths = pod[t].paths
           \/ pod'[t].at = "ops" /\ pod'[t].todo = pod'[t].model.ops /\ pod'[t].paths = <<>>
        /\ pod'[t].model = pod[t].model /\ pod'[t].ope = pod[t].ope
    BY <1>0, <2>1 DEF StartLoad, PodOK, RecOK
  <2>3. pod[t].at \notin Locking /\ process' = process
    BY <1>3 DEF LoadModel, Construct, At, Locking
  <2> QED
    BY <1>0, <2>2, <2>3, QuietIf DEF Locking, Same
<1>4. CASE Destroy(t)
  BY <1>0, <1>4, FailsOps DEF Destroy, At
<1>5. CASE (LockOps(t) \/ ListOp(t)) /\ Op(t) \in Here(t).hashes
  <2>1. /\ pod[t].at = "ops" /\ pod[t].todo # <<>> /\ pod'[t] = [pod[t] EXCEPT !.todo = Tail(@)]
        /\ ~IsPython(pod[t]) /\ pod[t].todo \in Seq(Ops)
    BY <1>0, <1>5 DEF LockOps, ListOp, At, Platform, IsPython, PodOK, Loading
  <2>2. /\ pod'[t].at = "ops" /\ pod'[t].todo = Tail(pod[t].todo) /\ pod'[t].paths = pod[t].paths
        /\ pod'[t].model = pod[t].model /\ pod'[t].ope = pod[t].ope
    BY <1>0, <2>1 DEF PodOK, RecOK
  <2>3. \A p \in Procs : Same(p)
    <3>1. process' = process \/ process' = [process EXCEPT ![Proc(t)].hashes = @ \cup {Op(t)}]
      BY <1>5 DEF LockOps, ListOp
    <3>2. process[Proc(t)].hashes \cup {Op(t)} = process[Proc(t)].hashes
      BY <1>5 DEF Here
    <3>3. CASE process' = process
      BY <3>3 DEF Same
    <3>4. CASE process' = [process EXCEPT ![Proc(t)].hashes = @ \cup {Op(t)}]
      <4>1. /\ process'[Proc(t)].hashes = process[Proc(t)].hashes
            /\ process'[Proc(t)].opens = process[Proc(t)].opens
            /\ process'[Proc(t)].lock = process[Proc(t)].lock
        BY <1>0, <3>2, <3>4 DEF ProcSet
      <4> QED
        BY <1>0, <4>1 DEF Same, Only
    <3> QED
      BY <3>1, <3>3, <3>4
  <2>4. Range(pod[t].todo) = {Op(t)} \cup Range(pod'[t].todo) /\ ThreadOps(t)
    BY <2>1, <2>2, RangeOfTail DEF Op, OpsInv
  <2>5. /\ Range(pod'[t].todo) \subseteq Range(pod'[t].model.ops)
        /\ Range(pod'[t].model.ops) \subseteq Range(pod'[t].todo) \cup Here(t)'.hashes
    <3>1. Here(t)'.hashes = Here(t).hashes
      BY <1>0, <2>2, <2>3 DEF Here, Proc, Same
    <3> QED
      BY <1>5, <2>1, <2>2, <2>4, <3>1 DEF ThreadOps
  <2> QED
    BY <1>0, <2>1, <2>2, <2>3, <2>5, QuietIf DEF Locking
<1>6. CASE (LockOps(t) \/ ListOp(t)) /\ Op(t) \notin Here(t).hashes
  BY <1>0, <1>6, LockStep, ListStep
<1>7. CASE OpenOp(t)
  BY <1>0, <1>7, OpenStep, FailsOps DEF OpenOp, At
<1>8. CASE ListOpened(t)
  BY <1>0, <1>8, ListOpenedStep
<1>9. CASE OpenListed(t)
  BY <1>0, <1>9, OpenListedStep, FailsOps DEF OpenListed, At
<1> QED
  BY <1>1, <1>2, <1>3, <1>4, <1>5, <1>6, <1>7, <1>8, <1>9 DEF Doing, Step

\* The invariant implies the property.
LEMMA OpsHold == LInv /\ OpsInv => OpsAreOpenOnce
<1> SUFFICES ASSUME LInv, OpsInv PROVE OpsAreOpenOnce
  OBVIOUS
<1>1. ASSUME NEW t \in Threads, Parses(t), Platform(t) = "tensorflow"
      PROVE  OpsOpen(t)
  <2>1. PodOK(pod[t]) /\ ThreadOps(t) /\ ProcOps(Proc(t)) /\ ~IsPython(pod[t])
    BY <1>1, ProcIsProc DEF LInv, Shape, OpsInv, IsPython, Platform
  <2>2. Range(pod[t].model.ops) \subseteq Here(t).hashes
    BY <1>1, <2>1, RangeOfEmpty DEF ThreadOps, Parses
  <2>3. ASSUME NEW k \in DOMAIN pod[t].model.ops
        PROVE  Here(t).opens[pod[t].model.ops[k]] > 0
    <3>1. pod[t].model.ops[k] \in Range(pod[t].model.ops) /\ pod[t].model.ops[k] \in Ops
      BY <2>1, PodFields DEF Range
    <3>2. pod[t].model.ops[k] \in OpsOf("tensorflow")
      BY <1>1, <2>1, <3>1, PodFields DEF OpsOf, Platform
    <3> QED
      BY <2>1, <2>2, <3>1, <3>2 DEF ProcOps, Here
  <2> QED
    BY <2>3 DEF OpsOpen
<1>2. \A p \in Procs, o \in Ops : process[p].opens[o] <= 1
  BY DEF OpsInv, ProcOps
<1> QED
  BY <1>1, <1>2 DEF OpsAreOpenOnce, OpsAreOpen

\* OpsAreOpenOnce, in every state: however many threads load models, and whichever
\* ops cannot be opened, a TensorFlow graph is parsed when its ops are open, and no
\* process opens an op twice.
THEOREM OpsAreAlwaysOpenOnce == Spec => []OpsAreOpenOnce
<1>1. Init => OpsInv
  <2> SUFFICES ASSUME Init PROVE OpsInv
    OBVIOUS
  <2>1. \A t \in Threads : pod[t].at = "none" /\ pod[t].paths = <<>>
    BY DEF Init, NoPod
  <2>2. \A p \in Procs : /\ process[p].lock = NoThread /\ process[p].hashes = {}
                         /\ \A o \in Ops : process[p].opens[o] = 0
    BY DEF Init, NewProcess
  <2>3. \A t \in Threads : ThreadOps(t)
    BY <2>1, RangeOfEmpty DEF ThreadOps, Locking
  <2>4. \A p \in Procs : ProcOps(p)
    BY <2>2, ThreadAssumption DEF ProcOps
  <2> QED
    BY <2>1, <2>3, <2>4, RangeOfEmpty DEF OpsInv
<1>2. LInv /\ OpsInv /\ [Next]_vars => OpsInv'
  <2> SUFFICES ASSUME LInv, OpsInv, [Next]_vars PROVE OpsInv'
    OBVIOUS
  <2>1. CASE Next
    BY <2>1, StepDone, OpsStep
  <2>2. CASE UNCHANGED vars
    <3>1. process' = process /\ pod' = pod
      BY <2>2 DEF vars
    <3>2. \A t \in Threads : ThreadOps(t)'
      <4> SUFFICES ASSUME NEW t \in Threads PROVE ThreadOps(t)'
        OBVIOUS
      <4>1. /\ Here(t)' = Here(t) /\ Op(t)' = Op(t) /\ Platform(t)' = Platform(t)
            /\ pod'[t] = pod[t] /\ ThreadOps(t)
        BY <3>1 DEF OpsInv, Here, Proc, Op, Platform
      <4> QED
        BY <4>1 DEF ThreadOps, IsPython
    <3>3. \A p \in Procs : ProcOps(p)'
      BY <3>1 DEF OpsInv, ProcOps, Proc, Op
    <3> QED
      BY <3>1, <3>2, <3>3 DEF OpsInv, Proc
  <2> QED
    BY <2>1, <2>2
<1> QED
  BY <1>1, <1>2, OpsHold, LoadInvariant, PTL DEF Spec
=============================================================================
