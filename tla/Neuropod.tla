------------------------------ MODULE Neuropod ------------------------------
(***************************************************************************)
(* The life of a Neuropod in a process that has several (neuropod.cc,      *)
(* backend_registration.cc, neuropod_loader.cc and load_model_internal of  *)
(* the backends): a backend library is found or opened and registers       *)
(* itself, the backend is built, and the model is loaded, at once or       *)
(* later, after its custom ops were opened.                                *)
(*                                                                         *)
(* Each thread has one Neuropod at a time; what they share is the map of   *)
(* registered backends, which no lock protects, the dynamic linker, and    *)
(* the sets of loaded custom ops.  With use_ope a Neuropod is loaded by a  *)
(* worker process of its own, which is known here by its thread: every     *)
(* attempt to load builds a new Neuropod there.                            *)
(*                                                                         *)
(* External: dlopen runs a library's initializers once, under the dynamic  *)
(* linker's lock; a framework loads a graph if its ops are open.           *)
(***************************************************************************)
EXTENDS Naturals, Sequences, FiniteSets, SequencesExt

CONSTANTS Threads,
          NoThread,
          Main,        \* the process that the threads belong to
          Models,      \* the packages: [platform, range, ops, zip]
          Versions,    \* the versions of the frameworks
          Libs,        \* the backend libraries that are installed
          NoLib,
          LibType,     \* the type that a library registers ...
          LibVersion,  \* ... and with which version
          Defaults,    \* default_backend_for_type: a sequence of [type, version, path]
          Overrides,   \* the default_backend_overrides that are passed
          Ops,         \* the custom ops, known by their hashes
          Flaky,       \* the ops that dlopen may refuse
          MaxNew,      \* model bound: Neuropods that are built
          MaxLoads     \* model bound: calls of load_model for each of them

Types == {"tensorflow", "torchscript", "python"}

ASSUME ThreadAssumption == NoThread \notin Threads /\ Main \notin Threads
ASSUME LibAssumption == /\ NoLib \notin Libs
                        /\ LibType \in [Libs -> Types]
                        /\ LibVersion \in [Libs -> Versions]
ASSUME ModelAssumption == /\ Models # {}
                          /\ \A m \in Models : /\ m.platform \in Types
                                              /\ m.range \subseteq Versions
                                              /\ m.ops \in Seq(Ops)
                                              /\ m.zip \in BOOLEAN
\* Each backend has a loaded_op_hashes of its own: no op is one of two platforms.
ASSUME OpAssumption == \A m, n \in Models : \A i \in DOMAIN m.ops, j \in DOMAIN n.ops :
                         m.ops[i] = n.ops[j] => m.platform = n.platform
ASSUME BoundAssumption == MaxNew \in Nat /\ MaxLoads \in Nat \ {0}

Procs == Threads \cup {Main}

VARIABLES process,  \* what the Neuropods of a process share
          pod,      \* the Neuropod of each thread
          stray,    \* temporary directories that no loader will remove
          retried,  \* history: a Python model was unzipped again for a second load
          news,     \* how many Neuropods were built
          down      \* the process ended

vars == <<process, pod, stray, retried, news, down>>

\* registered_backends_by_type, with the library that a backend came from; the
\* libraries that are open; loaded_op_hashes and how often each op was really
\* opened; and who has the TensorFlow backend's loaded_op_mutex.
NewProcess == [registered |-> [y \in Types |-> NoLib], mapped |-> {}, hashes |-> {},
               opens |-> [o \in Ops |-> 0], lock |-> NoThread]

\* todo is the load specs, or the ops, that are left; paths the ops that the
\* TorchScript backend is about to open; dirs how many directories the loader made;
\* created whether the TensorFlow session has a graph; listed how often the model's
\* outputs were appended to output_names_ or output_specs_.
NoPod == [at |-> "none", model |-> CHOOSE m \in Models : TRUE, ope |-> FALSE, eager |-> FALSE,
          overrides |-> <<>>, todo |-> <<>>, paths |-> <<>>, lib |-> NoLib, loads |-> 0, dirs |-> 0,
          created |-> FALSE, listed |-> 0]

Waiting  == {"none", "built", "ready"}
Choosing == {"find", "check", "open", "insert", "refind"}
Loading  == {"ops", "locked", "opened", "mapping", "initializing", "python"}

TypeOK ==
  /\ \A p \in Procs : /\ process[p].registered \in [Types -> Libs \cup {NoLib}]
                      /\ process[p].mapped \subseteq Libs
                      /\ process[p].hashes \subseteq Ops
                      /\ process[p].opens \in [Ops -> Nat]
                      /\ process[p].lock \in Threads \cup {NoThread}
  /\ \A t \in Threads : /\ pod[t].at \in Waiting \cup Choosing \cup {"construct"} \cup Loading
                        /\ pod[t].model \in Models
                        /\ pod[t].lib \in Libs \cup {NoLib}
                        /\ pod[t].loads \in 0 .. MaxLoads
                        /\ pod[t].dirs \in 0 .. MaxLoads
                        /\ pod[t].listed \in Nat
  /\ stray \in Nat /\ retried \in BOOLEAN /\ news \in 0 .. MaxNew /\ down \in BOOLEAN

Init == /\ process = [p \in Procs |-> NewProcess]
        /\ pod = [t \in Threads |-> NoPod]
        /\ stray = 0
        /\ retried = FALSE
        /\ news = 0
        /\ down = FALSE
-----------------------------------------------------------------------------
At(t, l) == pod[t].at = l /\ ~down
Goto(t, l) == pod' = [pod EXCEPT ![t].at = l]
Rest == <<stray, retried, news, down>>

\* The process in which t's model is loaded, and what it shares.
Proc(t)     == IF pod[t].ope THEN t ELSE Main
Here(t)     == process[Proc(t)]
Platform(t) == pod[t].model.platform

\* Defect: the version is not compared.
SuitsAny(t, l) == l # NoLib

Suits(t, l) == l # NoLib /\ LibVersion[l] \in pod[t].model.range

\* find_registered_backend and get_backend_for_type look into the map while a
\* library's initializer may be inserting into it: a data race, in which they may
\* or may not see what is inserted.
Inserting(p) == {u \in Threads : Proc(u) = p /\ pod[u].at = "insert"}
Inserted(p, type) == {l \in {pod[u].lib : u \in Inserting(p)} :
                       LibType[l] = type /\ process[p].registered[type] = NoLib}
Seen(t) == {Here(t).registered[Platform(t)]} \cup Inserted(Proc(t), Platform(t))

\* ~ZipLoader removes the last directory that its ensure_local made.
Discard(t) == stray' = stray + IF pod[t].dirs > 1 THEN pod[t].dirs - 1 ELSE 0

\* Defect: an exception keeps the lock.
KeepsLock(t) == process

\* The lock_guard of whoever leaves by an exception.
Unlocked(t) == [process EXCEPT ![Proc(t)].lock = IF @ = t THEN NoThread ELSE @]

\* A Neuropod ends, and with it its worker.
End(t) == /\ pod' = [pod EXCEPT ![t] = NoPod]
          /\ process' = IF pod[t].ope THEN [process EXCEPT ![t] = NewProcess] ELSE Unlocked(t)
          /\ Discard(t)

\* An error.  A constructor that throws leaves nothing.  Otherwise load_model may
\* be called again: of the same backend, or, in a worker, of a new one.
Survives(t) == ~pod[t].eager /\ (pod[t].ope \/ pod[t].at \in Loading)
Fails(t) ==
  \/ /\ ~Survives(t)
     /\ End(t)
  \/ /\ Survives(t)
     /\ pod' = [pod EXCEPT ![t] = IF ~pod[t].ope THEN [@ EXCEPT !.at = "built"]
                                  ELSE [NoPod EXCEPT !.at = "built", !.ope = TRUE,
                                          !.model = pod[t].model, !.loads = pod[t].loads,
                                          !.overrides = pod[t].overrides]]
     /\ process' = Unlocked(t)
     /\ IF pod[t].ope THEN Discard(t) ELSE UNCHANGED stray
-----------------------------------------------------------------------------
\* Neuropod::Neuropod, after the config was read; eager is load_model_at_construction.
New(t) ==
  /\ At(t, "none") /\ news < MaxNew
  /\ \E m \in Models, ope, eager \in BOOLEAN, o \in Overrides :
       pod' = [pod EXCEPT ![t] = [NoPod EXCEPT !.at = IF ope /\ ~eager THEN "built" ELSE "find",
                                     !.model = m, !.ope = ope, !.eager = eager, !.overrides = o]]
  /\ news' = news + 1
  /\ UNCHANGED <<process, stray, retried, down>>

\* The first lookup.
Find(t) == /\ At(t, "find")
           /\ \E l \in Seen(t) :
                pod' = [pod EXCEPT ![t].at = IF Suits(t, l) THEN "construct" ELSE "check",
                                   ![t].lib = IF Suits(t, l) THEN l ELSE NoLib]
           /\ UNCHANGED <<process, Rest>>

\* The load specs to try: from the last to the first, the overrides first.
Candidates(t) ==
  LET wanted(s) == s.type = Platform(t) /\ s.version \in pod[t].model.range
  IN SelectSeq(Reverse(pod[t].overrides) \o Reverse(Defaults), wanted)

\* The second lookup: only one version of a framework per process.
Check(t) ==
  /\ At(t, "check")
  /\ \E l \in Seen(t) :
       \/ /\ l = NoLib
          /\ pod' = [pod EXCEPT ![t].at = "open", ![t].todo = Candidates(t)]
          /\ UNCHANGED <<process, stray>>
       \/ /\ l # NoLib
          /\ Fails(t)
  /\ UNCHANGED <<retried, news, down>>

\* load_default_backend: dlopen the first of them, whose error is not survived.  A
\* library that is open already is not initialized again.
Open(t) ==
  LET path == Head(pod[t].todo).path IN
  /\ At(t, "open")
  /\ \/ /\ pod[t].todo = <<>> \/ path \notin Libs
        /\ Fails(t)
     \/ /\ pod[t].todo # <<>> /\ path \in Libs /\ Inserting(Proc(t)) = {}
        /\ pod' = [pod EXCEPT ![t].at = IF path \in Here(t).mapped THEN "refind" ELSE "insert",
                              ![t].todo = <<>>, ![t].lib = path]
        /\ process' = [process EXCEPT ![Proc(t)].mapped = @ \cup {path}]
        /\ UNCHANGED stray
  /\ UNCHANGED <<retried, news, down>>

\* The library's initializer: register_backend.  Its exception leaves dlopen, or ends
\* the process, as a C++ runtime may do with an exception of an initializer.
Insert(t) ==
  LET type == LibType[pod[t].lib] IN
  /\ At(t, "insert")
  /\ \/ /\ Here(t).registered[type] = NoLib
        /\ process' = [process EXCEPT ![Proc(t)].registered[type] = pod[t].lib]
        /\ Goto(t, "refind")
        /\ UNCHANGED <<stray, down>>
     \/ /\ Here(t).registered[type] # NoLib
        /\ Fails(t)
        /\ UNCHANGED down
     \/ /\ Here(t).registered[type] # NoLib
        /\ down' = TRUE
        /\ UNCHANGED <<process, pod, stray>>
  /\ UNCHANGED <<retried, news>>

\* The lookup after a library was opened.
Refind(t) == /\ At(t, "refind")
             /\ \E l \in Seen(t) : \/ /\ Suits(t, l)
                                      /\ pod' = [pod EXCEPT ![t].at = "construct", ![t].lib = l]
                                      /\ UNCHANGED <<process, stray>>
                                   \/ /\ ~Suits(t, l)
                                      /\ Fails(t)
             /\ UNCHANGED <<retried, news, down>>

StartLoad(t) == [pod[t] EXCEPT !.at = "ops", !.todo = pod[t].model.ops, !.paths = <<>>]

\* The backend's constructor, which loads the model; in a worker it always does.
Construct(t) ==
  /\ At(t, "construct")
  /\ pod' = [pod EXCEPT ![t] = IF @.eager \/ @.ope THEN StartLoad(t) ELSE [@ EXCEPT !.at = "built"]]
  /\ UNCHANGED <<process, Rest>>

\* load_model, which throws if the model is loaded.  In a worker it starts from the
\* beginning.
LoadModel(t) ==
  /\ At(t, "built") /\ pod[t].loads < MaxLoads
  /\ pod' = [pod EXCEPT ![t] = [(IF pod[t].ope THEN [pod[t] EXCEPT !.at = "find"] ELSE StartLoad(t))
                                  EXCEPT !.loads = @ + 1]]
  /\ UNCHANGED <<process, Rest>>

Destroy(t) == /\ At(t, "built") \/ At(t, "ready")
              /\ End(t)
              /\ UNCHANGED <<retried, news, down>>
-----------------------------------------------------------------------------
\* Defect: an archive is unzipped for each file.
UnzipAlways(t) == IF pod[t].model.zip THEN pod[t].dirs + 1 ELSE 0

\* get_file_path unzips an archive once.
Unzipped(t) == IF pod[t].model.zip /\ pod[t].dirs = 0 THEN 1 ELSE pod[t].dirs

Op(t) == Head(pod[t].todo)

\* Defect: nobody waits for the lock.
NoWait(t) == TRUE

CanLock(t) == Here(t).lock = NoThread

\* The TensorFlow backend keeps the lock while it looks for an op, opens and lists it.
LockOps(t) ==
  /\ At(t, "ops") /\ Platform(t) = "tensorflow" /\ pod[t].todo # <<>> /\ CanLock(t)
  /\ IF Op(t) \in Here(t).hashes
     THEN pod' = [pod EXCEPT ![t].todo = Tail(@)] /\ UNCHANGED process
     ELSE /\ pod' = [pod EXCEPT ![t].at = "locked", ![t].dirs = Unzipped(t)]
          /\ process' = [process EXCEPT ![Proc(t)].lock = t]
  /\ UNCHANGED Rest

OpenOp(t) ==
  /\ At(t, "locked")
  /\ \/ /\ Goto(t, "opened")
        /\ process' = [process EXCEPT ![Proc(t)].opens[Op(t)] = @ + 1]
        /\ UNCHANGED stray
     \/ /\ Op(t) \in Flaky
        /\ Fails(t)
  /\ UNCHANGED <<retried, news, down>>

ListOpened(t) == /\ At(t, "opened")
                 /\ pod' = [pod EXCEPT ![t].at = "ops", ![t].todo = Tail(@)]
                 /\ process' = [process EXCEPT ![Proc(t)].hashes = @ \cup {Op(t)},
                                               ![Proc(t)].lock = NoThread]
                 /\ UNCHANGED Rest

\* The TorchScript backend lists an op under its lock, and opens what it has listed
\* afterwards.
ListOp(t) ==
  /\ At(t, "ops") /\ Platform(t) = "torchscript" /\ pod[t].todo # <<>>
  /\ IF Op(t) \in Here(t).hashes
     THEN pod' = [pod EXCEPT ![t].todo = Tail(@)]
     ELSE pod' = [pod EXCEPT ![t].todo = Tail(@), ![t].paths = Append(@, Op(t)), ![t].dirs = Unzipped(t)]
  /\ process' = [process EXCEPT ![Proc(t)].hashes = @ \cup {Op(t)}]
  /\ UNCHANGED Rest

OpenListed(t) ==
  /\ At(t, "ops") /\ pod[t].todo = <<>> /\ pod[t].paths # <<>>
  /\ \/ /\ pod' = [pod EXCEPT ![t].paths = Tail(@)]
        /\ process' = [process EXCEPT ![Proc(t)].opens[Head(pod[t].paths)] = @ + 1]
        /\ UNCHANGED stray
     \/ /\ Head(pod[t].paths) \in Flaky
        /\ Fails(t)
  /\ UNCHANGED <<retried, news, down>>

Parses(t) == /\ pod[t].at = "ops" /\ Platform(t) # "python"
             /\ pod[t].todo = <<>> /\ pod[t].paths = <<>>
OpsOpen(t) == \A k \in DOMAIN pod[t].model.ops : Here(t).opens[pod[t].model.ops[k]] > 0

\* torch::jit::load, or the session's Create, which fails on a session that has a graph.
LoadGraph(t) ==
  /\ Parses(t) /\ ~down
  /\ \/ /\ OpsOpen(t) /\ ~pod[t].created
        /\ pod' = [pod EXCEPT ![t] = IF Platform(t) = "tensorflow"
                                     THEN [@ EXCEPT !.at = "mapping", !.created = TRUE]
                                     ELSE [@ EXCEPT !.at = "ready", !.listed = pod[t].listed + 1]]
        /\ UNCHANGED <<process, stray>>
     \/ /\ ~(OpsOpen(t) /\ ~pod[t].created)
        /\ Fails(t)
  /\ UNCHANGED <<retried, news, down>>

\* setup_node_mapping_and_init_ops and output_names_, and then the init ops.
MapNodes(t) ==
  /\ At(t, "mapping")
  /\ \/ /\ pod' = [pod EXCEPT ![t].at = "initializing", ![t].listed = @ + 1]
        /\ UNCHANGED <<process, stray>>
     \/ Fails(t)
  /\ UNCHANGED <<retried, news, down>>

RunInitOps(t) ==
  /\ At(t, "initializing")
  /\ \/ /\ Goto(t, "ready")
        /\ UNCHANGED <<process, stray>>
     \/ Fails(t)
  /\ UNCHANGED <<retried, news, down>>

\* PythonBridge::load_model_internal, under the GIL.  An archive is unzipped each
\* time, before the Python executor loads it.
LoadPython(t) ==
  LET dirs == IF pod[t].model.zip THEN pod[t].dirs + 1 ELSE 0 IN
  /\ At(t, "ops") /\ Platform(t) = "python"
  /\ pod' = [pod EXCEPT ![t].at = "python", ![t].dirs = dirs]
  /\ retried' = (retried \/ pod[t].dirs > 0)
  /\ UNCHANGED <<process, stray, news, down>>

PythonLoads(t) == /\ At(t, "python")
                  /\ \/ /\ Goto(t, "ready")
                        /\ UNCHANGED <<process, stray>>
                     \/ Fails(t)
                  /\ UNCHANGED <<retried, news, down>>
-----------------------------------------------------------------------------
Step(t) == \/ Find(t) \/ Check(t) \/ Open(t) \/ Insert(t) \/ Refind(t) \/ Construct(t)
           \/ LockOps(t) \/ OpenOp(t) \/ ListOpened(t) \/ ListOp(t) \/ OpenListed(t)
           \/ LoadGraph(t) \/ MapNodes(t) \/ RunInitOps(t) \/ LoadPython(t) \/ PythonLoads(t)

Next == \E t \in Threads : New(t) \/ LoadModel(t) \/ Destroy(t) \/ Step(t)

\* A thread that is in a constructor or in load_model goes on when it can.
Spec == Init /\ [][Next]_vars /\ \A t \in Threads : WF_vars(Step(t))
-----------------------------------------------------------------------------
(***************************************************************************)
(* A backend is one that its process has registered for the platform of    *)
(* its model, in a version that the model accepts, and stays that: all the *)
(* Neuropods of a platform in a process use one version of the framework,  *)
(* however their lookups and the initializers of libraries interleave.     *)
(***************************************************************************)
BackendsMatch ==
  \A t \in Threads : pod[t].lib # NoLib /\ pod[t].at \notin Choosing =>
    /\ LibVersion[pod[t].lib] \in pod[t].model.range
    /\ \/ Here(t).registered[Platform(t)] = pod[t].lib
       \/ pod[t].lib \in Inserted(Proc(t), Platform(t))

(***************************************************************************)
(* When a graph is parsed, the model's custom ops are open, whichever      *)
(* thread listed them and whatever failed before; and no op is opened      *)
(* twice by a process, which a second registration of an op would make     *)
(* fail (loaded_op_hashes).                                                *)
(***************************************************************************)
OpsAreOpen(type) == \A t \in Threads : Parses(t) /\ Platform(t) = type => OpsOpen(t)

OpsAreOpenOnce == /\ OpsAreOpen("tensorflow")
                  /\ \A p \in Procs, o \in Ops : process[p].opens[o] <= 1

(***************************************************************************)
(* A load that failed leaves nothing behind.  Every directory that an      *)
(* archive was unzipped to is removed with the Neuropod, on every path,    *)
(* unless a Python model was loaded a second time; and a model that is     *)
(* ready has appended its outputs to what infer returns by default exactly *)
(* once, however often its load was retried.                               *)
(***************************************************************************)
FailedLoadsLeaveNothing ==
  /\ stray > 0 => retried
  /\ \A t \in Threads : pod[t].at = "ready" /\ Platform(t) # "python" => pod[t].listed = 1

(***************************************************************************)
(* Every constructor and every load_model returns or throws: no lock is    *)
(* kept on the way out of an error.                                        *)
(***************************************************************************)
LoadsEnd == \A t \in Threads : (pod[t].at \notin Waiting) ~> (pod[t].at \in Waiting \/ down)

(***************************************************************************)
(* "Don't load a custom op if we've already loaded it"                     *)
(* (torch_backend.cc:247): an op that is listed is open when the graph is  *)
(* parsed.  It is not when another thread has listed it and not opened it  *)
(* yet, or when its dlopen failed once.                                    *)
(***************************************************************************)
TorchOpsAreOpen == OpsAreOpen("torchscript")

(***************************************************************************)
(* "If that didn't work, try loading using the default map"                *)
(* (backend_registration.cc:234): a library that can be opened is opened,  *)
(* whatever overrides there are.  It is not, because the dlopen of a       *)
(* library that is missing throws.                                         *)
(***************************************************************************)
DefaultsAreTried ==
  [][\A t \in Threads : pod[t].at = "open" /\ pod'[t].at \notin {"open", "insert", "refind"} =>
       \A k \in DOMAIN pod[t].todo : pod[t].todo[k].path \notin Libs]_vars
=============================================================================
