# Neuropod in TLA+

Neuropod runs models of several deep learning frameworks behind one interface, in the
process that uses them or in a worker process. This directory holds TLA+ models of the
parts of the library where several threads or processes meet, and of the way from a package
to an answer, configurations that check them with TLC, and proofs about them for TLAPS. Paths
are relative to `source/neuropod/` unless they start with `docs/` or `source/`.

## The system

| Component | Code | State it keeps | Operations | Correct when |
|---|---|---|---|---|
| Blocking queue | `internal/blocking_spsc_queue.hh` | a bounded FIFO, a mutex, two condition variables | `emplace`, `try_emplace`, `pop` | FIFO, bounded, no lost wake-up |
| Shared memory allocator | `multiprocess/shm/` | in each block two cross-process reference counts and a reuse count; per process a cache of created and one of loaded blocks | `allocate_shm`, `load_shm`, the two deleters, `free_unused_shm_blocks` | counts exact, no reuse under a reader, stale ids refused, nothing leaked |
| Message queue | `multiprocess/mq/` | two interprocess queues, an `out_queue_`, the table of what is in transit, a reader thread and a heartbeat thread | `send_message`, `send_message_move`, `recv_message`, deleters that send `DONE`, the destructor | FIFO; payloads outlive their use; destruction ends |
| Heartbeats | `multiprocess/mq/heartbeat.hh` | a flag, a condition variable, a thread | the sending loop, the destructor; the reader's deadline | no false alarm, silence noticed, prompt stop |
| Control channel | `multiprocess/ipc_control_channel.*` | `last_type_` of a `TransitionVerifier` in each process | checked send and receive, `cleanup` | both verifiers agree |
| Out-of-process backend | `multiprocess/multiprocess.cc` | the worker's pid, `is_model_loaded_` | constructors, `load_model`, `infer`, destructor | answers match calls; calls and destruction end |
| Worker | `multiprocess/multiprocess_worker.cc` | the loaded model, the map of inputs | the message loop | one answer per request, no orphan |
| SHM tensors, wrapping | `multiprocess/shm_tensor.*`, `tensor_utils.hh` | the block of each tensor | create, serialize, load | a tensor's id stays loadable while it travels |
| IPC serialization | `multiprocess/serialization/` | a stream | read and write values | round trip |
| Backend base class | `backends/neuropod_backend.*` | config, sealer, `is_model_loaded_` | `load_model`, `infer`, seal, validate | validated inputs, the right outputs |
| Backend registration | `internal/backend_registration.*` | a map from type to version and factory | register, look up, load a library | one version of a framework per process |
| Neuropod API, options | `neuropod.cc`, `options.hh` | the backend | load, infer, destroy | every call ends; a failed load leaves nothing |
| Loaders | `internal/neuropod_loader.cc` | a temporary directory | `ensure_local`, `get_file_path`, destructor | directories removed |
| Configuration | `internal/config_utils.*`, `source/python/neuropod/backends/config_utils.py` | `config.json` | write, read, validate | what is written is read, by both languages |
| TensorFlow backend | `backends/tensorflow/` | session, node mapping, cache of callables, loaded ops | load, infer | outputs belong to this call's inputs |
| TorchScript backend | `backends/torchscript/` | module, loaded ops | load, infer | arguments and results keep their names |
| Python bridge, executors | `backends/python_bridge/`, `bindings/`, `source/python/neuropod/backends/` | an executor | load, infer | the two languages agree |
| Tensors, accessors, deleters | `internal/neuropod_tensor*`, `tensor_accessor.hh`, `deleter.cc`, `core/`, `backends/tensor_allocator.hh` | dims, strides, data | factories, `to`, element access, copies, comparison | each element has a place of its own; each deleter runs once |
| Value serialization | `serialization/` | | | round trip |
| Device mapping, logging, errors | `internal/` | | | |
| Java bindings, packaging tools, build | `source/java`, `source/python/neuropod/utils`, `build` | | | |

How they interact: a `MultiprocessNeuropodBackend` owns a control channel, which owns an
`IPCMessageQueue`; the worker process has the other end. Tensors travel as ids of shared
memory blocks, and a large payload as one such block. The sender keeps the blocks in the
queue's table until the receiver's copy of the message goes out of scope, whose deleter
sends a `DONE`. Each endpoint has a reader thread that drains its interprocess queue:
it drops heartbeats, handles `DONE`, and moves user messages through a blocking queue to
the thread in `recv_message`. A reader thread that hears nothing for five seconds throws,
which ends its process.

Several Neuropods of a process share the registered backends, the libraries that are
open, and for each framework the set of custom ops that were loaded; each has a loader, which
unzips its archive when a file is needed on disk. A call of `infer` validates its inputs against
the configuration, moves them to devices, has the backend translate them to the framework's
form and its results back, and validates the answer. A package can also be used without the native
library, by executors in Python that do all of this again.

The hard parts are the interleavings of user threads, deleters, reader and heartbeat
threads in two processes; the order of shutdown; exceptions in the worker; the death of
a process; the limits of the queues; libraries that register themselves while other threads
look; loads that fail half-way and are tried again; what is cached between calls; and two
implementations of one contract. `PROJECT.json` lists the places (`hazards`) with
the properties that watch them.

## Modules

| Module | Models | Abstract specification |
|---|---|---|
| `BlockingSPSCQueue` | the blocking queue: critical sections, notifications after the unlock, sleeping threads | `BoundedFIFO` |
| `SHMAllocator` | both reference counts, both caches, load, reuse, release, free, unlink | `SharedBlocks` |
| `IPCMessageQueue` | two endpoints with all their threads | `AckedChannel` |
| `Heartbeat` | the heartbeat thread and the reader's deadline, with a clock | |
| `Multiprocess` | the backend, its control channel and its worker, on top of `AckedChannel` | |
| `SHMTensors` | tensors in transit between the processes: objects, blocks, payloads, transferrables | |
| `Neuropod` | choosing and opening a backend, loading a model, its ops and its directories, by several threads | |
| `TensorSpecs` | tensors, specs, both validations, device mapping, sealing | `Conforms` |
| `ModelConfig` | the packager's `config.json` and its two readers | |
| `Frameworks` | the translation of inputs and outputs for each framework, in C++ and in Python | |
| `Inference` | a package, its model and its calls, composing the three above | |
| `TensorShapes` | dims, strides, offsets, the order of iteration | |
| `TensorLayout` | making, filling, indexing, copying and comparing tensors of each kind | `TensorContents` |
| `*Proofs` | theorems about the module they are named after | |
| `MC*` | constants for TLC | |

`Multiprocess` composes the backend and the worker with the channel through the actions
of `AckedChannel`, whose implementation by `IPCMessageQueue` is checked (`ImplementsChannel`).
Likewise `IPCMessageQueue` uses the blocking queue as a bounded FIFO, which
`BlockingSPSCQueue` implements (`ImplementsFifo`), and replaces the clock by "a reader may
time out when the other side no longer sends heartbeats", which is what `Heartbeat` shows
(`NoFalseTimeout`, `SilenceIsNoticed`). `SHMTensors` uses shared memory as `SharedBlocks` promises
it and an acknowledged FIFO for the messages. `Inference` composes `TensorSpecs`, `ModelConfig` and
`Frameworks`; `Conforms` in `TensorSpecs` says what both validations are for, with a quantifier in
place of their loops.

### Code and actions

*BlockingSPSCQueue.* A critical section is one step. `pc` says where a thread is;
`full_cv` and `empty_cv` are sleepers, `notify_empty` and `notify_full` threads that have
released the mutex and not yet notified. `wait` releases the mutex and sleeps in one step
and evaluates its predicate again after every wake-up, spurious ones included. `emplaced`
and `popped` are history.

*SHMAllocator.* A slot is a place for a `shared_ptr`, or the call that fills it. `Reuse` and
`Create` are `allocate_shm`; `LoadBegin`, `Open`, `RawAcquire`, `Check` and `Reject` are
`load_shm` with every point at which another process can come in; `ReleaseAllocated` and
`ReleaseLoaded` are the deleters; `FreeBegin`, `FreeCreated`, `FreeLoaded` and `FreeNext` are
`free_unused_shm_blocks`. `DropRaw` and `Unlink` are the two halves of `~RawSHMBlock`, which
releases the mutex before it removes the name. A deleter holds the block's mutex while it
takes the cache's, so nobody sees a state between its two changes. `LoadBegin` takes any id that
was ever returned, however stale.

*IPCMessageQueue.* `wire[p]` is the interprocess queue that `p` receives from, `out[p]` its
`out_queue_`, `inTransit[p]` the keys of `in_transit_`. `SendBegin` is the part of a send before
the blocking `send_queue_->send`, which is `Send`. `Read` is one round of `read_worker_loop` up
to a blocking `emplace`, in which `reader` then waits. `Release` is the end of a received message's scope, and `Ack` its
deleter's `DONE`. `Destroy`, `JoinHeartbeat`, `SendShutdown` and `JoinReader` are the destructor; it
runs when no thread is in a send and no message is held, because each holds the queue.

*Heartbeat.* `Test`, `Send`, `Lock`, `Check`, `Sleep`, `Wake` and `Relock` are the loop and what
`wait_for` does inside; `Clear` and `Notify` are the destructor; `Read` and `GiveUp` are
`timed_receive`. `Tick` advances the clock, and the thread, when it can run, is at most
`Slack` late.

*Multiprocess.* `client[t]` is the call a user thread is in: `verify` and `send` are the two
halves of `IPCControlChannel::send_message`, `Recv` is `recv_message` with its verifier, `Return`
the rest of `infer_internal` or `load_model_internal`. `worker` is the loop: `WorkerRecv`, `Handle`
(one action per branch and `HandleThrows` for the catch clauses), `WorkerKeep` and `WorkerSend`
for the answer, `WorkerBottom` for the end of scope. `acks` holds the `DONE` messages under way.
A payload that moves tensors always needs a `DONE`; another one does when it is too large to
be inline (`Large`).

*SHMTensors.* An object is a `NeuropodTensor`; it exists while something refers to it, and a
block while an object or a transferrable holds it (`Collect`; the block of a numeric tensor is its data, that of a
string tensor is made by each `get_native_data`). `outgoing[p]` is the map that `p` is
sending, by `Infer` in the main process and by `WrapOutput` in the worker; `Serialize` asks each
tensor for its id, `Post` puts the message on the wire and its tensors and payload block into
`transit[p]`. `ReadDone` and `ReadTensors` are the receiving threads, `OpenPayload` the payload in
shared memory, `LoadTensor` `tensor_from_id`, `CopyStrings` the constructor that copies
the strings out, `Fail` a load that throws. `WrapInputs` and `Return` end a
message in the worker and in the main process, and `LetGo` sends its `DONE`. `Write` is what a
user may do at any time to a tensor that it has, which is why a payload must not be read late.

*Neuropod.* `pod[t]` is the Neuropod of a thread, `process[p]` what the Neuropods of a process
share. `Find` and `Check` are the two lookups of `get_backend_for_type`, `Open` is
`load_default_backend` with the `dlopen`, `Insert` the library's initializer, `Refind` the last lookup.
`Seen` is what a lookup may find while another thread inserts: the map is not
protected. `Construct`, `LoadModel` and `Destroy` are the life of the backend;
`LockOps`, `OpenOp` and `ListOpened` the TensorFlow backend's loop over custom ops, under its mutex;
`ListOp` and `OpenListed` the TorchScript backend's two loops; `LoadGraph`, `MapNodes` and `RunInitOps`
the rest of their `load_model_internal`; `LoadPython` and `PythonLoads` that of the Python bridge. `Fails` is an
exception in any of them: a constructor that throws leaves nothing, `load_model` leaves a backend on
which it may be called again (`Survives`). `dirs` counts the directories of the loader. With
`ope` the Neuropod lives in a process of its own.

*TensorSpecs, ModelConfig, Frameworks.* One operator for each function, with folds in place of
loops; a result that is thrown is `Failed`. A JSON value of a shape is `[is, value, symbol]`, so that the
readers can disagree about it. `Wrapped` is the tensor that is made of a TorchScript result, `Filled` what Python's defaults add to
the inputs. What the frameworks compute is external: the data of an output
says which output it is and from which inputs it was computed, so that an answer can
be traced to its call.

*Inference.* `Package` writes `config.json`, `Load` reads it, `Infer` begins a call and the
other actions are the stages of `NeuropodBackend::infer` and of the three `infer_internal`. `callables` is
`callable_handle_cache_`, the only state that calls share. A setup has a model, a configuration and
options; `unchecked` is `disable_shape_and_type_checking`.

*TensorLayout.* `tensor[t]` is what the name `t` refers to: its kind (which class it is, and so who allocates
its buffer), its type, its dims and the cells of its buffer. `Strides` is `compute_strides` and `Offset` the
chain of `TensorAccessor::operator[]`; `NumElements` is the product that is kept in an `int`, and `Cells` how
large a buffer each class allocates. `Wrap` is `tensor_from_memory`, `WrapNative` the constructors around an existing
torch or TensorFlow tensor, by which every output is made. `Allocate`, `Full`, `Eye` and `Arange` are the factories, `Set`
an assignment through an accessor (or its `StringProxy`), `Access` an accessor of another type or rank.
`CopyFrom`, `GetDataAsVector`, `Iterate`, `AsScalar` and `Compare` are the calls of those names; `answer` and
`items` are what they return. A call that would read outside of a buffer is undefined, and no action.
`TensorContents` has a value for each index and nothing else. Numbers are multiples of `1 / Unit`.

## What is checked

| Run | Bounds | Shows |
|---|---|---|
| `spsc` | 2 producers, 2 consumers, capacity 2, 3 emplaced items | `NoLostWakeup`, implements `BoundedFIFO` with its fairness |
| `shm` | 2 processes with 2 slots, 1 block, reused once | `CountsExact`, `HeldMemoryIsStable`, `NoLeak`, implements `SharedBlocks` |
| `ipc` | queues of 1, one message to the worker and two to the main process, 1 unread heartbeat, 1 sender thread, worker may die, fairness | `PayloadsStayInScope`, `TransitIsAccounted`, `NothingOutlivesItsSender`, implements `AckedChannel`, `DestructorReturns`, `PayloadsAreFreed` |
| `multiprocess` | 2 threads, 3 calls, throwing load, input and inference handlers, both processes may die | `AnswersMatch`, `SingleReceiver`, `WorkerNeverRejects`, `BacklogIsBounded`, `CallsReturn`, `NoOrphanWorker` |
| `multiprocess_add_input` | the input handler may throw | `MainSurvives` fails |
| `heartbeat` | interval 4, timeout 10, slack 2, start-up 7 half-seconds | `NoFalseTimeout`, `JoinIsPrompt`, `SilenceIsNoticed` |
| `tensors` | 2 names, 2 values, 4 objects a process, 6 ids, 2 calls, maps of two in a block | `TransitIsLoadable`, `EchoIsExact` |
| `neuropod` | 2 threads, 2 versions of TensorFlow, 4 models, ops that may fail to open, overrides, 2 Neuropods | `BackendsMatch`, `OpsAreOpenOnce`, `FailedLoadsLeaveNothing`, `LoadsEnd` |
| `torch_ops` | as `neuropod` | `TorchOpsAreOpen` fails |
| `default_backends` | as `neuropod` | `DefaultsAreTried` fails |
| `inference` | 43 setups of 3 platforms, 2 calls each, every input of two tensors that is right or wrong in one way, 5 requests | `PackagesLoad`, `SpecIsEnforced`, `AnswersAreFaithful`, `ExecutorsAgree` |
| `layout` | 2 tensors, 13 kinds, types and shapes, 2 numbers, 2 strings | `AccessorsReachAllCells`, implements `TensorContents` |

Each module with several actors has a type invariant, `TypeOK`, checked in its run.

Why the bounds are enough. In `spsc`, two threads on each side with a capacity of two make
both sides sleep, and three items fill the queue while a thread waits. In `shm`, four slots
in two processes let a pointer be loaded twice in one process (a load cache entry is then
overwritten), and let a load race a release, a reuse and a free by the other process; blocks
meet only in the choice of a block to reuse, so one block suffices, and the proofs are for any
number. In `ipc`, a heartbeat, a `DONE` or a message fills a queue of one, and the
second message to the main process finds its `out` full when the first is unread: the reader then waits in `emplace` with
a `DONE` or a `SHUTDOWN` behind it, and goes on when its user reads. `DestructorReturns` leaves out only what is `Stuck`, a
reader that waits there when its own endpoint is being destroyed; the run fails when that is dropped from it. The
safety of longer conversations is proved. In `multiprocess`, three calls are a
load, a failed call and one after it, with a second thread at any moment. `heartbeat` has the
interval and timeout of the code in units of half a second. In `tensors`, two names make a payload that
needs a block of its own and two calls let a block of the first be reused in the second. In `neuropod`,
two threads are two initializers, two op loops or a lookup in the middle of an insertion, and the second
Neuropod can follow one that failed or was destroyed; the theorems are for any number, `LoadsEnd` is checked with two. In `inference`, two calls are one that fills the cache
and one that uses it with other inputs; the setups have each form of argument and result that the backends
treat differently, arguments with and without defaults, results that are not contiguous, two names for one node, and each member of `config.json` wrong once. In `layout`, the shapes are
a scalar of rank 0 and one of rank 1, empty tensors, rows, columns, a square and a cuboid, and the second tensor
is there to be compared with; the int is that of the build. The ranges have whole steps, of one
and two, and steps of 0.5 and 1.5, for which `TensorContents` promises only how many numbers there are and the first
one. Two things are left to the callers: no product of dims exceeds `IntMax`, and with `Careful` a generic string tensor is given
as many strings as it has elements and a torch tensor that is wrapped is contiguous. No document of the repository
promises anything about them; the code checks none of them, and no property covers them.

Deadlock is checked where the system never stops (`spsc`, `shm` and `heartbeat`); the others come to an end when everything is closed or the calls are used up.

### Fairness

Weak fairness of a thread's own steps: a thread that can run is run by the operating system,
condition variables wake whom they notify, and a blocked send or receive goes on once it can.
A send or a destructor of `IPCMessageQueue` that waits for room in a wire has strong fairness, because with queues of
one a heartbeat could take the room each time that there is some; the code sends one every two seconds, and its reader
needs far less for each message. Users also read what has arrived and let go of it while their
endpoint is open, as the worker loop and `infer_internal` do. A thread of `Neuropod` that is in a constructor or in `load_model` goes on when
it can (`Step`); whether it creates, loads or destroys anything is its own choice. Nobody is ever obliged to call,
to destroy or to crash anything, and no spurious wake-up is promised. `Multiprocess`
assumes that five seconds are longer than any single step, so that a timeout means that the
other process is gone or waits for something that does not come.

## Findings

* An exception of the `ADD_INPUT` handler is taken for the answer of the inference
  (`multiprocess_add_input`). The real answer is never received. On destruction the main
  process waits in `waitpid`, the worker waits for a `DONE` with its heartbeats stopped, and
  the main process is ended by its reader thread.
* The TorchScript backend lists a custom op as loaded before it opens it
  (`torch_ops`): `backends/torchscript/torch_backend.cc:252` inserts the hash under the lock, and the
  `dlopen` follows in `load_model_from_path`. Another thread that finds the hash may parse its graph too
  early, and after a failed `dlopen` nobody opens the op again in this process. The TensorFlow backend
  opens first, under the lock (`OpsAreOpenOnce`).
* A default backend is not tried when an override cannot be opened
  (`default_backends`): the `dlopen` error of `internal/backend_registration.cc:125` is thrown and not
  returned, in spite of the comment at line 234.

Seen while modelling, without a run of their own:

* `~IPCMessageQueue` hangs when more than the 20 messages of `out_queue_` are unread (`Stuck`): the reader thread
  waits in the `emplace` of `multiprocess/mq/ipc_message_queue_impl.hh:121` for a user who no longer reads, and never
  receives the `SHUTDOWN_QUEUES` that line 112 handles with `try_emplace` "to avoid blocking shutdown". The backend's
  own protocol stays below that limit (`BacklogIsBounded`).
* `arange` keeps its value in an `int` (`backends/tensor_allocator.hh:109`), so that a step of 0.25 repeats the first
  number and one of 1.5 counts in ones; lines 95 and 96 promise numbers "with a step size of `step`". `Arange` of
  `TensorContents` promises less (`Whole`).
* After one exception during inference the out-of-process backend refuses every further `infer`:
  `EXCEPTION` leaves `last_type_` at `INFER` (`multiprocess/ipc_control_channel.cc:29` returns before it
  is set), and `ADD_INPUT` may not follow `INFER`.
* `compute_num_elements` accumulates into an `int` (`internal/neuropod_tensor.cc:51`); with a small `IntMax`
  `AccessorsReachAllCells` fails.
* `copy_from` of a generic string tensor, and of one in shared memory, assigns a vector of any size
  (`core/generic_tensor.hh:79`), although the other classes throw; with `Careful = FALSE` `AccessorsReachAllCells` fails.
* A worker that crashes ends the process that uses it, because the reader thread's exception has no handler.
* A TorchScript result that is not contiguous (a transposed or expanded view) is wrapped as it is
  (`backends/torchscript/torch_backend.cc:133` to 137), and `torch_tensor.hh:119` and 130 take its sizes and its memory but not its
  strides: the native output has its items in the wrong places, or reads past the end of the memory. The Python executor
  (`torchscript/executor.py:209`) keeps the strides. `Wrapped` makes the data of such an output `Garbled`, and `WrapNative` of
  `TensorLayout` with `Careful = FALSE` reads other cells, so that `ImplementsContents` fails.
* An argument of a TorchScript model that is not among the inputs is passed as `None` natively
  (`backends/torchscript/torch_backend.cc:329`) and left out in Python (`torchscript/executor.py:153`). An `Optional` argument
  without a default passes in one and fails in the other; a tensor argument with a default is the reverse; and the value of
  an `Optional` with a default is used only in Python.
* A string tensor that is passed under two names gives up the block of the first when it is asked
  for the second id (`multiprocess/shm_tensor.hh:231`), and the worker cannot load the first. `TransitIsLoadable`
  is stated for ids that were asked for once, as the comment at line 166 assumes.
* What `AnswersAreFaithful` leaves out as `Lossy`: two inputs or two outputs with one TensorFlow node, inputs of the
  other kind of a TorchScript dict, an output that is requested twice of a backend that does not choose
  by itself (the second is a moved-from pointer, which validation dereferences), and null characters at the end of strings.
  The data of outputs that are not contiguous (`Strided`: TorchScript's, as above, and arrays of the Python bridge, as
  `bindings/python_bindings.cc:104` says) is left out too; that they do not disturb the others is not.
* What `ExecutorsAgree` leaves out as `Differs`: empty lists, lists of numbers and strided tensors that a TorchScript model returns,
  its arguments that are not given and have a value as default, or are `Optional` with none (`DefaultMatters`), and empty string tensors of TensorFlow. The error for an empty list reads its first element
  (`backends/torchscript/torch_backend.cc:194`).
* The packager opens `config.json` before it validates what it writes, and accepts sizes that are no `int`
  and version ranges that the native reader refuses (`PackagesLoad` names both).

## What is proved

TLAPS proves, for all values of the constants under the assumptions named in the modules:

* `ConditionVariableProofs`, about the queue: type correctness, `FIFO`, `NoLostWakeup`, and that every step is
  one of `BoundedFIFO` or none (`RefinesFifo`). `FIFO` and `NoLostWakeup` are inductive relative
  to `TypeOK`; `NoLostWakeup` holds because each condition that a sleeper waits for is made true
  only by a step that leaves a thread at its notification. About the heartbeats: types,
  `NoFalseTimeout` and `JoinIsPrompt`. The invariant bounds the reader's wait by
  the place of the heartbeat thread. `NoFalseTimeout` needs
  `Interval + 2 * Slack < Timeout` and `Startup + Slack < Timeout`, which is more than the
  code's `static_assert`: with 2 and 5 seconds, two late steps of up to 1.5 seconds.
* `SHMAllocatorProofs`: `RefcountExact`, `RawRefcountExact`, `OneOwner`, `HeldMemoryIsStable`,
  `NoLeak` and the refinement of `SharedBlocks`. The inductive invariant adds that ids name
  generations that exist and that a name exists exactly while the raw count is positive or
  somebody is about to remove it. Counting needs one lemma (`OneMemberChanges`) on how a cardinality
  changes with one member. `HeldMemoryIsStable` follows from exact counts: a holder keeps `refcount` positive, so
  `Reuse` is disabled, and `raw` positive, so nobody unlinks. Processes and slots are assumed
  finite and ids unique.
* `NeuropodProofs`: `TypeOK`, `FailedLoadsLeaveNothing` and `BackendsMatch`. `LoadInvariant` ties the
  directories a Neuropod has made and the outputs it has listed to the point where its load is;
  `FailedLoadsLeaveNothing` follows from it. For `BackendsMatch` the invariant adds that the
  dynamic linker runs one initializer at a time in a process: an entry that a look-up
  finds half made is the one that is about to be registered.
  For `OpsAreOpenOnce` it adds that only the holder of the lock is at an op
  that is not listed yet, that each opened op is listed or about to be listed by
  the holder, that listed TensorFlow ops are open, and that the TorchScript ops still to be opened
  by the Neuropods of a process are listed, unopened and of one Neuropod each. It assumes
  that an op belongs to one platform (`OpAssumption`).
* `IPCMessageQueueProofs`: `TypeOK`, `PayloadsStayInScope`, `TransitIsAccounted`, `NothingOutlivesItsSender` and the
  refinement of `AckedChannel` (`Implementation`), for queues of any size and any number of messages, senders and
  heartbeats. The invariant is `Shape /\ Lives /\ Transit`: types; what each stage of a destructor has left behind; and for each message
  that moved something and is still in the sender's table, the one place where it, its receiver or its `DONE` is.
  The user messages of an interprocess queue are a subsequence of it (`Users`), and its lemmas go by the
  least length for which they fail.
* `MultiprocessProofs`: `TypeOK`, `AnswersMatch`, `SingleReceiver`, `WorkerNeverRejects` and `BacklogIsBounded`, for
  any threads and number of calls. The invariant says that there is one conversation at a time: what the main process has
  sent and the worker has not received, with what the worker has yet to answer, is one of a few forms (`InStep`); all
  of it is about one call (`OneCall`); a `SHUTDOWN` comes last (`Shutdowns`); and no more answers are outstanding than
  are owed, at most two.

* `SHMTensorsProofs`: `TypeOK`, `TransitIsLoadable` and `EchoIsExact`, for any names, values, ids and bounds. The
  invariant (`IInv`, `StagesHold`) is a list of the stages of a call, from `Resting` over `Asking`, `Asked`, `Loading`, `Running`
  and `Replied` to `Taking`; `Stuck` is where a failed load leads. Each says what is on the wires and in `transit`
  (a message, or a `DONE` that is still on its way, or both), and that the tensors of a map and the blocks of a
  message *that are still held* have the values that were passed. It must not say that they are held: a string tensor
  that is asked for its id twice drops the block of its first answer. `TransitIsLoadable` adds that, if each is
  asked once, ids and blocks agree (`Once`, `IdsOf`); the worker asks each output once because it has just made
  it. `Frame` shows once for all actions that what a step does not touch keeps its contents: a new block is one
  whose id is written nowhere (`Mentioned`).

* `TensorLayoutProofs`: `AccessorsReachAllCells`, and that `TensorLayout` implements `TensorContents`
  (`ImplementsContents`), for tensors of any kind, rank, size and values. The inductive invariant, `BuffersFit`, is
  that each name refers to nothing or to a buffer with a cell for each index. The rest is about the operators:
  the strides are the sizes of the rows (`StridesAreVolumes`), an offset is a sum (`OffsetIsSum`) that is below the
  number of elements, grows with the index and differs for different ones (`OffsetsAreOrdered`, `OffsetsDiffer`), and division
  finds an index for every cell (`OffsetsReachAll`); so there are as many indices as cells
  (`IndicesAreCounted`), the product that `compute_num_elements` keeps in an `int` is their number
  (`NumElementsCounts`), the offset is the place among the elements (`OffsetIsPlace`), the nested loops of the iterators
  visit them in that order (`VisitedIs`), and `arange` counts in steps if these are whole (`RangeNumbers`). Recursive functions
  are shown to exist by `Recursion`, and what they compute by looking at the first number for which it fails (`UpTo`).
  The hypotheses are what the findings above are about: `CallersCount` says that a tensor has
  at most `IntMax` elements, that strings are counted before they are copied into a generic
  tensor and that the torch tensors that are wrapped are contiguous.

* `InferenceProofs`: `PackagesLoad`, `SpecIsEnforced`, `AnswersAreFaithful` and `ExecutorsAgree`, for any packages,
  configurations, models, tensors and number of calls. The inductive invariant, `Inv`, is that a package is what
  `write_neuropod_config` wrote of valid arguments and the model what `load_model_config` makes of it; that a
  callable of the cache feeds and fetches the nodes of its key, which the graph has; that a call past the
  validation has valid inputs; and that a framework's results are tensors, or nulls that a move left. For
  `SpecIsEnforced`, a fold over a sequence is a run from each item to the next (`FoldIsRun`), the sizes that a run of
  `Match` has seen are those that every fitting assignment has (`SizesAreForced`), and so both validations accept what
  conforms (`ValidationsConform`). For `AnswersAreFaithful` a second invariant, `FaithInv`, says of each stage what
  it has of `Sent`, the inputs on their devices: sealed, fed to the nodes or bound to the arguments, in
  the results, and in what was filtered; a `Strided` output keeps its name, type, dims and device there, and not its data. For `ExecutorsAgree` a third, `AgreeInv`, compares the same stages with what the
  executor does with `Sent`: the call was accepted by both validations, the names are mapped by both, the arguments are
  those of both, what is returned is `Forward`, and where a stage fails the executor refuses (`Refused`). It needs
  that the executor's choice of the last input of a node is the backend's (`PyFedIs`), and that both collect the
  items of a result alike (`FoldsAgree`) or refuse it for different reasons (`TextIsRefused`).
  The assumptions say what setups, inputs, nodes and requests are (`SetupsAssumption`, `InputsAssumption`,
  `NodesAssumption`, `RequestsAssumption`) and that `Failed` is no file, configuration or symbol table
  (`FilesAssumption`, `FailedAssumption`).

Only model-checked: the liveness properties, and the fairness part of `ImplementsFifo`, which are beyond the
prover (as is `ENABLED`). Every safety invariant and action property of a passing run is a theorem. What the recursive
functions compute is proved by the least number for which it would fail, since the library's induction theorems
cannot be used. No module declares a recursive operator.

## Not modelled

Payload bytes, value serialization, the deleters of wrapped memory, printing, `arange` downwards, file and archive access, JSON syntax, logging,
error texts, what the frameworks compute, the Java bindings, the packaging command line and
the build. `boost::interprocess::message_queue` is an external bounded FIFO, and a death inside
one of its critical sections or of an `interprocess_mutex`, which would lock the others out, is not
modelled. `free_memory_every_cycle` only decides whether `free_unused_shm_blocks` is
called, which `SHMAllocator` allows at any time. Sessions with an existing worker (the option
`control_queue_name`), one after the other on the same queues, and `cleanup_control_channels` are not modelled; nor are concurrent calls
of `infer` on one TensorFlow backend, whose cache of callables has no lock.
