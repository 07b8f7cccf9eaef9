------------------------------ MODULE Inference ------------------------------
(***************************************************************************)
(* A package and the calls of one Neuropod: the packager writes            *)
(* config.json, load_model_config reads it, and each infer validates and   *)
(* seals its inputs, runs the framework, and filters and validates the     *)
(* outputs (NeuropodBackend::infer and infer_internal of the backends).    *)
(*                                                                         *)
(* A setup is [args, old, graph, visible, cuda, unchecked]: what is        *)
(* packaged, whether by an old version, with which model, and the options  *)
(* and the machine it is used with.                                        *)
(***************************************************************************)
EXTENDS Frameworks

CONSTANTS Setups,
          Inputs,     \* the tensors that are passed by their names: a set of functions
          Requests,   \* the requested outputs: a set of sequences of names
          MaxCalls    \* model bound

ASSUME SetupsAssumption ==
  \A s \in Setups : /\ AreSpecs(s.args.inputs) /\ AreSpecs(s.args.outputs)
                    /\ IsGraph(s.args.platform, s.graph) /\ s.visible \in {Cpu, Gpu}

\* Tensors are made on the host, and are not null on any device.
ASSUME InputsAssumption ==
  \A inputs \in Inputs : \A n \in DOMAIN inputs :
    LET on(device) == [type |-> inputs[n].type, dims |-> inputs[n].dims, device |-> device, data |-> inputs[n].data]
    IN /\ IsTensor(inputs[n])
       /\ inputs[n] = on(Cpu) /\ \A device \in {Cpu, Gpu} : Null # on(device)
ASSUME NodesAssumption == NodeOrder \in Seq(ToSet(NodeOrder))
ASSUME RequestsAssumption == \A names \in Requests : names \in Seq(ToSet(names))

\* Files and configurations are not Failed.
ASSUME FilesAssumption ==
  \A s \in Setups : LET file == Written(s.args) IN
    file \notin {Absent, Empty} =>
      \A f \in {file, [file EXCEPT !.devices = Absent]} :
        Failed # Completed(f) /\ (Loads(f) => Failed # ConfigOf(f))

VARIABLES setup,
          package,    \* config.json
          model,      \* the ModelConfig of the Neuropod, or Null
          callables,  \* callable_handle_cache_
          call,       \* the call of infer
          calls

vars == <<setup, package, model, callables, call, calls>>

NoCall == [at |-> "none", inputs |-> <<>>, requested |-> <<>>, sealed |-> <<>>, fed |-> <<>>,
           fetches |-> <<>>, callable |-> Null, out |-> <<>>]
Ended  == {"none", "answered", "failed", "crashed"}

Init == /\ setup \in Setups
        /\ package = Absent
        /\ model = Null
        /\ callables = <<>>
        /\ call = NoCall
        /\ calls = 0
-----------------------------------------------------------------------------
\* write_neuropod_config.  An older version had no devices.
Package ==
  /\ package = Absent
  /\ package' = LET file == Written(setup.args)
                IN IF file \in {Absent, Empty} \/ ~setup.old THEN file
                   ELSE [file EXCEPT !.devices = Absent]
  /\ package' # Absent
  /\ UNCHANGED <<setup, model, callables, call, calls>>

\* load_model_config, in the constructor of a backend.
Load == /\ package # Absent /\ model = Null
        /\ Loaded(package) # Failed
        /\ model' = Loaded(package)
        /\ UNCHANGED <<setup, package, callables, call, calls>>

\* infer
Infer == /\ model # Null /\ call.at \in Ended \ {"crashed"} /\ calls < MaxCalls
         /\ \E inputs \in Inputs, requested \in Requests :
              call' = [NoCall EXCEPT !.at = "called", !.inputs = inputs, !.requested = requested]
         /\ calls' = calls + 1
         /\ UNCHANGED <<setup, package, model, callables>>

At(l) == call.at = l /\ UNCHANGED <<setup, package, model, calls>>
Goto(l) == call' = [call EXCEPT !.at = l]
Platform == model.platform

Validate == /\ At("called")
            /\ Goto(IF setup.unchecked \/ Validates(call.inputs, model.inputs) THEN "valid" ELSE "failed")
            /\ UNCHANGED callables

Seal == LET mapping == DeviceMapping(model.devices, setup.visible)
        IN /\ At("valid")
           /\ IF ~(DOMAIN call.inputs \subseteq DOMAIN mapping) THEN Goto("failed")
              ELSE call' = [call EXCEPT !.at = "sealed",
                              !.sealed = Sealed(call.inputs, mapping, Platform, setup.cuda)]
           /\ UNCHANGED callables
-----------------------------------------------------------------------------
\* TensorflowNeuropodBackend::infer_internal
OutputNames == IF call.requested # <<>> THEN call.requested
               ELSE [k \in DOMAIN model.outputs |-> model.outputs[k].name]

FeedTensorflow ==
  /\ At("sealed") /\ Platform = "tensorflow"
  /\ IF ToSet(OutputNames) \cup DOMAIN call.sealed \subseteq DOMAIN setup.graph.mapping
     THEN \E fed \in Feeds(setup.graph, call.sealed) :
            call' = [call EXCEPT !.at = "fed", !.fed = fed, !.fetches = Fetches(setup.graph, OutputNames)]
     ELSE Goto("failed")
  /\ UNCHANGED callables

\* Defect: the key has only the outputs.
KeyOfFetches(fed, fetches) == [feeds |-> {}, fetches |-> DOMAIN fetches]

\* get_handle_cache_key
Key(fed, fetches) == [feeds |-> DOMAIN fed, fetches |-> DOMAIN fetches]

\* get_callable
GetCallable ==
  LET key  == Key(call.fed, call.fetches)
      made == [feeds |-> Sorted(DOMAIN call.fed), fetches |-> Sorted(DOMAIN call.fetches)]
      use(callable) == call' = [call EXCEPT !.at = "ready", !.callable = callable]
  IN /\ At("fed") /\ Platform = "tensorflow"
     /\ IF key \in DOMAIN callables THEN use(callables[key]) /\ UNCHANGED callables
        ELSE IF Makes(setup.graph, made.feeds, made.fetches)
             THEN use(made) /\ callables' = Put(callables, key, made)
             ELSE Goto("failed") /\ UNCHANGED callables

\* RunCallable with the tensors in the order of their nodes; the outputs come in the
\* order of theirs.
RunCallable ==
  LET feeds   == Sorted(DOMAIN call.fed)
      fetches == Sorted(DOMAIN call.fetches)
      tensors == [k \in DOMAIN feeds |-> call.fed[feeds[k]]]
      ran     == Runs(setup.graph, call.callable, tensors)
      of(n)   == CHOOSE k \in DOMAIN fetches : call.fetches[fetches[k]] = n
  IN /\ At("ready")
     /\ IF ~CanRun(setup.graph, call.callable, tensors) THEN Goto("failed")
        ELSE call' = [call EXCEPT !.at = "filtered",
                        !.out = [n \in {call.fetches[node] : node \in DOMAIN call.fetches} |-> ran[of(n)]]]
     /\ UNCHANGED callables
-----------------------------------------------------------------------------
\* TorchNeuropodBackend::infer_internal
FeedTorch == /\ At("sealed") /\ Platform = "torchscript"
             /\ IF ~Takes(setup.graph, call.sealed) THEN Goto("failed")
                ELSE call' = [call EXCEPT !.at = "fed", !.fed = ArgsOf(setup.graph, call.sealed)]
             /\ UNCHANGED callables

\* The error for an empty list that is no string tensor reads the list's first item.
RunTorch == LET out == Collected(setup.graph, model.outputs, Bindings(setup.graph, call.fed))
            IN /\ At("fed") /\ Platform = "torchscript"
               /\ IF ~Forwards(setup.graph, call.fed) THEN Goto("failed")
                  ELSE IF ReadsPastEnd(setup.graph, model.outputs) THEN Goto("failed") \/ Goto("crashed")
                  ELSE IF out = Failed THEN Goto("failed")
                  ELSE call' = [call EXCEPT !.at = "ran", !.out = out]
               /\ UNCHANGED callables

\* PythonBridge::infer_internal
RunPython == LET out == PyAnswer(PyRead(package), setup.graph, ToNumpy(call.sealed))
             IN /\ At("sealed") /\ Platform = "python"
                /\ IF out = Failed THEN Goto("failed")
                   ELSE call' = [call EXCEPT !.at = "ran", !.out = FromNumpy(setup.graph, out)]
                /\ UNCHANGED callables

\* infer_internal with requested outputs: each is moved out of the map, so that a name
\* that is requested again gets what the first move left.
MoveOut(state, name) ==
  IF state = Failed \/ name \notin DOMAIN state.data THEN Failed
  ELSE [data |-> [state.data EXCEPT ![name] = Null], out |-> Put(state.out, name, state.data[name])]
Filter == LET moved == FoldLeft(MoveOut, [data |-> call.out, out |-> <<>>], call.requested)
          IN /\ At("ran")
             /\ IF call.requested = <<>> THEN Goto("filtered")
                ELSE IF moved = Failed THEN Goto("failed")
                ELSE call' = [call EXCEPT !.at = "filtered", !.out = moved.out]
             /\ UNCHANGED callables

\* The outputs are validated: a null pointer among them is not survived.
Answer == /\ At("filtered")
          /\ Goto(IF setup.unchecked THEN "answered"
                  ELSE IF \E n \in DOMAIN call.out : call.out[n] = Null THEN "crashed"
                  ELSE IF Validates(call.out, model.outputs) THEN "answered" ELSE "failed")
          /\ UNCHANGED callables
-----------------------------------------------------------------------------
Next == \/ Package \/ Load \/ Infer \/ Validate \/ Seal
        \/ FeedTensorflow \/ GetCallable \/ RunCallable \/ FeedTorch \/ RunTorch \/ RunPython
        \/ Filter \/ Answer

Spec == Init /\ [][Next]_vars
-----------------------------------------------------------------------------
(***************************************************************************)
(* What the packager accepts, the native library loads, with a device for  *)
(* each input, and so do the Python executors.  The packager lets an       *)
(* invalid version range through, and sizes that are no int.               *)
(***************************************************************************)
Sizes(specs) == UNION {{d.value : d \in ToSet(s.shape)} : s \in ToSet(specs)}
PackagesLoad ==
  package \notin {Absent, Empty} =>
    /\ PyRead(package) # Failed
    /\ package.semver # "invalid" /\ (\A n \in Sizes(package.inputs \o package.outputs) : n <= MaxInt) =>
         Loaded(package) # Failed /\ NamesOf(package.inputs) = DOMAIN Loaded(package).devices

(***************************************************************************)
(* Both validations accept just the inputs that the specs in config.json   *)
(* describe: there is one size for each symbol that fits all of them.      *)
(* Only such inputs are answered, and only with such outputs.              *)
(***************************************************************************)
SpecIsEnforced ==
  /\ call.at = "called" => \A accepted \in {Validates(call.inputs, model.inputs), PyValidates(call.inputs, package.inputs)} :
                             accepted = Conforms(call.inputs, package.inputs)
  /\ call.at = "answered" /\ ~setup.unchecked => /\ Conforms(call.inputs, package.inputs)
                                                  /\ Conforms(call.out, package.outputs)

\* The tensor that the model is to be given for an input.
Device(n) == IF package.devices = Absent THEN Gpu ELSE package.devices[n]
OnDevice(n) ==
  IF Platform = "torchscript" /\ setup.cuda /\ setup.visible = Gpu /\ n \in NamesOf(package.inputs)
  THEN [call.inputs[n] EXCEPT !.device = IF call.inputs[n].type = "string" THEN @ ELSE Device(n)]
  ELSE call.inputs[n]

\* What is lost on the way: two names for a node, the other kind of a dict, an output
\* that is requested twice and null characters.
KeyOf(n) == IF Platform = "tensorflow" THEN setup.graph.mapping[n] ELSE n
Lossy ==
  \/ /\ Platform = "tensorflow"
     /\ \E m, n \in DOMAIN setup.graph.mapping : m # n /\ KeyOf(m) = KeyOf(n)
  \/ /\ Platform = "torchscript" /\ IsDict(setup.graph)
     /\ \E n \in DOMAIN call.inputs : IsString(call.inputs[n]) # (Own(setup.graph)[1].kind = "strings")
  \/ /\ Platform # "tensorflow" /\ ~IsInjective(call.requested)
  \/ /\ Platform = "python"
     /\ \E n \in DOMAIN call.inputs : call.inputs[n].data \in DOMAIN Strip

\* The outputs of which TorchScript or Python returned memory that is not contiguous.
Strided ==
  IF Platform = "tensorflow" THEN {}
  ELSE {item.name : item \in {i \in ToSet(Named(setup.graph, model.outputs)) : ~i.contiguous}}

(***************************************************************************)
(* An answer has exactly the outputs that were requested, or those that    *)
(* the model has, each computed from the inputs of this call, every one of *)
(* them, under the right name and on the device that the package wants,    *)
(* whatever calls there were before.  The data of a strided output is not  *)
(* what the model computed, and the other outputs are not affected by it.  *)
(***************************************************************************)
AnswersAreFaithful ==
  call.at = "answered" /\ ~Lossy =>
    /\ DOMAIN call.out = IF call.requested # <<>> THEN ToSet(call.requested)
                         ELSE IF Platform = "tensorflow" THEN NamesOf(model.outputs)
                         ELSE NamesOf(Named(setup.graph, model.outputs))
    /\ \A n \in DOMAIN call.out \ Strided : LET from == call.out[n].data.from IN
         /\ call.out[n].data.of = KeyOf(n)
         /\ DOMAIN from = {KeyOf(i) : i \in DOMAIN call.inputs}
         /\ \A i \in DOMAIN call.inputs : from[KeyOf(i)] = OnDevice(i)

(***************************************************************************)
(* The native library and the Python executors, which load the same        *)
(* packages, refuse the same calls and give the same answers.  They differ *)
(* in what is lost, in empty lists, lists of numbers and strided tensors   *)
(* that a TorchScript model returns, in its arguments that are left to a   *)
(* default or are None without one, and in empty string tensors of         *)
(* TensorFlow.                                                             *)
(***************************************************************************)
DefaultMatters(arg) == arg.default = "value" \/ (arg.kind = "optional" /\ arg.default = "missing")
Differs ==
  \/ /\ Platform = "torchscript"
     /\ \E item \in ToSet(FlattenSeq(setup.graph.parts)) : item.is \in {"empty", "list"} \/ ~item.contiguous
  \/ /\ Platform = "torchscript" /\ ~IsDict(setup.graph)
     /\ \E arg \in ToSet(Own(setup.graph)) : arg.name \notin DOMAIN call.inputs /\ DefaultMatters(arg)
  \/ Platform = "tensorflow" /\ \E n \in DOMAIN setup.graph.out :
       setup.graph.out[n].type = "string" /\ 0 \in ToSet(setup.graph.out[n].dims)
ExecutorsAgree ==
  /\ call.at \in {"answered", "failed"} /\ call.requested = <<>> /\ ~setup.unchecked
  /\ Platform # "python" /\ ~Lossy /\ ~Differs
  => PyAnswer(PyRead(package), setup.graph, [n \in DOMAIN call.inputs |-> OnDevice(n)])
       = IF call.at = "answered" THEN call.out ELSE Failed
=============================================================================
