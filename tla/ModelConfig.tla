----------------------------- MODULE ModelConfig -----------------------------
(***************************************************************************)
(* The configuration of a package: what the packager writes, and what the  *)
(* two readers of config.json make of it (config_utils.py, config_utils.cc *)
(* and dtype_utils.py).                                                    *)
(*                                                                         *)
(* The arguments of a packager are [name, platform, semver, inputs,        *)
(* outputs, ops, devices, default], with specs in which a name, a dtype or a shape  *)
(* may be wrong.  A file is Absent, Empty, or the JSON object.             *)
(***************************************************************************)
EXTENDS TensorSpecs

CONSTANTS Numpy,      \* the data types that numpy knows, with their canonical names
          DTypes,     \* ALLOWED_DTYPES and type_mapping
          MaxInt,     \* the largest value that Json::Value::isInt accepts
          Absent,     \* a file or a member that is not there
          Empty,      \* a file that was opened for writing and got nothing
          NotAString,
          NotAList

ASSUME MaxIntAssumption == MaxInt \in Nat

\* The specs that a packager may be given.
Items == [is : STRING, value : Int, symbol : Symbols \cup {""}]
AreSpecs(specs) ==
  /\ specs \in Seq(ToSet(specs))
  /\ \A s \in ToSet(specs) :
       /\ s \in [name : {s.name}, dtype : {s.dtype}, shape : {NotAList} \cup Seq(Items)]
       /\ s.shape # NotAList => \A i \in DOMAIN s.shape : s.shape[i].is = "string" => s.shape[i].symbol \in Symbols

\* get_dtype_name
Canonical(specs) == [k \in DOMAIN specs |-> [specs[k] EXCEPT !.dtype = Numpy[@]]]

\* validate_tensor_spec
PyItemIsValid(d) == d.is \in {"null", "string"} \/ (d.is = "int" /\ d.value > 0)
PySpecIsValid(specs) ==
  \A k \in DOMAIN specs : /\ specs[k].dtype \in DTypes
                          /\ specs[k].name # NotAString
                          /\ specs[k].shape # NotAList
                          /\ \A i \in DOMAIN specs[k].shape : PyItemIsValid(specs[k].shape[i])

\* validate_neuropod_config
PyConfigIsValid(c) ==
  /\ c.name # NotAString /\ c.platform # NotAString
  /\ PySpecIsValid(c.inputs) /\ PySpecIsValid(c.outputs)
  /\ c.ops # NotAList /\ \A k \in DOMAIN c.ops : c.ops[k] # NotAString
  /\ DOMAIN c.devices = NamesOf(c.inputs)
  /\ \A n \in DOMAIN c.devices : c.devices[n] \in {Cpu, Gpu}

\* write_neuropod_config
Config(args) ==
  [name |-> args.name, platform |-> args.platform, semver |-> args.semver, ops |-> args.ops,
   inputs |-> Canonical(args.inputs), outputs |-> Canonical(args.outputs),
   devices |-> [n \in NamesOf(args.inputs) |->
                  IF n \in DOMAIN args.devices THEN args.devices[n] ELSE args.default]]

\* Defect: what is written is not validated.
WrittenUnchecked(args) ==
  IF \E s \in ToSet(args.inputs \o args.outputs) : s.dtype \notin DOMAIN Numpy THEN Absent ELSE Config(args)

\* The file is opened after the dtypes are looked up and before the config is validated.
Written(args) ==
  IF \E s \in ToSet(args.inputs \o args.outputs) : s.dtype \notin DOMAIN Numpy THEN Absent
  ELSE IF PyConfigIsValid(Config(args)) THEN Config(args) ELSE Empty

\* An older package does not say on which devices its inputs are.
Everywhere(device, inputs) == [n \in NamesOf(inputs) |-> device]

Completed(file) == IF file.devices # Absent THEN file
                   ELSE [file EXCEPT !.devices = Everywhere(Gpu, file.inputs)]

\* read_neuropod_config
PyRead(file) == IF file # Empty /\ PyConfigIsValid(Completed(file)) THEN Completed(file) ELSE Failed
-----------------------------------------------------------------------------
\* get_dims_from_json
ItemIsValid(d) == d.is \in {"null", "string"} \/ (d.is = "int" /\ d.value \in 1 .. MaxInt)
Dim(d) == CASE d.is = "int"    -> Dimension(d.value)
            [] d.is = "null"   -> Dimension(-1)
            [] d.is = "string" -> Symbolic(d.symbol)

\* The loop over input_spec and output_spec, and convert_to_tensor_type.
SpecIsValid(s) == /\ s.name # NotAString
                  /\ s.shape # NotAList /\ \A i \in DOMAIN s.shape : ItemIsValid(s.shape[i])
                  /\ s.dtype \in DTypes
Specs(specs) == [k \in DOMAIN specs |->
                   [name |-> specs[k].name, type |-> specs[k].dtype,
                    dims |-> [i \in DOMAIN specs[k].shape |-> Dim(specs[k].shape[i])]]]

\* load_model_config
Loads(file) ==
  /\ file # Empty
  /\ file.name # NotAString /\ file.platform # NotAString
  /\ file.semver # "invalid"
  /\ \A s \in ToSet(file.inputs \o file.outputs) : SpecIsValid(s)
  /\ file.devices # Absent => \A n \in DOMAIN file.devices : file.devices[n] \in {Cpu, Gpu}
ConfigOf(file) ==
  [platform |-> file.platform, inputs |-> Specs(file.inputs), outputs |-> Specs(file.outputs),
   devices |-> IF file.devices # Absent THEN file.devices ELSE Everywhere(Gpu, file.inputs)]
Loaded(file) == IF Loads(file) THEN ConfigOf(file) ELSE Failed
=============================================================================
