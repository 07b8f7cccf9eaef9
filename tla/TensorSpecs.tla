----------------------------- MODULE TensorSpecs -----------------------------
(***************************************************************************)
(* Tensors, the specs of a model's inputs and outputs, and their           *)
(* validation, by the native library (neuropod_backend.cc) and by the      *)
(* Python executors (neuropod_executor.py).                                *)
(*                                                                         *)
(* A tensor is [type, dims, device, data]; its data is an atom, or says    *)
(* what computed it from what.  A spec is [name, type, dims] as a          *)
(* ModelConfig has it, or [name, dtype, shape] as config.json has it, with *)
(* the JSON values of shape in the form [is, value, symbol].               *)
(***************************************************************************)
EXTENDS Integers, SequencesExt

CONSTANTS Symbols,  \* the symbols that shapes use
          MaxDim,   \* model bound: the size of a dimension
          Cpu, Gpu, \* the devices
          Failed,   \* the result of an operation that throws
          Null      \* a null pointer

\* symbol_actual_map, as far as it may be filled.
Sizings == UNION {[S -> 0 .. MaxDim] : S \in SUBSET Symbols}

ASSUME MaxDimAssumption == MaxDim \in Nat
ASSUME FailedAssumption == Failed \notin Sizings

IsTensor(t) == t.dims \in Seq(0 .. MaxDim)

\* A map with one more entry, or another value for a key that it has.
Put(map, key, value) == [k \in DOMAIN map \cup {key} |-> IF k = key THEN value ELSE map[k]]

NamesOf(specs) == {specs[k].name : k \in DOMAIN specs}

\* Dimension: a size, any size, or a symbol.
Dimension(value)  == [value |-> value, symbol |-> ""]
Symbolic(symbol)  == [value |-> -2, symbol |-> symbol]

\* The specs whose tensors are there: "For now, all tensors are optional".
Given(tensors, specs) == {k \in DOMAIN specs : specs[k].name \in DOMAIN tensors}

\* Each dimension next to what is expected of it, in the order of the comparison.
Compared(tensors, specs) ==
  FlattenSeq([k \in DOMAIN specs |->
                IF k \in Given(tensors, specs)
                THEN [i \in DOMAIN specs[k].dims |->
                        [dim |-> tensors[specs[k].name].dims[i], expected |-> specs[k].dims[i]]]
                ELSE <<>>])

\* The first use of a symbol decides its size, in seen (symbol_actual_map).
Bound(seen, symbol, dim) ==
  IF symbol \notin DOMAIN seen THEN Put(seen, symbol, dim)
  ELSE IF seen[symbol] = dim THEN seen ELSE Failed
Sized(seen, dim, value) == IF dim = value THEN seen ELSE Failed

\* Defect: a symbol has the size of its last use.
MatchLast(seen, c) ==
  CASE seen = Failed                            -> Failed
    [] seen # Failed /\ c.expected.value > 0    -> Sized(seen, c.dim, c.expected.value)
    [] seen # Failed /\ c.expected.value = -1   -> seen
    [] OTHER                                    -> Put(seen, c.expected.symbol, c.dim)

Match(seen, c) ==
  CASE seen = Failed                            -> Failed
    [] seen # Failed /\ c.expected.value > 0    -> Sized(seen, c.dim, c.expected.value)
    [] seen # Failed /\ c.expected.value = -1   -> seen
    [] seen # Failed /\ c.expected.value = -2   -> Bound(seen, c.expected.symbol, c.dim)
    [] OTHER                                    -> Failed

SameLayout(tensors, specs) ==
  \A k \in Given(tensors, specs) : LET t == tensors[specs[k].name] IN
    t.type = specs[k].type /\ Len(t.dims) = Len(specs[k].dims)

\* validate_tensors_against_specs
Validates(tensors, specs) ==
  /\ SameLayout(tensors, specs)
  /\ FoldLeft(Match, <<>>, Compared(tensors, specs)) # Failed
  /\ DOMAIN tensors \subseteq NamesOf(specs)

\* The same in Python, which takes the shapes as the config file has them.
PyMatch(seen, c) ==
  CASE seen = Failed                               -> Failed
    [] seen # Failed /\ c.expected.is = "null"     -> seen
    [] seen # Failed /\ c.expected.is = "int"      -> Sized(seen, c.dim, c.expected.value)
    [] seen # Failed /\ c.expected.is = "string"   -> Bound(seen, c.expected.symbol, c.dim)
    [] OTHER                                       -> Failed

PyValidates(tensors, specs) ==
  LET read == [k \in DOMAIN specs |->
                 [name |-> specs[k].name, type |-> specs[k].dtype, dims |-> specs[k].shape]]
  IN /\ DOMAIN tensors \subseteq NamesOf(specs)
     /\ SameLayout(tensors, read)
     /\ FoldLeft(PyMatch, <<>>, Compared(tensors, read)) # Failed

(***************************************************************************)
(* What both promise: there is one size for each symbol with which every   *)
(* tensor has the type and the shape that config.json gives for its name.  *)
(***************************************************************************)
Conforms(tensors, specs) ==
  /\ DOMAIN tensors \subseteq NamesOf(specs)
  /\ \E size \in [Symbols -> 0 .. MaxDim] : \A k \in DOMAIN specs :
       specs[k].name \in DOMAIN tensors =>
         LET t == tensors[specs[k].name]
             admits(d, n) == \/ d.is = "null"
                             \/ d.is = "int" /\ n = d.value
                             \/ d.is = "string" /\ n = size[d.symbol]
         IN /\ t.type = specs[k].dtype
            /\ Len(t.dims) = Len(specs[k].shape)
            /\ \A i \in DOMAIN t.dims : admits(specs[k].shape[i], t.dims[i])

-----------------------------------------------------------------------------
\* get_device_mapping: visible is the device that the options choose.
DeviceMapping(devices, visible) ==
  [n \in DOMAIN devices |-> IF devices[n] = Gpu /\ visible # Cpu THEN visible ELSE Cpu]

\* NeuropodTensor::to.  Only the numeric tensors of TorchScript move, if there is a GPU.
Moved(tensor, device, platform, cuda) ==
  IF platform = "torchscript" /\ tensor.type # "string" /\ cuda
  THEN [tensor EXCEPT !.device = device] ELSE tensor

\* Sealer::seal
Sealed(inputs, mapping, platform, cuda) ==
  [n \in DOMAIN inputs |-> Moved(inputs[n], mapping[n], platform, cuda)]
=============================================================================
