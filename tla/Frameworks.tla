------------------------------ MODULE Frameworks ------------------------------
(***************************************************************************)
(* How the backends hand their inputs to a framework and read its outputs: *)
(* tf_backend.cc, torch_backend.cc and python_bridge.cc with               *)
(* python_bindings.cc, and the executors in Python that do the same        *)
(* without the native library.                                             *)
(*                                                                         *)
(* External: what a framework computes.  A graph describes a model:        *)
(* - of TensorFlow: [mapping, out, needs], the names' nodes, the type and  *)
(*   dims of each node's tensor, and the nodes that must be fed;           *)
(* - of TorchScript: [args, form, parts], the arguments of forward, and    *)
(*   what it returns: a dict, a tuple of dicts, a named tuple or one item; *)
(* - in Python: [args, form, parts], with one dict of arrays or not.       *)
(* An argument is [name, kind, default]: one that is optional may be None, *)
(* and its default may be missing, none or another value.  Each part is a  *)
(* sequence of items [name, is, type, dims, contiguous].  The data of an   *)
(* output says which output it is, and of which inputs.                    *)
(***************************************************************************)
EXTENDS ModelConfig

CONSTANTS NodeOrder,  \* the nodes in the order of their names
          Strip,      \* strings that end with null characters, without them
          Garbled     \* what is read from memory as if it were contiguous, when it is not

\* The arguments of forward, without the class that Torch 1.2 added.
Own(graph) == SelectSeq(graph.args, LAMBDA a : a.kind # "class")

\* What the framework says of a graph.
Defaults(arg) == {"missing", "value"} \cup (IF arg.kind = "optional" THEN {"none"} ELSE {})
ItemsOf(graph) == UNION {ToSet(part) : part \in ToSet(graph.parts)}
IsGraph(platform, graph) ==
  /\ platform = "tensorflow" =>
       /\ \A n \in DOMAIN graph.mapping : graph.mapping[n] \in ToSet(NodeOrder)
       /\ \A n \in DOMAIN graph.out : IsTensor(graph.out[n])
  /\ platform \in {"torchscript", "python"} =>
       /\ graph.parts \in Seq(Seq(ItemsOf(graph)))
       /\ \A item \in ItemsOf(graph) : /\ IsTensor(item) /\ {"name", "is", "type", "contiguous"} \subseteq DOMAIN item
                                       /\ item.is = "strings" => item.type = "string"
                                       /\ item.is \in {"tensor", "array"} \/ item.contiguous
       /\ graph.form = "single" => graph.parts # <<>> /\ graph.parts[1] # <<>>
  /\ platform = "torchscript" => \A k \in DOMAIN Own(graph) : Own(graph)[k].default \in Defaults(Own(graph)[k])
  /\ platform = "python" => graph.form = "dict" /\ Len(graph.parts) = 1

Sorted(nodes) == FoldLeft(LAMBDA s, n : IF n \in nodes THEN Append(s, n) ELSE s, <<>>, NodeOrder)
Index(seq, e) == CHOOSE k \in DOMAIN seq : seq[k] = e
Out(of, type, dims, from) ==
  [type |-> type, dims |-> dims, device |-> Cpu, data |-> [of |-> of, from |-> from]]
-----------------------------------------------------------------------------
\* TensorFlow (external): a callable with its feeds and its fetches in order.
Node(graph, n, fed) == Out(n, graph.out[n].type, graph.out[n].dims, fed)
Makes(graph, feeds, fetches) == ToSet(feeds) \cup ToSet(fetches) \subseteq DOMAIN graph.out
CanRun(graph, callable, tensors) ==
  Len(tensors) = Len(callable.feeds) /\ graph.needs \subseteq ToSet(callable.feeds)
Runs(graph, callable, tensors) ==
  LET fed == [n \in ToSet(callable.feeds) |-> tensors[Index(callable.feeds, n)]]
  IN [k \in DOMAIN callable.fetches |-> Node(graph, callable.fetches[k], fed)]

\* Each node of the names, with a name that it has: the first one of them, for the
\* outputs in their order, and any, for the inputs of an unordered map.
Nodes(graph, names) == {graph.mapping[n] : n \in names}
Fetches(graph, names) ==
  [node \in Nodes(graph, ToSet(names)) |->
     names[CHOOSE k \in DOMAIN names : /\ graph.mapping[names[k]] = node
                                       /\ \A j \in 1 .. k - 1 : graph.mapping[names[j]] # node]]
Feeds(graph, inputs) ==
  LET named(node) == {n \in DOMAIN inputs : graph.mapping[n] = node}
      nodes       == Nodes(graph, DOMAIN inputs)
  IN {[node \in nodes |-> inputs[f[node]]] :
        f \in {g \in [nodes -> DOMAIN inputs] : \A node \in nodes : g[node] \in named(node)}}
-----------------------------------------------------------------------------
\* TorchScript
IsDict(graph) == Len(Own(graph)) = 1 /\ Own(graph)[1].kind \in {"tensors", "strings"}
IsString(t)   == t.type = "string"

\* A dict takes only the tensors, or only the lists of strings.  Otherwise an argument
\* is found by its name, and one that is not given is None.
Takes(graph, inputs) == IsDict(graph) \/ DOMAIN inputs \subseteq NamesOf(Own(graph))
ArgsOf(graph, inputs) ==
  LET own == Own(graph)
      fit == {n \in DOMAIN inputs : IsString(inputs[n]) = (own[1].kind = "strings")}
  IN IF IsDict(graph) THEN <<[n \in fit |-> inputs[n]]>>
     ELSE [k \in DOMAIN own |-> IF own[k].name \in DOMAIN inputs THEN inputs[own[k].name] ELSE Null]

\* External: each argument is passed, so that a default is of no use, and forward refuses
\* None for an argument that is not optional.  It knows each one by its name.
Forwards(graph, args) ==
  IsDict(graph) \/ \A k \in DOMAIN args : args[k] = Null => Own(graph)[k].kind = "optional"
Bindings(graph, args) ==
  LET given == {k \in DOMAIN args : args[k] # Null}
  IN IF IsDict(graph) THEN args[1]
     ELSE [n \in {Own(graph)[k].name : k \in given} |->
             args[CHOOSE k \in given : Own(graph)[k].name = n]]

\* insert_value_in_output; type is that of the spec, for a result that is not named.
Accepts(item, type) == \/ item.is = "tensor"
                       \/ item.is \in {"strings", "empty"} /\ type \in {"string", Null}
Value(item, from)   == Out(item.name, item.type, item.dims, from)

\* The native tensor has the dims of the result and its memory, read in row-major order: of
\* a result with other strides that is the wrong items, or memory past its end.
Wrapped(item, from) == IF item.contiguous THEN Value(item, from) ELSE [Value(item, from) EXCEPT !.data = Garbled]

\* Defect: an output that was returned twice is replaced.
InsertOver(out, item, type, from) ==
  IF out = Failed \/ ~Accepts(item, type) THEN Failed ELSE Put(out, item.name, Wrapped(item, from))

Insert(out, item, type, from) ==
  IF out = Failed \/ ~Accepts(item, type) \/ item.name \in DOMAIN out THEN Failed
  ELSE Put(out, item.name, Wrapped(item, from))

Named(graph, specs) == IF graph.form # "single" THEN FlattenSeq(graph.parts)
                       ELSE <<[graph.parts[1][1] EXCEPT !.name = specs[1].name]>>
Returns(graph, specs) == graph.form \in {"dict", "named", "tuple"} \/ (graph.form = "single" /\ Len(specs) = 1)

ReadsPastEnd(graph, specs) ==
  /\ graph.form = "single" /\ Len(specs) = 1
  /\ graph.parts[1][1].is = "empty" /\ specs[1].type # "string"

\* The end of infer_internal, with process_dict.
Collected(graph, specs, from) ==
  LET type == IF graph.form = "single" THEN specs[1].type ELSE Null
  IN IF ~Returns(graph, specs) THEN Failed
     ELSE FoldLeft(LAMBDA out, item : Insert(out, item, type, from), <<>>, Named(graph, specs))
-----------------------------------------------------------------------------
\* python_bindings.cc.  An array of strings has items of one length, padded with null
\* characters that are not kept; an array is read as if it were contiguous.
Stripped(data) == IF data \in DOMAIN Strip THEN Strip[data] ELSE data
ToNumpy(tensors) == [n \in DOMAIN tensors |-> [tensors[n] EXCEPT !.data = Stripped(@)]]
FromNumpy(graph, arrays) ==
  LET contiguous(n) == \A k \in DOMAIN graph.parts[1] : graph.parts[1][k].name = n => graph.parts[1][k].contiguous
  IN [n \in DOMAIN arrays |-> IF contiguous(n) THEN arrays[n] ELSE [arrays[n] EXCEPT !.data = Garbled]]

\* forward of the Python executor; the model is a function of the code in the package.
PyForward(graph, inputs) ==
  LET items == graph.parts[1]
  IN IF DOMAIN inputs # NamesOf(graph.args) \/ \E k \in DOMAIN items : items[k].is # "array" THEN Failed
     ELSE [n \in NamesOf(items) |-> Value(items[Index([k \in DOMAIN items |-> items[k].name], n)], inputs)]

\* forward of the TensorFlow executor: the last of two inputs of a node is fed.
PyTensorflow(graph, config, inputs) ==
  LET given     == Given(inputs, config.inputs)
      name(k)   == config.inputs[k].name
      fed       == [node \in Nodes(graph, {name(k) : k \in given}) |->
                      inputs[name(CHOOSE k \in given :
                                    /\ graph.mapping[name(k)] = node
                                    /\ \A j \in given : j > k => graph.mapping[name(j)] # node)]]
      out(n)    == Node(graph, graph.mapping[n], fed)
      noitem(n) == out(n).type = "string" /\ \E i \in DOMAIN out(n).dims : out(n).dims[i] = 0
      names     == NamesOf(config.outputs)
  IN IF \/ ~(names \cup {name(k) : k \in given} \subseteq DOMAIN graph.mapping)
        \/ ~(Nodes(graph, names) \cup DOMAIN fed \subseteq DOMAIN graph.out)
        \/ ~(graph.needs \subseteq DOMAIN fed) \/ \E n \in names : noitem(n)
     THEN Failed ELSE [n \in names |-> out(n)]

\* forward of the TorchScript executor; Torch refuses a dict of both kinds.  The inputs are
\* keyword arguments: one that is not given is left to its default.  What is returned is
\* made an array with its strides.
Filled(graph, inputs) ==
  LET own  == Own(graph)
      left == {own[k].name : k \in {j \in DOMAIN own : own[j].default = "value"}} \ DOMAIN inputs
  IN IF IsDict(graph) THEN inputs
     ELSE [n \in DOMAIN inputs \cup left |-> IF n \in left THEN "default" ELSE inputs[n]]
PyInsert(out, item, type, from) ==
  IF \/ out = Failed \/ item.name \in DOMAIN out
     \/ ~(item.is \in {"tensor", "strings"} \/ (item.is \in {"empty", "list"} /\ type = "string"))
  THEN Failed ELSE Put(out, item.name, Value(item, from))
PyTorch(graph, config, inputs) ==
  LET own      == Own(graph)
      required == {own[k].name : k \in {j \in DOMAIN own : own[j].default = "missing"}}
      called   == IF IsDict(graph) THEN \A n \in DOMAIN inputs : IsString(inputs[n]) = (own[1].kind = "strings")
                  ELSE required \subseteq DOMAIN inputs /\ DOMAIN inputs \subseteq NamesOf(own)
      type     == IF graph.form = "single" THEN config.outputs[1].dtype ELSE Null
  IN IF ~called \/ ~Returns(graph, config.outputs) THEN Failed
     ELSE FoldLeft(LAMBDA out, item : PyInsert(out, item, type, Filled(graph, inputs)), <<>>, Named(graph, config.outputs))

\* NeuropodExecutor.infer
PyAnswer(config, graph, inputs) ==
  LET forward == CASE config.platform = "python"      -> PyForward(graph, inputs)
                   [] config.platform = "tensorflow"  -> PyTensorflow(graph, config, inputs)
                   [] config.platform = "torchscript" -> PyTorch(graph, config, inputs)
  IN IF ~PyValidates(inputs, config.inputs) THEN Failed
     ELSE IF forward = Failed THEN Failed
     ELSE IF PyValidates(forward, config.outputs) THEN forward ELSE Failed
=============================================================================
