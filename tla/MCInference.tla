----------------------------- MODULE MCInference -----------------------------
(* Packages that are right and wrong in each way that their readers look at, *)
(* and models of each platform with the forms of inputs and outputs that the *)
(* backends treat differently.                                               *)
EXTENDS Inference

CONSTANTS f, g, s, s0

MCNumpy == [float32 |-> "float32", single |-> "float32", string |-> "string", bool |-> "bool"]
MCNodeOrder == <<"n1", "n2", "n3", "n4", "n9">>
MCStrip == s0 :> s

AnyDim     == [is |-> "null", value |-> 0, symbol |-> ""]
IntDim(n)  == [is |-> "int", value |-> n, symbol |-> ""]
Sym     == [is |-> "string", value |-> 0, symbol |-> "n"]
Other   == [is |-> "bool", value |-> 1, symbol |-> ""]
Spec2(name, dtype, shape) == [name |-> name, dtype |-> dtype, shape |-> shape]

Floats  == <<Spec2("x", "single", <<Sym, AnyDim>>), Spec2("y", "float32", <<Sym>>)>>
Strings == <<Spec2("x", "float32", <<AnyDim, Sym>>), Spec2("y", "string", <<Sym>>)>>
Square  == <<Spec2("x", "float32", <<Sym, Sym>>), Spec2("y", "float32", <<IntDim(2)>>)>>
P       == <<Spec2("p", "float32", <<AnyDim>>)>>
PQ      == P \o <<Spec2("q", "float32", <<IntDim(1)>>)>>
S       == <<Spec2("p", "string", <<AnyDim>>)>>

Tensor(type, dims, data) == [type |-> type, dims |-> dims, device |-> Cpu, data |-> data]
Tensors(n) == IF n = "x" THEN {Tensor("float32", d, f) : d \in {<<1, 2>>, <<2, 1>>, <<2, 2>>, <<2>>}}
              ELSE {Tensor("float32", <<2>>, g), Tensor("float32", <<1>>, g),
                    Tensor("string", <<2>>, s), Tensor("string", <<2>>, s0)}
MCInputs   == UNION {{h \in [ns -> Tensors("x") \cup Tensors("y")] : \A n \in ns : h[n] \in Tensors(n)} :
                       ns \in {{}, {"x"}, {"y"}, {"x", "y"}, {"y", "z"}}}
MCRequests == {<<>>, <<"p">>, <<"q", "p">>, <<"q", "q">>, <<"r">>}

Args(platform, inputs, outputs) ==
  [name |-> "model", platform |-> platform, semver |-> "absent", inputs |-> inputs, outputs |-> outputs, ops |-> <<>>,
   devices |-> [y |-> Cpu], default |-> Gpu]
Setup(args, graph) == [args |-> args, old |-> FALSE, graph |-> graph, visible |-> Gpu, cuda |-> TRUE, unchecked |-> FALSE]

\* TensorFlow: the order of the nodes is not that of the names.
F(dims)   == [type |-> "float32", dims |-> dims]
TfOut     == [n1 |-> F(<<1>>), n2 |-> F(<<2>>), n3 |-> F(<<1, 1>>), n4 |-> F(<<2>>)]
Tf        == [mapping |-> [x |-> "n4", y |-> "n3", p |-> "n2", q |-> "n1"], out |-> TfOut, needs |-> {"n4"}]
TfAlias   == [Tf EXCEPT !.mapping.q = "n2"]
TfShared  == [Tf EXCEPT !.mapping.y = "n4"]
TfMissing == [Tf EXCEPT !.mapping.q = "n9"]
TfSetups  == {Setup(Args("tensorflow", Floats, PQ), gr) : gr \in {Tf, TfAlias, TfShared, TfMissing}}
             \cup {Setup(Args("tensorflow", Square, PQ), [Tf EXCEPT !.needs = {}])}

\* TorchScript
Item(name, is, type, dims) == [name |-> name, is |-> is, type |-> type, dims |-> dims, contiguous |-> TRUE]
Fp == Item("p", "tensor", "float32", <<2>>)
Fq == Item("q", "tensor", "float32", <<1>>)
Arg(name, kind, default) == [name |-> name, kind |-> kind, default |-> default]
Self == Arg("self", "class", "missing")
Y    == Arg("y", "tensor", "missing")
XY   == <<Self, Y, Arg("x", "optional", "none")>>
Torch(args, form, parts) == [args |-> args, form |-> form, parts |-> parts]
TorchSetups ==
  {Setup(Args("torchscript", Floats, PQ), gr) :
     gr \in {Torch(XY, "dict", <<<<Fp, Fq>>>>), Torch(XY, "tuple", <<<<Fp>>, <<Fq>>>>),
             Torch(XY, "tuple", <<<<Fp, Fq>>, <<Fp>>>>), Torch(XY, "single", <<<<Fp>>>>),
             Torch(<<Arg("inputs", "tensors", "missing")>>, "named", <<<<Fp, Fq>>>>),
             Torch(XY, "dict", <<<<[Fp EXCEPT !.contiguous = FALSE], Fq>>>>),
             Torch(<<Self, Y, Arg("x", "optional", "missing")>>, "dict", <<<<Fp, Fq>>>>),
             Torch(<<Self, Y, Arg("x", "optional", "value")>>, "dict", <<<<Fp, Fq>>>>),
             Torch(<<Self, Arg("y", "tensor", "value"), Arg("x", "optional", "none")>>, "dict", <<<<Fp, Fq>>>>),
             Torch(XY, "dict", <<<<Fp, Item("q", "list", "float32", <<1>>)>>>>),
             Torch(XY, "other", <<<<>>>>)}}
  \cup {Setup(Args("torchscript", Strings, specs), gr) :
     specs \in {P, S},
     gr \in {Torch(<<Self, Arg("inputs", kind, "missing")>>, "single", <<<<item>>>>) :
               kind \in {"tensors", "strings"},
               item \in {Fp, Item("p", "strings", "string", <<2>>), Item("p", "empty", "string", <<0>>)}}}

\* Python
Array(name, type, dims, contiguous) == [name |-> name, is |-> "array", type |-> type, dims |-> dims, contiguous |-> contiguous]
Py(items) == [args |-> <<Arg("x", "tensor", "missing"), Y>>, form |-> "dict", parts |-> <<items>>]
PySetups ==
  {Setup(Args("python", Strings, PQ), Py(items)) :
     items \in {<<Array("p", "float32", <<2>>, TRUE), Array("q", "float32", <<1>>, TRUE)>>,
                <<Array("p", "float32", <<2>>, FALSE), Array("q", "float32", <<1>>, TRUE)>>,
                <<Array("p", "float32", <<2>>, TRUE), [Array("q", "float32", <<1>>, TRUE) EXCEPT !.is = "other"]>>}}

\* Packages that are refused, or loaded in other ways.
Base == Setup(Args("torchscript", Floats, PQ), Torch(XY, "dict", <<<<Fp, Fq>>>>))
Wrong(spec) == [Base EXCEPT !.args.inputs = <<spec>>]
OtherSetups ==
  {Wrong(Spec2("x", "bool", <<AnyDim>>)), Wrong(Spec2("x", "quaternion", <<AnyDim>>)), Wrong(Spec2(NotAString, "single", <<AnyDim>>)),
   Wrong(Spec2("x", "single", NotAList)), Wrong(Spec2("x", "single", <<Other>>)), Wrong(Spec2("x", "single", <<IntDim(0)>>)),
   Wrong(Spec2("x", "single", <<IntDim(9)>>)), [Base EXCEPT !.args.semver = "invalid"], [Base EXCEPT !.args.default = "TPU"],
   [Base EXCEPT !.args.name = NotAString], [Base EXCEPT !.args.platform = NotAString], [Base EXCEPT !.args.ops = <<NotAString>>],
   [Base EXCEPT !.args.devices = [z |-> Cpu]], [Base EXCEPT !.old = TRUE], [Base EXCEPT !.cuda = FALSE],
   [Base EXCEPT !.visible = Cpu], [Base EXCEPT !.unchecked = TRUE]}

MCSetups == TfSetups \cup TorchSetups \cup PySetups \cup OtherSetups
=============================================================================
