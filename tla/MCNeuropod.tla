----------------------------- MODULE MCNeuropod -----------------------------
(* Two versions of TensorFlow, of which the default load specs name only one *)
(* that is installed, under both versions, as the specs of the code do.  An  *)
(* override names another one, and one that is not there.                    *)
EXTENDS Neuropod, TLC

CONSTANTS tf1, tf2, torch, py, a, b, c

MCLibs       == {tf1, tf2, torch, py}
MCLibType    == tf1 :> "tensorflow" @@ tf2 :> "tensorflow" @@ torch :> "torchscript" @@ py :> "python"
MCLibVersion == tf1 :> 1 @@ tf2 :> 2 @@ torch :> 1 @@ py :> 1
Load(type, version, path) == [type |-> type, version |-> version, path |-> path]
MCDefaults   == <<Load("tensorflow", 1, tf2), Load("tensorflow", 2, tf2),
                  Load("torchscript", 1, torch), Load("python", 1, py)>>
MCOverrides  == {<<>>, <<Load("tensorflow", 1, tf1), Load("python", 1, "missing")>>}
Model(platform, range, ops, zip) == [platform |-> platform, range |-> range, ops |-> ops, zip |-> zip]
MCModels     == {Model("tensorflow", {1}, <<a, b>>, TRUE), Model("tensorflow", {1, 2}, <<b>>, FALSE),
                 Model("torchscript", {1}, <<c>>, TRUE), Model("python", {1}, <<>>, TRUE)}
Symmetry     == Permutations(Threads)
=============================================================================
