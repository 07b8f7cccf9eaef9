--------------------------- MODULE MCTensorLayout ---------------------------
(* Two tensors of a few shapes. *)
EXTENDS TensorLayout

CONSTANTS A,  \* a string
          T1

Make(kind, type, dims) == [kind |-> kind, type |-> type, dims |-> dims]

\* A scalar of rank 0 and one of rank 1, an empty tensor, rows, columns, a square
\* and a cuboid; beside them a small one of each type to compare with.
MCMakes == [t \in Tensors |->
  IF t = T1
  THEN {Make("generic", "number", dims) : dims \in {<<>>, <<1>>, <<2>>, <<2, 1>>}}
  \cup {Make("tensorflow", "number", dims) : dims \in {<<0>>, <<2, 0>>, <<1, 2>>, <<3, 1>>}}
  \cup {Make("torch", "number", <<2, 2>>)}
  \cup {Make("torch", "string", dims) : dims \in {<<2>>, <<2, 1>>}}
  \cup {Make("generic", "string", <<1, 2>>), Make("tensorflow", "string", <<2, 1, 2>>)}
  ELSE {Make("generic", "number", <<1, 2>>), Make("torch", "string", <<2>>)}]
MCValues  == [type \in {"number", "string"} |-> IF type = "number" THEN {0, Unit} ELSE {Blank, A}]
MCVectors == [number |-> {<<Unit, Unit, 0, 0>>, <<Unit, 0, 0>>, <<>>}, string |-> {<<A, Blank>>, <<A>>}]

\* 1.5, 2.5; nothing; 0, 2; and steps of 0.5 and 1.5.
MCRanges == {[start |-> 3, end |-> 7, step |-> 2], [start |-> 4, end |-> 4, step |-> 2],
             [start |-> 0, end |-> 7, step |-> 4],
             [start |-> 0, end |-> 2, step |-> 1], [start |-> 0, end |-> 5, step |-> 3]}
=============================================================================
