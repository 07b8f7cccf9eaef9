---------------------------- MODULE TensorShapes ----------------------------
(***************************************************************************)
(* The dims of a tensor, and how its constructor and its accessors find an *)
(* element in the buffer (compute_strides, TensorAccessor).                *)
(***************************************************************************)
EXTENDS Integers, Sequences, SequencesExt

\* accessor[i][j]...: the indices of the elements, counted from 0.
Indices(dims) == {i \in [DOMAIN dims -> UNION {0 .. dims[k] - 1 : k \in DOMAIN dims}] :
                    \A k \in DOMAIN dims : i[k] < dims[k]}

\* Defect: the product is updated before the stride is set.
StridesTooFar(dims) ==
  LET running[n \in 1 .. Len(dims) + 1] == IF n = Len(dims) + 1 THEN 1 ELSE running[n + 1] * dims[n]
  IN [n \in DOMAIN dims |-> running[n]]

\* compute_strides.  running[n] is running_product when out[n - 1] is set.
Strides(dims) ==
  LET running[n \in 0 .. Len(dims)] == IF n = Len(dims) THEN 1 ELSE running[n + 1] * dims[n + 1]
  IN [n \in DOMAIN dims |-> running[n]]

\* TensorAccessor::operator[]: offset[n] is the offset_ of the accessor that n brackets
\* return.  The last one adds its index without a stride.
Offset(dims, i) ==
  LET strides == Strides(dims)
      offset[n \in 0 .. Len(dims)] ==
        IF n = 0 THEN 0
        ELSE offset[n - 1] + (IF n = Len(dims) THEN i[n] ELSE strides[n] * i[n])
  IN offset[Len(dims)]

\* Range-based loops over an accessor: for every index so far, each of the next dimension
\* from begin() to end().
Visited(dims) ==
  LET visited[n \in 0 .. Len(dims)] ==
        IF n = 0 THEN << <<>> >>
        ELSE FlattenSeq([k \in DOMAIN visited[n - 1] |->
               [x \in 1 .. dims[n] |-> Append(visited[n - 1][k], x - 1)]])
  IN visited[Len(dims)]
=============================================================================
