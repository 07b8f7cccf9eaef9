---------------------------- MODULE TensorLayout ----------------------------
(***************************************************************************)
(* NeuropodTensor, TypedNeuropodTensor<T>, its subclasses and the          *)
(* factories of NeuropodTensorAllocator: where a tensor keeps the element  *)
(* of an index, and what each call reads and writes there.                 *)
(*                                                                         *)
(* A tensor is [kind, type, dims, data]: data are the cells of its buffer, *)
(* and the strides and the number of elements follow from the dims.  Kinds *)
(* are "generic", "torch" and "tensorflow", types "number" and "string".   *)
(* A number stands for the bits that memcmp compares.                      *)
(***************************************************************************)
EXTENDS TensorShapes, FiniteSets

CONSTANTS Tensors,
          Makes,    \* what each tensor can be made as: sets of [kind, type, dims]
          Values, Vectors, Ranges, Unit, Blank, Null,
          IntMax,   \* the largest int: 2^31 - 1 in the build
          Careful   \* whether callers count the strings that they copy in, and models return
                    \* contiguous tensors

\* The values that a buffer can hold.
Cell == Int \cup Values["string"] \cup {Blank}

ASSUME LayoutAssumption == /\ Unit \in Nat \ {0} /\ IntMax \in Nat \ {0} /\ Careful \in BOOLEAN
                           /\ \A r \in Ranges : /\ r.start \in Int /\ r.end \in Int /\ r.start <= r.end
                                               /\ r.step \in Nat \ {0}
ASSUME ValuesAssumption == /\ DOMAIN Values = {"number", "string"} /\ Values["number"] \subseteq Int
                           /\ \A type \in DOMAIN Values : Vectors[type] \subseteq Seq(Values[type])
ASSUME MakesAssumption  == /\ DOMAIN Makes = Tensors
                           /\ \A t \in Tensors : Makes[t] \subseteq [kind : {"generic", "torch", "tensorflow"},
                                                                   type : DOMAIN Values, dims : Seq(Nat)]
ASSUME NullAssumption   == \A make \in UNION Range(Makes) :
                             /\ Null \notin [kind : {make.kind}, type : {make.type}, dims : {make.dims}, data : Seq(Cell)]
                             /\ Null \notin [type : {make.type}, dims : {make.dims}, value : [Indices(make.dims) -> Cell]]

VARIABLES tensor,   \* what each name refers to
          answer,   \* which tensor was used last, and what the call returned or threw
          items     \* and the values that it returned

vars == <<tensor, answer, items>>

Contents == INSTANCE TensorContents WITH
  Shapes   <- {make.dims : make \in UNION Range(Makes)},
  contents <- [t \in Tensors |->
    IF tensor[t] = Null THEN Null
    ELSE [type  |-> tensor[t].type,
          dims  |-> tensor[t].dims,
          value |-> [i \in Indices(tensor[t].dims) |-> tensor[t].data[Offset(tensor[t].dims, i) + 1]]]]

\* compute_num_elements: std::accumulate keeps the product in the type of its initial
\* value, an int, after each multiplication in int64_t.
ToInt(x) == IF x <= IntMax THEN x ELSE ((x + IntMax + 1) % (2 * (IntMax + 1))) - IntMax - 1
NumElements(dims) ==
  LET product[n \in 0 .. Len(dims)] == IF n = 0 THEN 1 ELSE ToInt(product[n - 1] * dims[n])
  IN product[Len(dims)]

\* The frameworks allocate by the shape, Neuropod's own buffers by the number of elements.
Cells(make) == IF make.kind = "generic" \/ (make.kind = "torch" /\ make.type = "string")
               THEN NumElements(make.dims) ELSE Cardinality(Indices(make.dims))

\* A negative number of elements becomes a size_t that no vector of strings can have;
\* malloc returns NULL for it.
Allocates(make) == /\ make.kind = "torch" /\ make.type = "string" => Len(make.dims) = 1
                   /\ make.kind # "tensorflow" /\ make.type = "string" => NumElements(make.dims) >= 0

\* std::fill_n with such a size does not return.
Fills(make) == make.type = "number" /\ Allocates(make) /\ NumElements(make.dims) >= 0

Init == tensor = [t \in Tensors |-> Null] /\ answer = <<>> /\ items = <<>>
-----------------------------------------------------------------------------
Holds(t)         == tensor[t] # Null
Becomes(t, x)    == tensor' = [tensor EXCEPT ![t] = x] /\ answer' = <<t, "fine">> /\ items' = <<>>
Answers(t, a)    == answer' = <<t, a>> /\ items' = <<>> /\ UNCHANGED tensor
Returns(t, list) == answer' = <<t, "items">> /\ items' = list /\ UNCHANGED tensor

\* allocate_tensor; what malloc and the frameworks return for numbers is not initialized.
Buffers(make) == [1 .. Cells(make) -> IF make.type = "string" THEN {Blank} ELSE Values["number"]]
Tensor(make, data) == [kind |-> make.kind, type |-> make.type, dims |-> make.dims, data |-> data]

Allocate(t) == \E make \in Makes[t] :
                 /\ ~Holds(t)
                 /\ IF Allocates(make) THEN \E data \in Buffers(make) : Becomes(t, Tensor(make, data))
                    ELSE Answers(t, "unsupported")

\* The tensor takes over memory that holds these elements.
Wraps(t, make, memory, elements) == /\ tensor' = [tensor EXCEPT ![t] = Tensor(make, memory)]
                                    /\ answer' = <<t, "wrapped">> /\ items' = elements

\* tensor_from_memory: numbers that the caller has written, in row-major order.
Wrap(t) == \E make \in Makes[t] :
             /\ ~Holds(t)
             /\ IF make.type = "string" THEN Answers(t, "unsupported")
                ELSE \E memory \in Vectors["number"] :
                       /\ Len(memory) = Cardinality(Indices(make.dims))
                       /\ Wraps(t, make, memory, memory)

\* What is in the memory of a framework's tensor with these elements.  A torch tensor that
\* is a transposed or expanded view has others, or those of someone else, in its place.
Memories(make, elements) == IF Careful \/ make.kind # "torch" \/ make.type = "string" THEN {elements}
                            ELSE [DOMAIN elements -> Values["number"]]

\* The constructors that every output comes from take the shape and the memory of a
\* framework's tensor, but no strides; torch has lists for strings.
WrapNative(t) == \E make \in Makes[t] : \E elements \in Vectors[make.type] :
                   /\ ~Holds(t) /\ make.kind # "generic"
                   /\ make.kind = "torch" /\ make.type = "string" => Len(make.dims) = 1
                   /\ Len(elements) = Cardinality(Indices(make.dims))
                   /\ \E memory \in Memories(make, elements) : Wraps(t, make, memory, elements)

\* full, zeros and ones: std::fill_n; the rest of the buffer stays what it was.
Rest(make) == [NumElements(make.dims) + 1 .. Cells(make) -> Values["number"]]
Filled(make, v, rest) == [k \in 1 .. Cells(make) |-> IF k <= NumElements(make.dims) THEN v ELSE rest[k]]
Full(t) == \E make \in Makes[t], v \in Values["number"] :
             /\ ~Holds(t) /\ Fills(make)
             /\ \E rest \in Rest(make) : Becomes(t, Tensor(make, Filled(make, v, rest)))

\* eye: zeros, and then accessor[i][i] = 1.
Diagonal(dims) == {Offset(dims, i) + 1 : i \in {i \in Indices(dims) : i[1] = i[2]}}
Eye(t) == \E make \in Makes[t] :
            /\ ~Holds(t) /\ Fills(make) /\ Len(make.dims) = 2
            /\ \E rest \in Rest(make) :
                 Becomes(t, Tensor(make, [k \in 1 .. Cells(make) |->
                   IF k \in Diagonal(make.dims) THEN Unit ELSE Filled(make, 0, rest)[k]]))

\* arange: ceil((end - start) / step) numbers.  val is an int, so that val += step drops
\* what is less than Unit.
RangeSize(r) == -((r.start - r.end) \div r.step)
RangeData(r) ==
  LET val[k \in 0 .. RangeSize(r)] == IF k = 0 THEN 0 ELSE (val[k - 1] * Unit + r.step) \div Unit
  IN [k \in 1 .. RangeSize(r) |-> r.start + val[k - 1] * Unit]
Arange(t) == \E r \in Ranges, make \in Makes[t] :
               /\ ~Holds(t) /\ make.type = "number" /\ make.dims = <<RangeSize(r)>>
               /\ tensor' = [tensor EXCEPT ![t] = Tensor(make, RangeData(r))]
               /\ answer' = <<t, "range">> /\ items' = RangeData(r)

Free(t) == Holds(t) /\ Becomes(t, Null)
-----------------------------------------------------------------------------
Numel(t) == NumElements(tensor[t].dims)

\* as_typed_tensor<T>()->accessor<N>(): assure_type and assure_rank.
Access(t, type, rank) == /\ Holds(t)
                         /\ type # tensor[t].type \/ rank # Len(tensor[t].dims)
                         /\ Answers(t, "wrong type or rank")

\* accessor[i[1]]...[i[N]] = v, through a StringProxy for strings.
Set(t, i, v) == LET at == Offset(tensor[t].dims, i)
                IN /\ at < Len(tensor[t].data)
                   /\ Becomes(t, [tensor[t] EXCEPT !.data[at + 1] = v])

\* Whether a call of copy_from with the vector can be made: a generic string tensor takes
\* any, so that its caller has to count.
Callable(t, vector) == ~Careful \/ Len(vector) = Numel(t)

\* copy_from: memcpy for numbers, one by one in the frameworks' string tensors, and an
\* assignment to the vector of a generic one.
Expected(t) == IF tensor[t].kind = "tensorflow" /\ tensor[t].type = "string"
               THEN Len(tensor[t].data) ELSE Numel(t)
Overwritten(data, vector) == [k \in DOMAIN data |-> IF k <= Len(vector) THEN vector[k] ELSE data[k]]
CopyFrom(t, vector) ==
  /\ Holds(t)
  /\ IF tensor[t].kind = "generic" /\ tensor[t].type = "string"
     THEN Callable(t, vector) /\ Becomes(t, [tensor[t] EXCEPT !.data = vector])
     ELSE IF Len(vector) # Expected(t) THEN Answers(t, "wrong size")
     ELSE Becomes(t, [tensor[t] EXCEPT !.data = Overwritten(@, vector)])

\* What is read outside of the buffer is undefined.
Readable(t) == Holds(t) /\ Numel(t) \in 0 .. Len(tensor[t].data)

\* get_data_as_vector
GetDataAsVector(t) == Readable(t) /\ Returns(t, SubSeq(tensor[t].data, 1, Numel(t)))

\* for (const auto &row : accessor) for (const auto &item : row)
Iterate(t) ==
  LET visited == Visited(tensor[t].dims)
  IN /\ Readable(t) /\ Len(tensor[t].dims) > 0
     /\ Returns(t, [k \in DOMAIN visited |-> tensor[t].data[Offset(tensor[t].dims, visited[k]) + 1]])

AsScalar(t) ==
  /\ Holds(t)
  /\ IF tensor[t].type = "number" /\ tensor[t].dims = <<1>>
     THEN Returns(t, <<tensor[t].data[1]>>) ELSE Answers(t, "wrong type or rank")

\* Defect: the dims are not compared.
SameItems(t, u) == /\ tensor[t].type = tensor[u].type
                   /\ Numel(t) = Numel(u)
                   /\ \A k \in 1 .. Numel(t) : tensor[t].data[k] = tensor[u].data[k]

\* operator==
Equal(t, u) == /\ tensor[t].type = tensor[u].type
               /\ tensor[t].dims = tensor[u].dims
               /\ \A k \in 1 .. Numel(t) : tensor[t].data[k] = tensor[u].data[k]
Compare(t, u) == /\ Readable(t) /\ Readable(u)
                 /\ answer' = <<t, IF Equal(t, u) THEN "equals" ELSE "differs from", u>>
                 /\ items' = <<>> /\ UNCHANGED tensor

Next == \E t \in Tensors :
          \/ Allocate(t) \/ Wrap(t) \/ WrapNative(t) \/ Full(t) \/ Eye(t) \/ Arange(t) \/ Free(t)
          \/ \E type \in DOMAIN Values, rank \in 1 .. 2 : Access(t, type, rank)
          \/ /\ Holds(t)
             /\ \/ \E i \in Indices(tensor[t].dims), v \in Values[tensor[t].type] : Set(t, i, v)
                \/ \E vector \in Vectors[tensor[t].type] : CopyFrom(t, vector)
          \/ GetDataAsVector(t) \/ Iterate(t) \/ AsScalar(t)
          \/ \E u \in Tensors : Compare(t, u)

Spec == Init /\ [][Next]_vars
-----------------------------------------------------------------------------
\* The accessors reach each cell by exactly one index and none outside of the buffer, and
\* get_num_elements counts the cells: every copy, comparison and conversion to a vector
\* takes its size from it.
AccessorsReachAllCells ==
  \A t \in Tensors : Holds(t) =>
    LET dims == tensor[t].dims
    IN /\ {Offset(dims, i) : i \in Indices(dims)} = 0 .. Len(tensor[t].data) - 1
       /\ \A i, j \in Indices(dims) : Offset(dims, i) = Offset(dims, j) => i = j
       /\ Len(tensor[t].data) = Numel(t)

\* Whatever the kind of a tensor is and whether Neuropod or a framework made it, the calls
\* that fill, index, iterate over, copy and compare it answer as for a value for each
\* index, for callers and models that are Careful; TensorContents says which numbers of a
\* range it does not promise.
ImplementsContents == Contents!Spec
=============================================================================
