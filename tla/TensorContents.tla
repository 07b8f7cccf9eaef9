--------------------------- MODULE TensorContents ---------------------------
(***************************************************************************)
(* What a tensor promises to its user: a value of its type for each index  *)
(* of its shape, set and read by the index, or all at once by a vector     *)
(* that lists the values with the last index running fastest.  Nothing is  *)
(* said of memory, strides or frameworks.                                  *)
(***************************************************************************)
EXTENDS TensorShapes, FiniteSets

CONSTANTS Tensors,   \* the tensors a program can hold
          Shapes,    \* the dims they can have
          Values,    \* the values of each type that it sets and fills in
          Vectors,   \* the vectors of each type that it copies in
          Ranges,    \* the arguments of arange: a set of [start, end, step]
          Unit,      \* the number 1: numbers may have fractions of it
          Blank,     \* the empty string
          Null

VARIABLES contents,  \* the type and the dims of each tensor and its value for each index
          answer,    \* which tensor was used last, and what the call returned or threw
          items      \* and the values that it returned

\* The place of an element among the elements, counted from 0.
Before(i, j)   == \E k \in DOMAIN i : i[k] < j[k] /\ \A l \in 1 .. k - 1 : i[l] = j[l]
Place(dims, i) == Cardinality({j \in Indices(dims) : Before(j, i)})

Listed(dims, value) == [k \in 1 .. Cardinality(Indices(dims)) |->
                          value[CHOOSE i \in Indices(dims) : Place(dims, i) = k - 1]]
Arranged(dims, vector) == [i \in Indices(dims) |-> vector[Place(dims, i) + 1]]

\* The numbers from start, in steps, that come before end; a step can be a whole number.
Term(r, k) == r.start + k * r.step
Terms(r) == {k \in 0 .. r.end - r.start : Term(r, k) < r.end}
Whole(r) == \E c \in 0 .. r.step : r.step = c * Unit

Init == contents = [t \in Tensors |-> Null] /\ answer = <<>> /\ items = <<>>
-----------------------------------------------------------------------------
Holds(t)         == contents[t] # Null
Becomes(t, c)    == answer' = <<t, "fine">> /\ items' = <<>> /\ contents' = [contents EXCEPT ![t] = c]
Answers(t, a)    == answer' = <<t, a>> /\ items' = <<>> /\ UNCHANGED contents
Returns(t, list) == answer' = <<t, "items">> /\ items' = list /\ UNCHANGED contents

Number(dims, value) == [type |-> "number", dims |-> dims, value |-> value]
String(dims, value) == [type |-> "string", dims |-> dims, value |-> value]

\* Numbers may be anything at first.
Allocate(t, dims) ==
  /\ ~Holds(t)
  /\ \/ \E value \in [Indices(dims) -> Values["number"]] : Becomes(t, Number(dims, value))
     \/ Becomes(t, String(dims, [i \in Indices(dims) |-> Blank]))

\* A tensor that already has its elements.
Wrap(t, type, dims, elements) ==
  /\ ~Holds(t)
  /\ answer' = <<t, "wrapped">> /\ items' = elements
  /\ Len(elements) = Cardinality(Indices(dims))
  /\ contents' = [contents EXCEPT ![t] = [type |-> type, dims |-> dims, value |-> Arranged(dims, elements)]]

\* Not every kind has every tensor.
Refuse(t) == ~Holds(t) /\ Answers(t, "unsupported")

Full(t, dims, v) == ~Holds(t) /\ Becomes(t, Number(dims, [i \in Indices(dims) |-> v]))

Eye(t, dims) ==
  /\ ~Holds(t) /\ Len(dims) = 2
  /\ Becomes(t, Number(dims, [i \in Indices(dims) |-> IF i[1] = i[2] THEN Unit ELSE 0]))

\* As many numbers as the range has.  The code's have the step that was asked for only if
\* that is a whole number; of other ranges just the first number is promised.
Arange(t, r) ==
  LET dims == <<Cardinality(Terms(r))>>
  IN /\ ~Holds(t)
     /\ answer' = <<t, "range">>
     /\ DOMAIN items' = 1 .. dims[1]
     /\ \A k \in 1 .. dims[1] : k = 1 \/ Whole(r) => items'[k] = Term(r, k - 1)
     /\ contents' = [contents EXCEPT ![t] = Number(dims, Arranged(dims, items'))]

Free(t) == Holds(t) /\ Becomes(t, Null)

\* An accessor of another type or rank; one index, one value.
Misuse(t)    == Holds(t) /\ Answers(t, "wrong type or rank")
Set(t, i, v) == Becomes(t, [contents[t] EXCEPT !.value[i] = v])

CopyFrom(t, vector) ==
  /\ Holds(t)
  /\ IF Len(vector) = Cardinality(Indices(contents[t].dims))
     THEN Becomes(t, [contents[t] EXCEPT !.value = Arranged(contents[t].dims, vector)])
     ELSE Answers(t, "wrong size")

Read(t) == Holds(t) /\ Returns(t, Listed(contents[t].dims, contents[t].value))

AsScalar(t) ==
  /\ Holds(t)
  /\ IF contents[t].type = "number" /\ contents[t].dims = <<1>>
     THEN Returns(t, <<contents[t].value[<<0>>]>>)
     ELSE Answers(t, "wrong type or rank")

Compare(t, u) ==
  /\ Holds(t) /\ Holds(u)
  /\ answer' = <<t, IF contents[t] = contents[u] THEN "equals" ELSE "differs from", u>>
  /\ items' = <<>> /\ UNCHANGED contents

Next == \E t \in Tensors :
          \/ Refuse(t) \/ Free(t) \/ Misuse(t) \/ Read(t) \/ AsScalar(t)
          \/ \E u \in Tensors : Compare(t, u)
          \/ \E r \in Ranges : Arange(t, r)
          \/ \E dims \in Shapes : Eye(t, dims) \/ Allocate(t, dims) \/ \E v \in Values["number"] : Full(t, dims, v)
          \/ \E dims \in Shapes, type \in DOMAIN Values : \E elements \in Vectors[type] : Wrap(t, type, dims, elements)
          \/ /\ Holds(t)
             /\ \/ \E i \in Indices(contents[t].dims), v \in Values[contents[t].type] : Set(t, i, v)
                \/ \E vector \in Vectors[contents[t].type] : CopyFrom(t, vector)

Spec == Init /\ [][Next]_<<contents, answer, items>>
=============================================================================
