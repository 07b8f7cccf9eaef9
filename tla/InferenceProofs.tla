--------------------------- MODULE InferenceProofs ---------------------------
(***************************************************************************)
(* Theorems about Inference, for any packages, models and inputs: what the *)
(* packager accepts is loaded, the specs are enforced on both sides,       *)
(* answers are made of the inputs of their call, and the native library    *)
(* and the Python executors give the same ones.                            *)
(***************************************************************************)
EXTENDS Inference, SequenceTheorems, WellFoundedInduction, TLAPS

\* A statement about all numbers is proved by looking at the first for which it fails.
Less == {pair \in Nat \X Nat : pair[1] < pair[2]}

LEMMA LeastNumber ==
  ASSUME NEW T, T \subseteq Nat, T # {}
  PROVE  \E n \in T : \A m \in T : n <= m
<1>1. OpToRel(<, Nat) = Less
  BY Zenon DEF OpToRel, Less
<1>2. \E n \in T : \A m \in T : ~ (<<m, n>> \in Less)
  BY <1>1, WFMin, NatLessThanWellFounded, Zenon
<1>3. \A m, n \in Nat : m < n => <<m, n>> \in Less
  BY DEF Less
<1>4. \A m, n \in Nat : ~ (m < n) => n <= m
  OBVIOUS
<1> QED
  BY <1>2, <1>3, <1>4

\* What holds of 0, and of k if it does of k - 1, holds of n.
LEMMA UpTo ==
  ASSUME NEW n \in Nat, NEW S, 0 \in S, \A k \in 1 .. n : k - 1 \in S => k \in S
  PROVE  n \in S
<1> DEFINE T == {k \in 0 .. n : k \notin S}
<1>1. SUFFICES ASSUME T # {} PROVE FALSE
  OBVIOUS
<1>2. PICK k \in T : \A m \in T : k <= m
  <2>1. T \subseteq Nat
    OBVIOUS
  <2> QED
    BY <1>1, <2>1, LeastNumber
<1>3. k \in 1 .. n /\ k - 1 \in 0 .. n /\ k - 1 \notin T
  BY <1>2
<1> QED
  BY <1>2, <1>3


-----------------------------------------------------------------------------
(***************************************************************************)
(* FoldLeft.  It is defined by a function on the sets of positions; Folds  *)
(* says so for an operation that is given as a function G.                 *)
(***************************************************************************)
Folds(I, G, base, s, n) ==
  \A t \in SUBSET (1 .. n) : I[t] = IF t = {} THEN base ELSE G[<<I[t \ {Max(t)}], s[Max(t)]>>]

LEMMA MaxOfTop ==
  ASSUME NEW n \in Nat, n # 0, NEW t \in SUBSET (1 .. n), n \in t
  PROVE  Max(t) = n /\ t \ {n} \in SUBSET (1 .. n - 1)
<1>1. n \in t /\ \A y \in t : n >= y
  OBVIOUS
<1>2. Max(t) \in t /\ \A y \in t : Max(t) >= y
  BY <1>1, Zenon DEF Max
<1>3. Max(t) >= n /\ Max(t) \in 1 .. n
  BY <1>2
<1>4. Max(t) = n
  BY <1>3
<1>5. \A x \in t : x # n => x \in 1 .. n - 1
  OBVIOUS
<1> QED
  BY <1>4, <1>5

LEMMA MaxIsIn ==
  ASSUME NEW n \in Nat, NEW t \in SUBSET (1 .. n), t # {}
  PROVE  Max(t) \in t
<1> DEFINE T == {n - x : x \in t}
<1>1. \A x \in t : n - x \in Nat /\ x \in Nat
  <2>1. \A x \in 1 .. n : n - x \in Nat /\ x \in Nat
    OBVIOUS
  <2> QED
    BY <2>1
<1>2. T \subseteq Nat /\ T # {}
  BY <1>1
<1>3. PICK m \in T : \A k \in T : m <= k
  BY <1>1, <1>2, LeastNumber
<1>4. PICK x \in t : m = n - x
  BY <1>3
<1>5. \A y \in t : n - x <= n - y
  BY <1>3, <1>4
<1>6. \A y \in t : x >= y
  BY <1>1, <1>5
<1> QED
  BY <1>6, Zenon DEF Max

LEMMA MaxOfPrefix ==
  ASSUME NEW n \in Nat, n # 0
  PROVE  Max(1 .. n) = n /\ (1 .. n) \ {n} = 1 .. n - 1 /\ 1 .. n # {}
  BY MaxOfTop

LEMMA FoldsExist ==
  ASSUME NEW A, NEW B, NEW G \in [A \X B -> A], NEW base \in A, NEW s \in Seq(B)
  PROVE  \E I \in [SUBSET (1 .. Len(s)) -> A] : Folds(I, G, base, s, Len(s))
<1> DEFINE P(n) == \E I \in [SUBSET (1 .. n) -> A] : Folds(I, G, base, s, n)
           T == {n \in 0 .. Len(s) : ~ P(n)}
<1>0. Len(s) \in Nat /\ \A k \in 1 .. Len(s) : s[k] \in B
  OBVIOUS
<1>1. SUFFICES ASSUME ~ P(Len(s)) PROVE FALSE
  OBVIOUS
<1>2. PICK n \in T : \A m \in T : n <= m
  <2> HIDE DEF P
  <2>1. T \subseteq Nat /\ Len(s) \in T
    BY <1>0, <1>1
  <2> QED
    BY <2>1, LeastNumber
<1>3. CASE n = 0
  <2> DEFINE I == [t \in SUBSET (1 .. 0) |-> base]
  <2>1. Folds(I, G, base, s, 0)
    BY DEF Folds
  <2> QED
    BY <1>2, <1>3, <2>1
<1>4. CASE n # 0
  <2>1. n \in Nat /\ n - 1 \in Nat /\ n - 1 \in 0 .. Len(s) /\ ~ (n <= n - 1) /\ s[n] \in B
    BY <1>0, <1>2, <1>4
  <2>6. P(n - 1)
    BY <1>2, <2>1
  <2> HIDE DEF P
  <2>2. PICK I \in [SUBSET (1 .. n - 1) -> A] : Folds(I, G, base, s, n - 1)
    BY <2>6 DEF P
  <2> DEFINE J == [t \in SUBSET (1 .. n) |-> IF n \in t THEN G[<<I[t \ {n}], s[n]>>] ELSE I[t]]
  <2>3. ASSUME NEW t \in SUBSET (1 .. n)
        PROVE  J[t] = IF t = {} THEN base ELSE G[<<J[t \ {Max(t)}], s[Max(t)]>>]
    <3>1. CASE n \in t
      <4>1. Max(t) = n /\ t \ {n} \in SUBSET (1 .. n - 1)
        BY <1>4, <2>1, <3>1, MaxOfTop
      <4>2. J[t \ {n}] = I[t \ {n}]
        BY <4>1
      <4> QED
        BY <3>1, <4>1, <4>2
    <3>2. CASE n \notin t
      <4>1. t \in SUBSET (1 .. n - 1)
        BY <2>1, <3>2
      <4>2. J[t] = I[t] /\ J[t \ {Max(t)}] = I[t \ {Max(t)}]
        BY <3>2
      <4> QED
        BY <2>2, <4>1, <4>2 DEF Folds
    <3> QED
      BY <3>1, <3>2
  <2>4. J \in [SUBSET (1 .. n) -> A]
    <3>1. ASSUME NEW t \in SUBSET (1 .. n), n \in t PROVE t \ {n} \in SUBSET (1 .. n - 1)
      BY <1>4, <2>1, <3>1, MaxOfTop
    <3>2. ASSUME NEW t \in SUBSET (1 .. n), n \notin t PROVE t \in SUBSET (1 .. n - 1)
      BY <2>1, <3>2
    <3> QED
      BY <2>1, <3>1, <3>2
  <2> HIDE DEF J
  <2>5. P(n)
    BY <2>3, <2>4 DEF P, Folds
  <2> QED
    BY <1>2, <2>5
<1> QED
  BY <1>3, <1>4

\* The values for the prefixes are those of a run of the operation.
FoldsIn(A, I, G, base, s) ==
  /\ I[{}] = base
  /\ \A t \in SUBSET (1 .. Len(s)) :
       t # {} /\ I[t \ {Max(t)}] \in A => I[t] = G[<<I[t \ {Max(t)}], s[Max(t)]>>]

IsRun(A, I, G, base, s) ==
  \E f \in [0 .. Len(s) -> A] : /\ f[0] = base /\ f[Len(s)] = I[1 .. Len(s)]
                               /\ \A k \in 1 .. Len(s) : f[k] = G[<<f[k - 1], s[k]>>]

LEMMA FoldIsRun ==
  ASSUME NEW A, NEW B, NEW G \in [A \X B -> A], NEW base \in A, NEW s \in Seq(B), NEW I,
         FoldsIn(A, I, G, base, s)
  PROVE  IsRun(A, I, G, base, s)
<1> DEFINE T == {k \in 0 .. Len(s) : I[1 .. k] \notin A}
<1>1. Len(s) \in Nat /\ 1 .. 0 = {} /\ \A k \in 1 .. Len(s) : s[k] \in B
  OBVIOUS
<1>2. ASSUME NEW k \in 1 .. Len(s), I[1 .. k - 1] \in A
      PROVE  I[1 .. k] = G[<<I[1 .. k - 1], s[k]>>] /\ I[1 .. k] \in A
  <2>1. k \in Nat /\ k # 0 /\ 1 .. k \in SUBSET (1 .. Len(s))
    BY <1>1
  <2>2. Max(1 .. k) = k /\ (1 .. k) \ {k} = 1 .. k - 1 /\ 1 .. k # {}
    BY <2>1, MaxOfPrefix
  <2>3. I[1 .. k] = G[<<I[1 .. k - 1], s[k]>>]
    BY <1>2, <2>1, <2>2 DEF FoldsIn
  <2> QED
    BY <1>1, <1>2, <2>3
<1>3. \A k \in 0 .. Len(s) : I[1 .. k] \in A
  <2>1. SUFFICES ASSUME T # {} PROVE FALSE
    OBVIOUS
  <2>2. PICK k \in T : \A m \in T : k <= m
    <3>1. T \subseteq Nat
      BY <1>1
    <3> QED
      BY <2>1, <3>1, LeastNumber
  <2>3. k # 0
    BY <1>1, <2>2 DEF FoldsIn
  <2>4. k \in 1 .. Len(s) /\ k - 1 \in 0 .. Len(s) /\ k - 1 \notin T
    BY <1>1, <2>2, <2>3
  <2> QED
    BY <1>2, <2>2, <2>4
<1> DEFINE f == [k \in 0 .. Len(s) |-> I[1 .. k]]
<1>4. f \in [0 .. Len(s) -> A] /\ f[0] = base /\ f[Len(s)] = I[1 .. Len(s)]
  BY <1>1, <1>3 DEF FoldsIn
<1>5. ASSUME NEW k \in 1 .. Len(s) PROVE f[k] = G[<<f[k - 1], s[k]>>]
  <2>1. k - 1 \in 0 .. Len(s) /\ k \in 0 .. Len(s)
    BY <1>1
  <2> QED
    BY <1>2, <1>3, <2>1
<1> HIDE DEF f
<1> QED
  BY <1>4, <1>5 DEF IsRun

-----------------------------------------------------------------------------
(***************************************************************************)
(* Validation: the sizes of the symbols that were seen are the only ones   *)
(* that fit.                                                               *)
(***************************************************************************)
Dimensions == {Dimension(v) : v \in Nat \ {0}} \cup {Dimension(-1)} \cup {Symbolic(s) : s \in Symbols}
Rows       == [dim : 0 .. MaxDim, expected : Dimensions]
Seens      == Sizings \cup {Failed}

LEMMA DimensionCases ==
  ASSUME NEW d \in Dimensions
  PROVE  \/ d.value \in Nat /\ d.value > 0
         \/ d.value = -1
         \/ d.value = -2 /\ d.symbol \in Symbols
<1>1. \/ \E v \in Nat \ {0} : d = [value |-> v, symbol |-> ""]
      \/ d = [value |-> -1, symbol |-> ""]
      \/ \E s \in Symbols : d = [value |-> -2, symbol |-> s]
  BY Zenon DEF Dimensions, Dimension, Symbolic
<1>2. ASSUME NEW v \in Nat \ {0}, d = [value |-> v, symbol |-> ""]
      PROVE  d.value \in Nat /\ d.value > 0
  <2>1. d.value = v
    BY <1>2
  <2> QED
    BY <2>1
<1>3. ASSUME d = [value |-> -1, symbol |-> ""] PROVE d.value = -1
  BY <1>3
<1>4. ASSUME NEW s \in Symbols, d = [value |-> -2, symbol |-> s]
      PROVE  d.value = -2 /\ d.symbol \in Symbols
  BY <1>4
<1> QED
  BY <1>1, <1>2, <1>3, <1>4, Zenon

LEMMA SizingsAre ==
  ASSUME NEW seen
  PROVE  seen \in Sizings <=> /\ seen = [x \in DOMAIN seen |-> seen[x]]
                              /\ DOMAIN seen \subseteq Symbols
                              /\ \A x \in DOMAIN seen : seen[x] \in 0 .. MaxDim
<1>1. ASSUME seen \in Sizings
      PROVE  /\ seen = [x \in DOMAIN seen |-> seen[x]] /\ DOMAIN seen \subseteq Symbols
             /\ \A x \in DOMAIN seen : seen[x] \in 0 .. MaxDim
  BY <1>1 DEF Sizings
<1>2. ASSUME seen = [x \in DOMAIN seen |-> seen[x]], DOMAIN seen \subseteq Symbols,
             \A x \in DOMAIN seen : seen[x] \in 0 .. MaxDim
      PROVE  seen \in Sizings
  <2>1. seen \in [DOMAIN seen -> 0 .. MaxDim]
    BY <1>2
  <2> QED
    BY <1>2, <2>1 DEF Sizings
<1> QED
  BY <1>1, <1>2

LEMMA NothingSeen == <<>> \in Sizings /\ DOMAIN <<>> = {}
<1>1. DOMAIN <<>> = {} /\ <<>> = [x \in DOMAIN <<>> |-> <<>>[x]]
  OBVIOUS
<1> QED
  BY <1>1, SizingsAre

\* What is seen once one more size is known.
LEMMA SeenMore ==
  ASSUME NEW seen \in Sizings, NEW symbol \in Symbols \ DOMAIN seen, NEW dim \in 0 .. MaxDim
  PROVE  /\ Put(seen, symbol, dim) \in Sizings
         /\ DOMAIN Put(seen, symbol, dim) = DOMAIN seen \cup {symbol}
         /\ Put(seen, symbol, dim)[symbol] = dim
         /\ \A x \in DOMAIN seen : Put(seen, symbol, dim)[x] = seen[x]
<1> DEFINE more == Put(seen, symbol, dim)
<1>1. more = [x \in DOMAIN seen \cup {symbol} |-> IF x = symbol THEN dim ELSE seen[x]]
  BY DEF Put
<1>2. DOMAIN more = DOMAIN seen \cup {symbol}
  BY <1>1
<1>3. more[symbol] = dim /\ \A x \in DOMAIN seen : more[x] = seen[x]
  BY <1>1
<1>4. more = [x \in DOMAIN more |-> more[x]]
  BY <1>1
<1> HIDE DEF more
<1>5. more \in Sizings
  BY <1>2, <1>3, <1>4, SizingsAre
<1> QED
  BY <1>2, <1>3, <1>5 DEF more

LEMMA MatchIsClosed ==
  ASSUME NEW seen \in Seens, NEW c \in Rows
  PROVE  Match(seen, c) \in Seens
<1>1. c.dim \in 0 .. MaxDim /\ c.expected \in Dimensions
  BY DEF Rows
<1>2. CASE seen = Failed
  BY <1>2 DEF Match
<1>3. CASE seen # Failed
  <2>1. seen \in Sizings
    BY <1>3 DEF Seens
  <2>2. CASE c.expected.value > 0
    BY <1>3, <2>2 DEF Match, Sized, Seens
  <2>3. CASE c.expected.value = -1
    BY <1>3, <2>3 DEF Match
  <2>4. CASE c.expected.value = -2 /\ c.expected.symbol \in Symbols
    <3>1. Match(seen, c) = Bound(seen, c.expected.symbol, c.dim)
      BY <1>3, <2>4 DEF Match
    <3>2. CASE c.expected.symbol \in DOMAIN seen
      BY <3>1, <3>2, <2>1 DEF Bound, Seens
    <3>3. CASE c.expected.symbol \notin DOMAIN seen
      <4>1. Match(seen, c) = Put(seen, c.expected.symbol, c.dim)
        BY <3>1, <3>3 DEF Bound
      <4>2. Put(seen, c.expected.symbol, c.dim) \in Sizings
        BY <1>1, <2>1, <2>4, <3>3, SeenMore
      <4> QED
        BY <4>1, <4>2 DEF Seens
    <3> QED
      BY <3>2, <3>3
  <2> QED
    BY <1>1, <2>2, <2>3, <2>4, DimensionCases
<1> QED
  BY <1>2, <1>3

LEMMA MatchFolds ==
  ASSUME NEW cs \in Seq(Rows)
  PROVE  \E f \in [0 .. Len(cs) -> Seens] :
           /\ f[0] = <<>> /\ FoldLeft(Match, <<>>, cs) = f[Len(cs)]
           /\ \A k \in 1 .. Len(cs) : f[k] = Match(f[k - 1], cs[k])
<1> DEFINE G == [p \in Seens \X Rows |-> Match(p[1], p[2])]
           I == CHOOSE iter : iter = [t \in SUBSET (DOMAIN cs) |->
                  IF t = {} THEN <<>> ELSE LET x == Max(t) IN Match(iter[t \ {x}], cs[x])]
<1>1. G \in [Seens \X Rows -> Seens] /\ <<>> \in Seens
  BY MatchIsClosed, NothingSeen DEF Seens
<1>2. \A seen \in Seens, c \in Rows : G[<<seen, c>>] = Match(seen, c)
  OBVIOUS
<1>3. DOMAIN cs = 1 .. Len(cs) /\ Len(cs) \in Nat /\ \A k \in 1 .. Len(cs) : cs[k] \in Rows
  OBVIOUS
<1> HIDE DEF G
<1>4. PICK J \in [SUBSET (1 .. Len(cs)) -> Seens] : Folds(J, G, <<>>, cs, Len(cs))
  BY <1>1, FoldsExist
<1>5. \A t \in SUBSET (1 .. Len(cs)) : t # {} => Max(t) \in 1 .. Len(cs)
  BY <1>3, MaxIsIn
<1>6. J = [t \in SUBSET (DOMAIN cs) |->
             IF t = {} THEN <<>> ELSE LET x == Max(t) IN Match(J[t \ {x}], cs[x])]
  <2>1. ASSUME NEW t \in SUBSET (1 .. Len(cs))
        PROVE  J[t] = IF t = {} THEN <<>> ELSE Match(J[t \ {Max(t)}], cs[Max(t)])
    BY <1>2, <1>3, <1>4, <1>5 DEF Folds
  <2> QED
    BY <1>3, <2>1
<1>7. I = [t \in SUBSET (DOMAIN cs) |->
             IF t = {} THEN <<>> ELSE LET x == Max(t) IN Match(I[t \ {x}], cs[x])]
  BY <1>6
<1>8. FoldLeft(Match, <<>>, cs) = I[DOMAIN cs]
  BY DEF FoldLeft, MapThenFoldSet
<1> HIDE DEF I
<1>9. I[{}] = <<>> /\ \A t \in SUBSET (1 .. Len(cs)) : t # {} => I[t] = Match(I[t \ {Max(t)}], cs[Max(t)])
  BY <1>3, <1>7
<1>10. FoldsIn(Seens, I, G, <<>>, cs)
  BY <1>2, <1>3, <1>5, <1>9 DEF FoldsIn
<1>11. PICK f \in [0 .. Len(cs) -> Seens] :
         /\ f[0] = <<>> /\ f[Len(cs)] = I[1 .. Len(cs)]
         /\ \A k \in 1 .. Len(cs) : f[k] = G[<<f[k - 1], cs[k]>>]
  <2>1. IsRun(Seens, I, G, <<>>, cs)
    BY <1>1, <1>10, FoldIsRun, Zenon
  <2> QED
    BY <2>1 DEF IsRun
<1>12. ASSUME NEW k \in 1 .. Len(cs) PROVE f[k] = Match(f[k - 1], cs[k])
  <2>1. f[k - 1] \in Seens /\ cs[k] \in Rows
    BY <1>3
  <2> QED
    BY <1>2, <1>11, <2>1
<1> QED
  BY <1>3, <1>8, <1>11, <1>12, Zenon

\* A choice of sizes, a dimension that it admits, and the sizes that it shares with what was seen.
AllSizings == [Symbols -> 0 .. MaxDim]
Admits(size, c) == \/ c.expected.value = -1
                   \/ c.expected.value > 0 /\ c.dim = c.expected.value
                   \/ c.expected.value = -2 /\ c.dim = size[c.expected.symbol]
Shares(size, seen) == seen # Failed /\ \A x \in DOMAIN seen : size[x] = seen[x]

LEMMA MatchNarrows ==
  ASSUME NEW seen \in Seens, NEW c \in Rows, NEW size \in AllSizings
  PROVE  Shares(size, Match(seen, c)) <=> Shares(size, seen) /\ Admits(size, c)
<1>1. c.dim \in 0 .. MaxDim /\ c.expected \in Dimensions
  BY DEF Rows
<1>2. CASE seen = Failed
  BY <1>2 DEF Match, Shares
<1>3. CASE seen # Failed
  <2>1. seen \in Sizings
    BY <1>3 DEF Seens
  <2>2. CASE c.expected.value \in Nat /\ c.expected.value > 0
    <3>1. c.expected.value # -1 /\ c.expected.value # -2
      BY <2>2
    <3> QED
      BY <1>3, <2>2, <3>1 DEF Match, Sized, Shares, Admits
  <2>3. CASE c.expected.value = -1
    <3>1. ~ (c.expected.value > 0)
      BY <2>3
    <3> QED
      BY <1>3, <2>3, <3>1 DEF Match, Shares, Admits
  <2>4. CASE c.expected.value = -2 /\ c.expected.symbol \in Symbols
    <3>1. ~ (c.expected.value > 0) /\ c.expected.value # -1
      BY <2>4
    <3>2. /\ Match(seen, c) = Bound(seen, c.expected.symbol, c.dim)
          /\ Admits(size, c) <=> c.dim = size[c.expected.symbol]
      BY <1>3, <2>4, <3>1 DEF Match, Admits
    <3>3. CASE c.expected.symbol \in DOMAIN seen
      BY <3>2, <3>3 DEF Bound, Shares
    <3>4. CASE c.expected.symbol \notin DOMAIN seen
      <4>1. PICK more \in Sizings :
              /\ more = Put(seen, c.expected.symbol, c.dim)
              /\ DOMAIN more = DOMAIN seen \cup {c.expected.symbol}
              /\ more[c.expected.symbol] = c.dim /\ \A x \in DOMAIN seen : more[x] = seen[x]
        <5>1. c.expected.symbol \in Symbols \ DOMAIN seen
          BY <2>4, <3>4
        <5>2. /\ Put(seen, c.expected.symbol, c.dim) \in Sizings
              /\ DOMAIN Put(seen, c.expected.symbol, c.dim) = DOMAIN seen \cup {c.expected.symbol}
              /\ Put(seen, c.expected.symbol, c.dim)[c.expected.symbol] = c.dim
              /\ \A x \in DOMAIN seen : Put(seen, c.expected.symbol, c.dim)[x] = seen[x]
          BY <1>1, <2>1, <5>1, SeenMore
        <5> QED
          BY <5>2
      <4>2. Match(seen, c) = more /\ more # Failed
        BY <3>2, <3>4, <4>1, FailedAssumption DEF Bound
      <4> QED
        BY <1>3, <3>2, <4>1, <4>2 DEF Shares
    <3> QED
      BY <3>3, <3>4
  <2> QED
    BY <1>1, <2>2, <2>3, <2>4, DimensionCases
<1> QED
  BY <1>2, <1>3

LEMMA SizesAreForced ==
  ASSUME NEW n \in Nat, NEW rs, \A k \in 1 .. n : rs[k] \in Rows,
         NEW f \in [0 .. n -> Seens], f[0] = <<>>,
         \A k \in 1 .. n : f[k] = Match(f[k - 1], rs[k])
  PROVE  f[n] # Failed <=> \E size \in AllSizings : \A k \in 1 .. n : Admits(size, rs[k])
<1> DEFINE P(k) == \A size \in AllSizings : Shares(size, f[k]) <=> \A j \in 1 .. k : Admits(size, rs[j])
           T == {k \in 0 .. n : ~ P(k)}
<1>1. P(0)
  <2>1. f[0] # Failed /\ DOMAIN f[0] = {}
    BY NothingSeen, FailedAssumption
  <2> QED
    BY <2>1 DEF Shares
<1>2. ASSUME NEW k \in 1 .. n, P(k - 1) PROVE P(k)
  <2>1. k - 1 \in 0 .. n /\ 1 .. k = (1 .. k - 1) \cup {k} /\ f[k - 1] \in Seens
    OBVIOUS
  <2>2. ASSUME NEW size \in AllSizings
        PROVE  Shares(size, f[k]) <=> Shares(size, f[k - 1]) /\ Admits(size, rs[k])
    BY <2>1, MatchNarrows
  <2> QED
    BY <1>2, <2>1, <2>2
<1>3. P(n)
  <2> HIDE DEF P
  <2>1. SUFFICES ASSUME T # {} PROVE FALSE
    OBVIOUS
  <2>2. PICK k \in T : \A m \in T : k <= m
    <3>1. T \subseteq Nat
      OBVIOUS
    <3> QED
      BY <2>1, <3>1, LeastNumber
  <2>3. k # 0
    BY <1>1, <2>2
  <2>4. k \in 1 .. n /\ k - 1 \in 0 .. n /\ k - 1 \notin T
    BY <2>2, <2>3
  <2> QED
    BY <1>2, <2>2, <2>4
<1>4. ASSUME f[n] # Failed PROVE \E size \in AllSizings : Shares(size, f[n])
  <2>1. f[n] \in Sizings
    BY <1>4 DEF Seens
  <2> DEFINE size == [x \in Symbols |-> IF x \in DOMAIN f[n] THEN f[n][x] ELSE 0]
  <2>2. size \in AllSizings
    BY <2>1, SizingsAre, MaxDimAssumption DEF AllSizings
  <2>3. Shares(size, f[n])
    BY <1>4, <2>1, SizingsAre DEF Shares
  <2> QED
    BY <2>2, <2>3
<1> QED
  BY <1>3, <1>4 DEF Shares

-----------------------------------------------------------------------------
(***************************************************************************)
(* FlattenSeq has the elements of the sequences that it joins.             *)
(***************************************************************************)
LEMMA ConcatHas ==
  ASSUME NEW B, NEW s \in Seq(B), NEW t \in Seq(B)
  PROVE  s \o t \in Seq(B) /\ ToSet(s \o t) = ToSet(s) \cup ToSet(t)
<1>1. /\ s \o t \in Seq(B) /\ Len(s \o t) = Len(s) + Len(t) /\ Len(s) \in Nat /\ Len(t) \in Nat
      /\ \A i \in 1 .. Len(s) : (s \o t)[i] = s[i]
      /\ \A i \in 1 .. Len(t) : (s \o t)[Len(s) + i] = t[i]
  OBVIOUS
<1>2. /\ DOMAIN s = 1 .. Len(s) /\ DOMAIN t = 1 .. Len(t)
      /\ DOMAIN (s \o t) = 1 .. Len(s) + Len(t)
  BY <1>1
<1> DEFINE st == s \o t
<1> HIDE DEF st
<1>3. ASSUME NEW i \in 1 .. Len(s) + Len(t) PROVE st[i] \in ToSet(s) \cup ToSet(t)
  <2>1. CASE i \in 1 .. Len(s)
    BY <1>1, <1>2, <2>1 DEF ToSet, st
  <2>2. CASE i \notin 1 .. Len(s)
    <3>1. i - Len(s) \in 1 .. Len(t) /\ i = Len(s) + (i - Len(s))
      BY <1>1, <2>2
    <3>2. st[i] = t[i - Len(s)]
      BY <1>1, <3>1 DEF st
    <3> QED
      BY <1>2, <3>1, <3>2 DEF ToSet
  <2> QED
    BY <2>1, <2>2
<1>4. ASSUME NEW i \in 1 .. Len(s) PROVE s[i] \in ToSet(st)
  <2>1. i \in 1 .. Len(s) + Len(t) /\ st[i] = s[i]
    BY <1>1 DEF st
  <2> QED
    BY <1>2, <2>1 DEF ToSet, st
<1>5. ASSUME NEW i \in 1 .. Len(t) PROVE t[i] \in ToSet(st)
  <2>1. Len(s) + i \in 1 .. Len(s) + Len(t) /\ st[Len(s) + i] = t[i]
    BY <1>1 DEF st
  <2> QED
    BY <1>2, <2>1 DEF ToSet, st
<1> QED
  BY <1>1, <1>2, <1>3, <1>4, <1>5 DEF ToSet, st

\* The recursion of FlattenSeq.
Joins(f, seqs, n) == f = [i \in 1 .. n |-> IF i = 1 THEN seqs[i] ELSE f[i - 1] \o seqs[i]]

LEMMA JoinsExist ==
  ASSUME NEW seqs, NEW N \in Nat
  PROVE  \E f : Joins(f, seqs, N)
<1> DEFINE T == {n \in Nat : ~ \E f : Joins(f, seqs, n)}
<1>1. SUFFICES ASSUME T # {} PROVE FALSE
  OBVIOUS
<1>2. PICK n \in T : \A m \in T : n <= m
  <2>1. T \subseteq Nat
    OBVIOUS
  <2> QED
    BY <1>1, <2>1, LeastNumber
<1>3. CASE n = 0
  <2>1. Joins([i \in 1 .. 0 |-> <<>>], seqs, 0)
    BY DEF Joins
  <2> QED
    BY <1>2, <1>3, <2>1
<1>4. CASE n # 0
  <2>1. n - 1 \in Nat /\ n - 1 \notin T
    BY <1>2, <1>4
  <2>2. PICK f : Joins(f, seqs, n - 1)
    BY <2>1
  <2> DEFINE g == [i \in 1 .. n |-> IF i < n THEN f[i] ELSE IF i = 1 THEN seqs[i] ELSE f[n - 1] \o seqs[n]]
  <2>3. \A i \in 1 .. n - 1 : f[i] = IF i = 1 THEN seqs[i] ELSE f[i - 1] \o seqs[i]
    BY <2>2 DEF Joins
  <2>4. ASSUME NEW i \in 1 .. n
        PROVE  g[i] = IF i = 1 THEN seqs[i] ELSE g[i - 1] \o seqs[i]
    <3>1. CASE i < n
      <4>1. i \in 1 .. n - 1 /\ (i # 1 => i - 1 \in 1 .. n /\ i - 1 < n)
        BY <2>1, <3>1
      <4> QED
        BY <2>3, <3>1, <4>1
    <3>2. CASE ~ (i < n)
      <4>1. i = n /\ (i # 1 => i - 1 \in 1 .. n /\ i - 1 < n)
        BY <2>1, <3>2
      <4> QED
        BY <4>1
    <3> QED
      BY <3>1, <3>2
  <2>5. g = [i \in 1 .. n |-> g[i]]
    OBVIOUS
  <2> HIDE DEF g
  <2>6. Joins(g, seqs, n)
    BY <2>4, <2>5 DEF Joins
  <2> QED
    BY <1>2, <2>6
<1> QED
  BY <1>3, <1>4

LEMMA FlattenHas ==
  ASSUME NEW B, NEW seqs \in Seq(Seq(B))
  PROVE  /\ FlattenSeq(seqs) \in Seq(B)
         /\ ToSet(FlattenSeq(seqs)) = UNION {ToSet(part) : part \in ToSet(seqs)}
<1>1. Len(seqs) \in Nat /\ DOMAIN seqs = 1 .. Len(seqs) /\ \A i \in 1 .. Len(seqs) : seqs[i] \in Seq(B)
  OBVIOUS
<1>2. CASE Len(seqs) = 0
  <2>1. seqs = <<>> /\ FlattenSeq(seqs) = seqs
    BY <1>2 DEF FlattenSeq
  <2>2. <<>> \in Seq(B) /\ ToSet(seqs) = {} /\ ToSet(<<>>) = {}
    BY <2>1 DEF ToSet
  <2> QED
    BY <2>1, <2>2
<1>3. CASE Len(seqs) # 0
  <2> DEFINE F == CHOOSE f : Joins(f, seqs, Len(seqs))
  <2>1. Joins(F, seqs, Len(seqs))
    BY <1>1, JoinsExist
  <2>2. FlattenSeq(seqs) = F[Len(seqs)]
    BY <1>3, Zenon DEF FlattenSeq, Joins
  <2> HIDE DEF F
  <2>3. \A i \in 1 .. Len(seqs) : F[i] = IF i = 1 THEN seqs[i] ELSE F[i - 1] \o seqs[i]
    BY <2>1 DEF Joins
  <2> DEFINE P(n) == F[n] \in Seq(B) /\ ToSet(F[n]) = UNION {ToSet(seqs[k]) : k \in 1 .. n}
             T == {n \in 1 .. Len(seqs) : ~ P(n)}
  <2>4. P(1)
    <3>1. F[1] = seqs[1] /\ seqs[1] \in Seq(B) /\ 1 .. 1 = {1}
      BY <1>1, <1>3, <2>3
    <3> QED
      BY <3>1
  <2>5. ASSUME NEW n \in 1 .. Len(seqs), n # 1, P(n - 1) PROVE P(n)
    <3>3. F[n] = F[n - 1] \o seqs[n]
      BY <2>3, <2>5, Zenon
    <3>4. seqs[n] \in Seq(B) /\ 1 .. n = (1 .. n - 1) \cup {n}
      BY <1>1, <2>5
    <3>1. F[n] = F[n - 1] \o seqs[n] /\ seqs[n] \in Seq(B) /\ 1 .. n = (1 .. n - 1) \cup {n}
      BY <3>3, <3>4
    <3>2. F[n] \in Seq(B) /\ ToSet(F[n]) = ToSet(F[n - 1]) \cup ToSet(seqs[n])
      BY <2>5, <3>1, ConcatHas
    <3> QED
      BY <2>5, <3>1, <3>2
  <2>6. P(Len(seqs))
    <3> HIDE DEF P
    <3>1. SUFFICES ASSUME T # {} PROVE FALSE
      BY <1>1, <1>3
    <3>2. PICK k \in T : \A m \in T : k <= m
      <4>1. T \subseteq Nat
        BY <1>1
      <4> QED
        BY <3>1, <4>1, LeastNumber
    <3>3. k # 1
      BY <2>4, <3>2
    <3>4. k \in 1 .. Len(seqs) /\ k - 1 \in 1 .. Len(seqs) /\ k - 1 \notin T
      BY <1>1, <3>2, <3>3
    <3> QED
      BY <2>5, <3>2, <3>3, <3>4
  <2>7. UNION {ToSet(seqs[k]) : k \in 1 .. Len(seqs)} = UNION {ToSet(part) : part \in ToSet(seqs)}
    BY <1>1 DEF ToSet
  <2> QED
    BY <2>2, <2>6, <2>7
<1> QED
  BY <1>2, <1>3

-----------------------------------------------------------------------------
(***************************************************************************)
(* Both validations accept what the specs describe.                        *)
(***************************************************************************)
GoodItems == {d \in Items : PyItemIsValid(d) /\ (d.is = "string" => d.symbol \in Symbols)}
PyRows    == [dim : 0 .. MaxDim, expected : GoodItems]
Native(c) == [dim |-> c.dim, expected |-> Dim(c.expected)]

AreGood(specs) == /\ DOMAIN specs = 1 .. Len(specs) /\ Len(specs) \in Nat
                  /\ \A k \in DOMAIN specs : specs[k].shape \in Seq(GoodItems)
AreTensors(tensors) == \A n \in DOMAIN tensors : IsTensor(tensors[n])

LEMMA ItemCases ==
  ASSUME NEW d \in GoodItems
  PROVE  \/ d.is = "null" /\ Dim(d) = Dimension(-1)
         \/ d.is = "int" /\ d.value \in Nat \ {0} /\ Dim(d) = Dimension(d.value)
         \/ d.is = "string" /\ d.symbol \in Symbols /\ Dim(d) = Symbolic(d.symbol)
<1>1. d.value \in Int /\ (d.is = "string" => d.symbol \in Symbols)
  BY DEF GoodItems, Items
<1>2. d.is = "null" \/ d.is = "string" \/ (d.is = "int" /\ d.value > 0)
  BY DEF GoodItems, PyItemIsValid
<1>3. d.is = "null" => Dim(d) = Dimension(-1)
  BY DEF Dim
<1>4. d.is = "int" => Dim(d) = Dimension(d.value)
  BY DEF Dim
<1>5. d.is = "string" => Dim(d) = Symbolic(d.symbol)
  BY DEF Dim
<1>6. d.is = "int" /\ d.value > 0 => d.value \in Nat \ {0}
  BY <1>1
<1> QED
  BY <1>1, <1>2, <1>3, <1>4, <1>5, <1>6

LEMMA ItemIsDimension ==
  ASSUME NEW d \in GoodItems
  PROVE  Dim(d) \in Dimensions
  BY ItemCases DEF Dimensions

LEMMA MatchCases ==
  ASSUME NEW seen, NEW c
  PROVE  /\ seen = Failed => Match(seen, c) = Failed
         /\ seen # Failed /\ c.expected.value = -1 => Match(seen, c) = seen
         /\ seen # Failed /\ c.expected.value \in Nat \ {0} => Match(seen, c) = Sized(seen, c.dim, c.expected.value)
         /\ seen # Failed /\ c.expected.value = -2 => Match(seen, c) = Bound(seen, c.expected.symbol, c.dim)
<1>1. seen = Failed => Match(seen, c) = Failed
  BY DEF Match
<1>2. seen # Failed /\ c.expected.value = -1 => Match(seen, c) = seen
  BY DEF Match
<1>3. seen # Failed /\ c.expected.value \in Nat \ {0} => Match(seen, c) = Sized(seen, c.dim, c.expected.value)
  BY DEF Match
<1>4. seen # Failed /\ c.expected.value = -2 => Match(seen, c) = Bound(seen, c.expected.symbol, c.dim)
  BY DEF Match
<1> QED
  BY <1>1, <1>2, <1>3, <1>4

LEMMA PyMatchCases ==
  ASSUME NEW seen, NEW c
  PROVE  /\ seen = Failed => PyMatch(seen, c) = Failed
         /\ seen # Failed /\ c.expected.is = "null" => PyMatch(seen, c) = seen
         /\ seen # Failed /\ c.expected.is = "int" => PyMatch(seen, c) = Sized(seen, c.dim, c.expected.value)
         /\ seen # Failed /\ c.expected.is = "string" => PyMatch(seen, c) = Bound(seen, c.expected.symbol, c.dim)
<1>1. seen = Failed => PyMatch(seen, c) = Failed
  BY DEF PyMatch
<1>2. seen # Failed /\ c.expected.is = "null" => PyMatch(seen, c) = seen
  BY DEF PyMatch
<1>3. seen # Failed /\ c.expected.is = "int" => PyMatch(seen, c) = Sized(seen, c.dim, c.expected.value)
  BY DEF PyMatch
<1>4. seen # Failed /\ c.expected.is = "string" => PyMatch(seen, c) = Bound(seen, c.expected.symbol, c.dim)
  BY DEF PyMatch
<1> QED
  BY <1>1, <1>2, <1>3, <1>4

LEMMA NativeIs ==
  ASSUME NEW c
  PROVE  /\ Native(c).dim = c.dim /\ Native(c).expected = Dim(c.expected)
         /\ \A v : Dimension(v).value = v
         /\ \A v : Symbolic(v).value = -2 /\ Symbolic(v).symbol = v
  BY DEF Native, Dimension, Symbolic

LEMMA ItemAdmits ==
  ASSUME NEW d \in GoodItems, NEW n, NEW size
  PROVE  Admits(size, Native([dim |-> n, expected |-> d]))
           <=> \/ d.is = "null"
               \/ d.is = "int" /\ n = d.value
               \/ d.is = "string" /\ n = size[d.symbol]
<1> DEFINE c == Native([dim |-> n, expected |-> d])
<1>1. c.dim = n /\ c.expected = Dim(d)
  BY NativeIs
<1> HIDE DEF c
<1>2. CASE d.is = "null" /\ Dim(d) = Dimension(-1)
  <2>1. c.expected.value = -1
    BY <1>1, <1>2, NativeIs
  <2> QED
    BY <1>2, <2>1 DEF Admits, c
<1>3. CASE d.is = "int" /\ d.value \in Nat \ {0} /\ Dim(d) = Dimension(d.value)
  <2>1. c.expected.value = d.value /\ d.value > 0 /\ d.value # -1 /\ d.value # -2
    BY <1>1, <1>3, NativeIs
  <2> QED
    BY <1>1, <1>3, <2>1 DEF Admits, c
<1>4. CASE d.is = "string" /\ d.symbol \in Symbols /\ Dim(d) = Symbolic(d.symbol)
  <2>1. c.expected.value = -2 /\ ~ (-2 > 0) /\ c.expected.symbol = d.symbol
    BY <1>1, <1>4, NativeIs
  <2> QED
    BY <1>1, <1>4, <2>1 DEF Admits, c
<1> QED
  BY <1>2, <1>3, <1>4, ItemCases DEF c

LEMMA PyMatchIsMatch ==
  ASSUME NEW seen, NEW c \in PyRows
  PROVE  PyMatch(seen, c) = Match(seen, Native(c)) /\ Native(c) \in Rows
<1>1. c.dim \in 0 .. MaxDim /\ c.expected \in GoodItems
  BY DEF PyRows
<1>2. Native(c) \in Rows
  BY <1>1, ItemIsDimension DEF Native, Rows
<1>3. CASE seen = Failed
  <2>1. PyMatch(seen, c) = Failed
    BY <1>3, PyMatchCases, Zenon
  <2>2. Match(seen, Native(c)) = Failed
    BY <1>3, MatchCases, Zenon
  <2> QED
    BY <1>2, <2>1, <2>2
<1>4. CASE seen # Failed
  <2> DEFINE e == c.expected
  <2> HIDE DEF e
  <2>1. Native(c).dim = c.dim /\ Native(c).expected = Dim(e)
    BY NativeIs DEF e
  <2>2. CASE e.is = "null" /\ Dim(e) = Dimension(-1)
    <3>1. Native(c).expected.value = -1
      BY <2>1, <2>2, NativeIs
    <3>2. PyMatch(seen, c) = seen
      BY <1>4, <2>2, PyMatchCases DEF e
    <3>3. Match(seen, Native(c)) = seen
      BY <1>4, <3>1, MatchCases, Zenon
    <3> QED
      BY <1>2, <3>2, <3>3
  <2>3. CASE e.is = "int" /\ e.value \in Nat \ {0} /\ Dim(e) = Dimension(e.value)
    <3>1. Native(c).expected.value = e.value
      BY <2>1, <2>3, NativeIs
    <3>2. PyMatch(seen, c) = Sized(seen, c.dim, e.value)
      BY <1>4, <2>3, PyMatchCases DEF e
    <3>3. Native(c).expected.value \in Nat \ {0}
      BY <2>3, <3>1
    <3>4. Match(seen, Native(c)) = Sized(seen, Native(c).dim, Native(c).expected.value)
      BY <1>4, <3>3, MatchCases, Zenon
    <3> QED
      BY <1>2, <2>1, <3>1, <3>2, <3>4
  <2>4. CASE e.is = "string" /\ Dim(e) = Symbolic(e.symbol)
    <3>1. Native(c).expected.value = -2 /\ Native(c).expected.symbol = e.symbol
      BY <2>1, <2>4, NativeIs
    <3>2. PyMatch(seen, c) = Bound(seen, e.symbol, c.dim)
      BY <1>4, <2>4, PyMatchCases DEF e
    <3>3. Match(seen, Native(c)) = Bound(seen, Native(c).expected.symbol, Native(c).dim)
      BY <1>4, <3>1, MatchCases, Zenon
    <3> QED
      BY <1>2, <2>1, <3>1, <3>2, <3>3
  <2> QED
    BY <1>1, <2>2, <2>3, <2>4, ItemCases DEF e
<1> QED
  BY <1>2, <1>3, <1>4

LEMMA PyMatchFolds ==
  ASSUME NEW cs \in Seq(PyRows)
  PROVE  \E f \in [0 .. Len(cs) -> Seens] :
           /\ f[0] = <<>> /\ FoldLeft(PyMatch, <<>>, cs) = f[Len(cs)]
           /\ \A k \in 1 .. Len(cs) : f[k] = PyMatch(f[k - 1], cs[k])
<1> DEFINE G == [p \in Seens \X PyRows |-> PyMatch(p[1], p[2])]
           I == CHOOSE iter : iter = [t \in SUBSET (DOMAIN cs) |->
                  IF t = {} THEN <<>> ELSE LET x == Max(t) IN PyMatch(iter[t \ {x}], cs[x])]
<1>1. G \in [Seens \X PyRows -> Seens] /\ <<>> \in Seens
  BY MatchIsClosed, PyMatchIsMatch, NothingSeen DEF Seens
<1>2. \A seen \in Seens, c \in PyRows : G[<<seen, c>>] = PyMatch(seen, c)
  OBVIOUS
<1>3. DOMAIN cs = 1 .. Len(cs) /\ Len(cs) \in Nat /\ \A k \in 1 .. Len(cs) : cs[k] \in PyRows
  OBVIOUS
<1> HIDE DEF G
<1>4. PICK J \in [SUBSET (1 .. Len(cs)) -> Seens] : Folds(J, G, <<>>, cs, Len(cs))
  BY <1>1, FoldsExist
<1>5. \A t \in SUBSET (1 .. Len(cs)) : t # {} => Max(t) \in 1 .. Len(cs)
  BY <1>3, MaxIsIn
<1>6. J = [t \in SUBSET (DOMAIN cs) |->
             IF t = {} THEN <<>> ELSE LET x == Max(t) IN PyMatch(J[t \ {x}], cs[x])]
  <2>1. ASSUME NEW t \in SUBSET (1 .. Len(cs))
        PROVE  J[t] = IF t = {} THEN <<>> ELSE PyMatch(J[t \ {Max(t)}], cs[Max(t)])
    BY <1>2, <1>3, <1>4, <1>5 DEF Folds
  <2> QED
    BY <1>3, <2>1
<1>7. I = [t \in SUBSET (DOMAIN cs) |->
             IF t = {} THEN <<>> ELSE LET x == Max(t) IN PyMatch(I[t \ {x}], cs[x])]
  BY <1>6
<1>8. FoldLeft(PyMatch, <<>>, cs) = I[DOMAIN cs]
  BY DEF FoldLeft, MapThenFoldSet
<1> HIDE DEF I
<1>9. I[{}] = <<>> /\ \A t \in SUBSET (1 .. Len(cs)) : t # {} => I[t] = PyMatch(I[t \ {Max(t)}], cs[Max(t)])
  BY <1>3, <1>7
<1>10. FoldsIn(Seens, I, G, <<>>, cs)
  BY <1>2, <1>3, <1>5, <1>9 DEF FoldsIn
<1>11. PICK f \in [0 .. Len(cs) -> Seens] :
         /\ f[0] = <<>> /\ f[Len(cs)] = I[1 .. Len(cs)]
         /\ \A k \in 1 .. Len(cs) : f[k] = G[<<f[k - 1], cs[k]>>]
  <2>1. IsRun(Seens, I, G, <<>>, cs)
    BY <1>1, <1>10, FoldIsRun, Zenon
  <2> QED
    BY <2>1 DEF IsRun
<1>12. ASSUME NEW k \in 1 .. Len(cs) PROVE f[k] = PyMatch(f[k - 1], cs[k])
  <2>1. f[k - 1] \in Seens /\ cs[k] \in PyRows
    BY <1>3
  <2> QED
    BY <1>2, <1>11, <2>1
<1> QED
  BY <1>3, <1>8, <1>11, <1>12, Zenon

LEMMA SeqIs ==
  ASSUME NEW X, NEW s, NEW Y, s \in Seq(Y), \A i \in 1 .. Len(s) : s[i] \in X
  PROVE  s \in Seq(X)
<1>1. s = [i \in 1 .. Len(s) |-> s[i]] /\ Len(s) \in Nat
  OBVIOUS
<1>2. s \in [1 .. Len(s) -> X]
  BY <1>1
<1> QED
  BY <1>1, <1>2

LEMMA Within ==
  ASSUME NEW X, NEW s \in Seq(X), NEW i \in 1 .. Len(s)
  PROVE  s[i] \in X
  OBVIOUS

\* The comparisons are those of each dimension of each tensor that is given.
AreLaid(X, specs) == /\ DOMAIN specs = 1 .. Len(specs) /\ Len(specs) \in Nat
                     /\ \A k \in DOMAIN specs : specs[k].dims \in Seq(X)
HasRows(cs, X, tensors, specs) ==
  /\ cs \in Seq([dim : 0 .. MaxDim, expected : X])
  /\ \A r : r \in ToSet(cs) <=>
       \E k \in Given(tensors, specs) : \E i \in DOMAIN specs[k].dims :
         r = [dim |-> tensors[specs[k].name].dims[i], expected |-> specs[k].dims[i]]

LEMMA ComparedHas ==
  ASSUME NEW X, NEW tensors, NEW specs, AreTensors(tensors), SameLayout(tensors, specs), AreLaid(X, specs)
  PROVE  HasRows(Compared(tensors, specs), X, tensors, specs)
<1>0. /\ DOMAIN specs = 1 .. Len(specs) /\ Len(specs) \in Nat
      /\ \A k \in DOMAIN specs : specs[k].dims \in Seq(X)
  BY DEF AreLaid
<1> DEFINE B == [dim : 0 .. MaxDim, expected : X]
           row(k) == [i \in DOMAIN specs[k].dims |->
                        [dim |-> tensors[specs[k].name].dims[i], expected |-> specs[k].dims[i]]]
           part(k) == IF k \in Given(tensors, specs) THEN row(k) ELSE <<>>
           seqs == [k \in DOMAIN specs |-> part(k)]
<1>1. ASSUME NEW k \in DOMAIN specs PROVE part(k) \in Seq(B)
  <2>1. CASE k \in Given(tensors, specs)
    <3>1. tensors[specs[k].name].dims \in Seq(0 .. MaxDim) /\ Len(tensors[specs[k].name].dims) = Len(specs[k].dims)
      BY <2>1 DEF Given, AreTensors, IsTensor, SameLayout
    <3>2. specs[k].dims \in Seq(X) /\ DOMAIN specs[k].dims = 1 .. Len(specs[k].dims) /\ Len(specs[k].dims) \in Nat
      BY <1>0
    <3>3. ASSUME NEW i \in DOMAIN specs[k].dims PROVE row(k)[i] \in B
      <4>1. tensors[specs[k].name].dims[i] \in 0 .. MaxDim /\ specs[k].dims[i] \in X
        <5>1. i \in 1 .. Len(specs[k].dims) /\ i \in 1 .. Len(tensors[specs[k].name].dims)
          BY <3>1, <3>2
        <5>2. specs[k].dims[i] \in X
          BY <3>2, <5>1, Within
        <5>3. tensors[specs[k].name].dims[i] \in 0 .. MaxDim
          BY <3>1, <5>1, Within
        <5> QED
          BY <5>2, <5>3
      <4> QED
        BY <4>1
    <3>4. row(k) \in [1 .. Len(specs[k].dims) -> B]
      BY <3>2, <3>3
    <3>5. row(k) \in Seq(B)
      BY <3>2, <3>4
    <3> QED
      BY <2>1, <3>5
  <2>2. CASE k \notin Given(tensors, specs)
    BY <2>2
  <2> QED
    BY <2>1, <2>2
<1>2. seqs \in Seq(Seq(B))
  <2> HIDE DEF part
  <2>1. seqs \in [1 .. Len(specs) -> Seq(B)]
    BY <1>0, <1>1
  <2> HIDE DEF seqs, B
  <2> QED
    BY <1>0, <2>1
<1>3. Compared(tensors, specs) = FlattenSeq(seqs)
  BY DEF Compared
<1>4. DOMAIN seqs = DOMAIN specs /\ \A k \in DOMAIN specs : seqs[k] = part(k)
  OBVIOUS
<1> HIDE DEF seqs
<1>5. ASSUME NEW r
      PROVE  (\E p \in ToSet(seqs) : r \in ToSet(p)) <=> \E k \in DOMAIN specs : r \in ToSet(part(k))
  <2> HIDE DEF part
  <2>1. ToSet(seqs) = {part(k) : k \in DOMAIN specs}
    BY <1>4 DEF ToSet
  <2> QED
    BY <2>1
<1>6. ASSUME NEW k \in DOMAIN specs, NEW r
      PROVE  r \in ToSet(part(k)) <=>
               k \in Given(tensors, specs) /\ \E i \in DOMAIN specs[k].dims :
                 r = [dim |-> tensors[specs[k].name].dims[i], expected |-> specs[k].dims[i]]
  <2>1. CASE k \in Given(tensors, specs)
    BY <2>1 DEF ToSet
  <2>2. CASE k \notin Given(tensors, specs)
    BY <2>2 DEF ToSet
  <2> QED
    BY <2>1, <2>2
<1>7. Given(tensors, specs) \subseteq DOMAIN specs
  BY DEF Given
<1>8. Compared(tensors, specs) \in Seq(B) /\ ToSet(Compared(tensors, specs)) = UNION {ToSet(p) : p \in ToSet(seqs)}
  BY <1>2, <1>3, FlattenHas
<1> HIDE DEF part, B
<1>9. \A r : r \in ToSet(Compared(tensors, specs)) <=> \E k \in DOMAIN specs : r \in ToSet(part(k))
  BY <1>5, <1>8
<1> DEFINE Row(k, i) == [dim |-> tensors[specs[k].name].dims[i], expected |-> specs[k].dims[i]]
<1>10. ASSUME NEW r
       PROVE  r \in ToSet(Compared(tensors, specs)) <=>
                \E k \in Given(tensors, specs) : \E i \in DOMAIN specs[k].dims : r = Row(k, i)
  <2>1. \A k \in DOMAIN specs : r \in ToSet(part(k)) <=>
               k \in Given(tensors, specs) /\ \E i \in DOMAIN specs[k].dims : r = Row(k, i)
    BY <1>6
  <2> HIDE DEF Row
  <2> QED
    BY <1>7, <1>9, <2>1
<1> QED
  BY <1>8, <1>10 DEF B, HasRows

\* What the specs ask of the tensors: their layouts, and a choice of sizes that all dimensions admit.
Layout(tensors, specs) ==
  \A k \in Given(tensors, specs) : /\ tensors[specs[k].name].type = specs[k].dtype
                                   /\ Len(tensors[specs[k].name].dims) = Len(specs[k].shape)
RowOf(tensors, specs, k, i) ==
  Native([dim |-> tensors[specs[k].name].dims[i], expected |-> specs[k].shape[i]])
Fits(tensors, specs, size) ==
  \A k \in Given(tensors, specs) : \A i \in DOMAIN specs[k].shape : Admits(size, RowOf(tensors, specs, k, i))

\* The specs as the Python executors read them.
Read(specs) == [k \in DOMAIN specs |->
                  [name |-> specs[k].name, type |-> specs[k].dtype, dims |-> specs[k].shape]]

LEMMA ConformsIs ==
  ASSUME NEW tensors, NEW specs, AreTensors(tensors), AreGood(specs)
  PROVE  Conforms(tensors, specs) <=> /\ DOMAIN tensors \subseteq NamesOf(specs)
                                      /\ Layout(tensors, specs)
                                      /\ \E size \in AllSizings : Fits(tensors, specs, size)
<1> DEFINE admits(size, d, n) == d.is = "null" \/ (d.is = "int" /\ n = d.value) \/ (d.is = "string" /\ n = size[d.symbol])
           Each(size, k) == /\ tensors[specs[k].name].type = specs[k].dtype
                            /\ Len(tensors[specs[k].name].dims) = Len(specs[k].shape)
                            /\ \A i \in DOMAIN tensors[specs[k].name].dims :
                                 admits(size, specs[k].shape[i], tensors[specs[k].name].dims[i])
<1>1. Conforms(tensors, specs) <=>
        /\ DOMAIN tensors \subseteq NamesOf(specs)
        /\ \E size \in AllSizings : \A k \in Given(tensors, specs) : Each(size, k)
  BY DEF Conforms, Given, AllSizings
<1>2. ASSUME NEW k \in Given(tensors, specs), NEW size
      PROVE  Each(size, k) <=>
               /\ tensors[specs[k].name].type = specs[k].dtype
               /\ Len(tensors[specs[k].name].dims) = Len(specs[k].shape)
               /\ \A i \in DOMAIN specs[k].shape : Admits(size, RowOf(tensors, specs, k, i))
  <2>1. /\ tensors[specs[k].name].dims \in Seq(0 .. MaxDim)
        /\ specs[k].shape \in Seq(GoodItems)
    BY DEF Given, AreTensors, AreGood, IsTensor
  <2>2. /\ DOMAIN tensors[specs[k].name].dims = 1 .. Len(tensors[specs[k].name].dims)
        /\ DOMAIN specs[k].shape = 1 .. Len(specs[k].shape)
    BY <2>1
  <2>3. ASSUME NEW i \in DOMAIN specs[k].shape
        PROVE  Admits(size, RowOf(tensors, specs, k, i))
                 <=> admits(size, specs[k].shape[i], tensors[specs[k].name].dims[i])
    <3>1. specs[k].shape[i] \in GoodItems
      BY <2>1, <2>2, Within
    <3> QED
      BY <3>1, ItemAdmits, Zenon DEF RowOf
  <2> HIDE DEF admits
  <2> QED
    BY <2>2, <2>3
<1> HIDE DEF Each
<1>3. ASSUME NEW size
      PROVE  (\A k \in Given(tensors, specs) : Each(size, k)) <=> Layout(tensors, specs) /\ Fits(tensors, specs, size)
  BY <1>2 DEF Layout, Fits
<1> QED
  BY <1>1, <1>3

LEMMA SpecsAre ==
  ASSUME NEW specs, AreGood(specs)
  PROVE  /\ DOMAIN Specs(specs) = DOMAIN specs /\ DOMAIN Read(specs) = DOMAIN specs
         /\ Len(Specs(specs)) = Len(specs) /\ Len(Read(specs)) = Len(specs)
         /\ \A k \in DOMAIN specs :
              /\ Specs(specs)[k].name = specs[k].name /\ Read(specs)[k].name = specs[k].name
              /\ Specs(specs)[k].type = specs[k].dtype /\ Read(specs)[k].type = specs[k].dtype
              /\ Specs(specs)[k].dims \in Seq(Dimensions) /\ Read(specs)[k].dims = specs[k].shape
              /\ DOMAIN Specs(specs)[k].dims = DOMAIN specs[k].shape
              /\ Len(Specs(specs)[k].dims) = Len(specs[k].shape)
              /\ \A i \in DOMAIN specs[k].shape : Specs(specs)[k].dims[i] = Dim(specs[k].shape[i])
<1>1. DOMAIN Specs(specs) = DOMAIN specs /\ DOMAIN Read(specs) = DOMAIN specs
  BY DEF Specs, Read
<1>2. DOMAIN specs = 1 .. Len(specs) /\ Len(specs) \in Nat
  BY DEF AreGood
<1>3. Len(Specs(specs)) = Len(specs) /\ Len(Read(specs)) = Len(specs)
  BY <1>1, <1>2
<1>4. ASSUME NEW k \in DOMAIN specs
      PROVE  /\ Specs(specs)[k].name = specs[k].name /\ Read(specs)[k].name = specs[k].name
             /\ Specs(specs)[k].type = specs[k].dtype /\ Read(specs)[k].type = specs[k].dtype
             /\ Read(specs)[k].dims = specs[k].shape
             /\ Specs(specs)[k].dims = [i \in DOMAIN specs[k].shape |-> Dim(specs[k].shape[i])]
  BY DEF Specs, Read
<1>5. ASSUME NEW k \in DOMAIN specs
      PROVE  /\ Specs(specs)[k].dims \in Seq(Dimensions)
             /\ DOMAIN Specs(specs)[k].dims = DOMAIN specs[k].shape
             /\ Len(Specs(specs)[k].dims) = Len(specs[k].shape)
             /\ \A i \in DOMAIN specs[k].shape : Specs(specs)[k].dims[i] = Dim(specs[k].shape[i])
  <2>1. PICK shape \in Seq(GoodItems) : shape = specs[k].shape
    BY DEF AreGood
  <2>2. DOMAIN shape = 1 .. Len(shape) /\ Len(shape) \in Nat
    BY <2>1
  <2>3. \A i \in DOMAIN shape : Dim(shape[i]) \in Dimensions
    BY <2>1, <2>2, Within, ItemIsDimension
  <2> DEFINE dims == [i \in DOMAIN shape |-> Dim(shape[i])]
  <2>4. dims \in [1 .. Len(shape) -> Dimensions]
    BY <2>2, <2>3
  <2>5. DOMAIN dims = 1 .. Len(shape) /\ \A i \in DOMAIN shape : dims[i] = Dim(shape[i])
    BY <2>2
  <2> HIDE DEF dims
  <2>6. dims \in Seq(Dimensions) /\ Len(dims) = Len(shape)
    BY <2>2, <2>4, <2>5
  <2> QED
    BY <1>4, <2>1, <2>2, <2>5, <2>6 DEF dims
<1> QED
  BY <1>1, <1>3, <1>4, <1>5

LEMMA LayoutIs ==
  ASSUME NEW tensors, NEW specs, AreGood(specs)
  PROVE  /\ Given(tensors, Specs(specs)) = Given(tensors, specs)
         /\ Given(tensors, Read(specs)) = Given(tensors, specs)
         /\ NamesOf(Specs(specs)) = NamesOf(specs)
         /\ SameLayout(tensors, Specs(specs)) <=> Layout(tensors, specs)
         /\ SameLayout(tensors, Read(specs)) <=> Layout(tensors, specs)
<1>1. /\ Given(tensors, Specs(specs)) = Given(tensors, specs)
      /\ Given(tensors, Read(specs)) = Given(tensors, specs)
      /\ NamesOf(Specs(specs)) = NamesOf(specs)
  BY SpecsAre DEF Given, NamesOf
<1>2. Given(tensors, specs) \subseteq DOMAIN specs
  BY DEF Given
<1> QED
  BY <1>1, <1>2, SpecsAre DEF SameLayout, Layout

LEMMA NativeAccepts ==
  ASSUME NEW tensors, NEW specs, AreTensors(tensors), AreGood(specs), Layout(tensors, specs)
  PROVE  FoldLeft(Match, <<>>, Compared(tensors, Specs(specs))) # Failed
           <=> \E size \in AllSizings : Fits(tensors, specs, size)
<1> DEFINE ns == Specs(specs)
           cs == Compared(tensors, ns)
<1>1. /\ DOMAIN ns = DOMAIN specs /\ DOMAIN ns = 1 .. Len(ns) /\ Len(ns) \in Nat
      /\ \A k \in DOMAIN ns : ns[k].dims \in Seq(Dimensions)
  BY SpecsAre DEF AreGood
<1>2. SameLayout(tensors, ns) /\ Given(tensors, ns) = Given(tensors, specs)
  BY LayoutIs
<1> HIDE DEF ns
<1>3. /\ cs \in Seq([dim : 0 .. MaxDim, expected : Dimensions])
      /\ \A r : r \in ToSet(cs) <=>
           \E k \in Given(tensors, ns) : \E i \in DOMAIN ns[k].dims :
             r = [dim |-> tensors[ns[k].name].dims[i], expected |-> ns[k].dims[i]]
  <2>1. AreLaid(Dimensions, ns)
    BY <1>1 DEF AreLaid
  <2>2. HasRows(cs, Dimensions, tensors, ns)
    BY <1>2, <2>1, ComparedHas, Zenon
  <2> QED
    BY <2>2, Zenon DEF HasRows
<1> HIDE DEF cs
<1>4. cs \in Seq(Rows) /\ Len(cs) \in Nat /\ DOMAIN cs = 1 .. Len(cs)
  BY <1>3 DEF Rows
<1>5. PICK f \in [0 .. Len(cs) -> Seens] :
        /\ f[0] = <<>> /\ FoldLeft(Match, <<>>, cs) = f[Len(cs)]
        /\ \A k \in 1 .. Len(cs) : f[k] = Match(f[k - 1], cs[k])
  BY <1>4, MatchFolds
<1>6. \A k \in 1 .. Len(cs) : cs[k] \in Rows
  BY <1>4
<1>7. f[Len(cs)] # Failed <=> \E size \in AllSizings : \A k \in 1 .. Len(cs) : Admits(size, cs[k])
  BY <1>4, <1>5, <1>6, SizesAreForced
<1>8. ASSUME NEW size
      PROVE  (\A k \in 1 .. Len(cs) : Admits(size, cs[k])) <=> Fits(tensors, specs, size)
  <2>1. (\A k \in 1 .. Len(cs) : Admits(size, cs[k])) <=> \A r \in ToSet(cs) : Admits(size, r)
    BY <1>4 DEF ToSet
  <2>2. ASSUME NEW k \in Given(tensors, specs), NEW i \in DOMAIN specs[k].shape
        PROVE  /\ DOMAIN ns[k].dims = DOMAIN specs[k].shape
               /\ [dim |-> tensors[ns[k].name].dims[i], expected |-> ns[k].dims[i]] = RowOf(tensors, specs, k, i)
    <3>1. k \in DOMAIN specs
      BY DEF Given
    <3>2. ns[k].name = specs[k].name /\ DOMAIN ns[k].dims = DOMAIN specs[k].shape /\ ns[k].dims[i] = Dim(specs[k].shape[i])
      BY <3>1, SpecsAre DEF ns
    <3> QED
      BY <3>2 DEF RowOf, Native
  <2>3. ASSUME NEW k \in Given(tensors, specs) PROVE DOMAIN ns[k].dims = DOMAIN specs[k].shape
    <3>1. k \in DOMAIN specs
      BY DEF Given
    <3> QED
      BY <3>1, SpecsAre DEF ns
  <2> DEFINE Row(k, i) == [dim |-> tensors[ns[k].name].dims[i], expected |-> ns[k].dims[i]]
  <2>4. \A r : r \in ToSet(cs) <=> \E k \in Given(tensors, ns) : \E i \in DOMAIN ns[k].dims : r = Row(k, i)
    BY <1>3
  <2>5. \A k \in Given(tensors, specs) : \A i \in DOMAIN specs[k].shape : Row(k, i) = RowOf(tensors, specs, k, i)
    BY <2>2
  <2> HIDE DEF Row
  <2>6. (\A r \in ToSet(cs) : Admits(size, r)) <=>
          \A k \in Given(tensors, ns) : \A i \in DOMAIN ns[k].dims : Admits(size, Row(k, i))
    <3>1. ASSUME NEW k \in Given(tensors, ns), NEW i \in DOMAIN ns[k].dims PROVE Row(k, i) \in ToSet(cs)
      BY <2>4
    <3>2. ASSUME NEW r \in ToSet(cs)
          PROVE  \E k \in Given(tensors, ns) : \E i \in DOMAIN ns[k].dims : r = Row(k, i)
      BY <2>4
    <3> QED
      BY <3>1, <3>2
  <2> QED
    BY <1>2, <2>1, <2>3, <2>5, <2>6 DEF Fits
<1> QED
  BY <1>5, <1>7, <1>8 DEF cs, ns

LEMMA PythonAccepts ==
  ASSUME NEW tensors, NEW specs, AreTensors(tensors), AreGood(specs), Layout(tensors, specs)
  PROVE  FoldLeft(PyMatch, <<>>, Compared(tensors, Read(specs))) # Failed
           <=> \E size \in AllSizings : Fits(tensors, specs, size)
<1> DEFINE ns == Read(specs)
           cs == Compared(tensors, ns)
<1>1. /\ DOMAIN ns = DOMAIN specs /\ DOMAIN ns = 1 .. Len(ns) /\ Len(ns) \in Nat
      /\ \A k \in DOMAIN ns : ns[k].dims \in Seq(GoodItems)
  BY SpecsAre DEF AreGood
<1>2. SameLayout(tensors, ns) /\ Given(tensors, ns) = Given(tensors, specs)
  BY LayoutIs
<1>9. \A k \in Given(tensors, specs) : ns[k].name = specs[k].name /\ ns[k].dims = specs[k].shape
  BY SpecsAre DEF Given
<1> HIDE DEF ns
<1>3. /\ cs \in Seq([dim : 0 .. MaxDim, expected : GoodItems])
      /\ \A r : r \in ToSet(cs) <=>
           \E k \in Given(tensors, ns) : \E i \in DOMAIN ns[k].dims :
             r = [dim |-> tensors[ns[k].name].dims[i], expected |-> ns[k].dims[i]]
  <2>1. AreLaid(GoodItems, ns)
    BY <1>1 DEF AreLaid
  <2>2. HasRows(cs, GoodItems, tensors, ns)
    BY <1>2, <2>1, ComparedHas, Zenon
  <2> QED
    BY <2>2, Zenon DEF HasRows
<1> HIDE DEF cs
<1>4. cs \in Seq(PyRows) /\ Len(cs) \in Nat /\ DOMAIN cs = 1 .. Len(cs)
  BY <1>3 DEF PyRows
<1>5. PICK f \in [0 .. Len(cs) -> Seens] :
        /\ f[0] = <<>> /\ FoldLeft(PyMatch, <<>>, cs) = f[Len(cs)]
        /\ \A k \in 1 .. Len(cs) : f[k] = PyMatch(f[k - 1], cs[k])
  BY <1>4, PyMatchFolds
<1> DEFINE rs == [k \in 1 .. Len(cs) |-> Native(cs[k])]
<1>6. \A k \in 1 .. Len(cs) : rs[k] = Native(cs[k])
  OBVIOUS
<1> HIDE DEF rs
<1>10. ASSUME NEW k \in 1 .. Len(cs) PROVE rs[k] \in Rows /\ f[k] = Match(f[k - 1], rs[k])
  <2>1. cs[k] \in PyRows
    BY <1>4, Within
  <2>2. PyMatch(f[k - 1], cs[k]) = Match(f[k - 1], Native(cs[k])) /\ Native(cs[k]) \in Rows
    BY <2>1, PyMatchIsMatch, Zenon
  <2> QED
    BY <1>5, <1>6, <2>2
<1>7. f[Len(cs)] # Failed <=> \E size \in AllSizings : \A k \in 1 .. Len(cs) : Admits(size, rs[k])
  BY <1>4, <1>5, <1>10, SizesAreForced
<1>8. ASSUME NEW size
      PROVE  (\A k \in 1 .. Len(cs) : Admits(size, rs[k])) <=> Fits(tensors, specs, size)
  <2>1. (\A k \in 1 .. Len(cs) : Admits(size, rs[k])) <=> \A r \in ToSet(cs) : Admits(size, Native(r))
    BY <1>4, <1>6 DEF ToSet
  <2>4. (\A r \in ToSet(cs) : Admits(size, Native(r))) <=>
          \A k \in Given(tensors, ns) : \A i \in DOMAIN ns[k].dims :
            Admits(size, Native([dim |-> tensors[ns[k].name].dims[i], expected |-> ns[k].dims[i]]))
    BY <1>3, Zenon
  <2> QED
    BY <1>2, <1>9, <2>1, <2>4 DEF Fits, RowOf
<1> QED
  BY <1>5, <1>7, <1>8 DEF cs, ns

\* Both validations accept just what conforms to the specs.
LEMMA ValidationsConform ==
  ASSUME NEW tensors, NEW specs, AreTensors(tensors), AreGood(specs)
  PROVE  /\ Validates(tensors, Specs(specs)) <=> Conforms(tensors, specs)
         /\ PyValidates(tensors, specs) <=> Conforms(tensors, specs)
<1>1. Validates(tensors, Specs(specs)) <=>
        /\ Layout(tensors, specs)
        /\ FoldLeft(Match, <<>>, Compared(tensors, Specs(specs))) # Failed
        /\ DOMAIN tensors \subseteq NamesOf(specs)
  BY LayoutIs DEF Validates
<1>2. PyValidates(tensors, specs) <=>
        /\ DOMAIN tensors \subseteq NamesOf(specs)
        /\ Layout(tensors, specs)
        /\ FoldLeft(PyMatch, <<>>, Compared(tensors, Read(specs))) # Failed
  BY LayoutIs DEF PyValidates, Read
<1>3. CASE Layout(tensors, specs)
  BY <1>1, <1>2, <1>3, NativeAccepts, PythonAccepts, ConformsIs
<1>4. CASE ~ Layout(tensors, specs)
  BY <1>1, <1>2, <1>4, ConformsIs
<1> QED
  BY <1>3, <1>4

-----------------------------------------------------------------------------
(***************************************************************************)
(* The inductive invariant: a package is what write_neuropod_config wrote  *)
(* of valid arguments, and the model is what load_model_config makes of    *)
(* it; a callable of the cache feeds and fetches the nodes of its key, which   *)
(* the graph has; a call past the validation has valid inputs; and what a  *)
(* framework returns are tensors, or null pointers that are left when an   *)
(* output was moved.                                                       *)
(***************************************************************************)
PackageInv ==
  /\ setup \in Setups
  /\ package \notin {Absent, Empty} =>
       /\ Written(setup.args) = Config(setup.args) /\ PyConfigIsValid(Config(setup.args))
       /\ Written(setup.args) \notin {Absent, Empty}
       /\ package \in {Config(setup.args), [Config(setup.args) EXCEPT !.devices = Absent]}
  /\ model # Null => package \notin {Absent, Empty} /\ model = ConfigOf(package)

CacheInv ==
  \A key \in DOMAIN callables : /\ callables[key].feeds = Sorted(key.feeds)
                                /\ callables[key].fetches = Sorted(key.fetches)
                                /\ Makes(setup.graph, callables[key].feeds, callables[key].fetches)

Results(out) == /\ out = [n \in DOMAIN out |-> out[n]]
                /\ \A n \in DOMAIN out : out[n] = Null \/ IsTensor(out[n])

InputsInv ==
  /\ DOMAIN call = DOMAIN NoCall
  /\ call.at # "none" => model # Null /\ call.inputs \in Inputs /\ call.requested \in Requests
  /\ call.at \notin {"none", "called", "failed", "crashed"} =>
       setup.unchecked \/ Validates(call.inputs, model.inputs)

OutputsInv ==
  /\ call.at = "fed" /\ Platform = "tensorflow" => DOMAIN call.fetches \subseteq ToSet(NodeOrder)
  /\ call.at = "ready" => /\ Platform = "tensorflow" /\ DOMAIN call.fetches \subseteq ToSet(NodeOrder)
                          /\ call.callable.feeds = Sorted(DOMAIN call.fed)
                          /\ call.callable.fetches = Sorted(DOMAIN call.fetches)
                          /\ Makes(setup.graph, call.callable.feeds, call.callable.fetches)
  /\ call.at \in {"ran", "filtered", "answered"} => Results(call.out)
  /\ call.at = "answered" /\ ~setup.unchecked =>
       (\A n \in DOMAIN call.out : call.out[n] # Null) /\ Validates(call.out, model.outputs)

Inv == PackageInv /\ CacheInv /\ InputsInv /\ OutputsInv

LEMMA CanonicalIs ==
  ASSUME NEW specs, AreSpecs(specs)
  PROVE  /\ DOMAIN Canonical(specs) = DOMAIN specs
         /\ DOMAIN Canonical(specs) = 1 .. Len(Canonical(specs)) /\ Len(Canonical(specs)) \in Nat
         /\ \A k \in DOMAIN specs : /\ Canonical(specs)[k].name = specs[k].name
                                    /\ Canonical(specs)[k].shape = specs[k].shape
                                    /\ specs[k].shape = NotAList \/ specs[k].shape \in Seq(Items)
                                    /\ specs[k].shape # NotAList => \A i \in DOMAIN specs[k].shape :
                                         specs[k].shape[i].is = "string" => specs[k].shape[i].symbol \in Symbols
<1>1. DOMAIN specs = 1 .. Len(specs) /\ Len(specs) \in Nat
  BY DEF AreSpecs
<1>2. DOMAIN Canonical(specs) = DOMAIN specs
  BY DEF Canonical
<1>3. Len(Canonical(specs)) = Len(specs)
  BY <1>1, <1>2
<1>4. ASSUME NEW k \in DOMAIN specs
      PROVE  /\ Canonical(specs)[k].name = specs[k].name
             /\ Canonical(specs)[k].shape = specs[k].shape
             /\ specs[k].shape = NotAList \/ specs[k].shape \in Seq(Items)
             /\ specs[k].shape # NotAList => \A i \in DOMAIN specs[k].shape :
                  specs[k].shape[i].is = "string" => specs[k].shape[i].symbol \in Symbols
  <2>1. specs[k] \in ToSet(specs)
    BY DEF ToSet
  <2>2. /\ specs[k] \in [name : {specs[k].name}, dtype : {specs[k].dtype}, shape : {NotAList} \cup Seq(Items)]
        /\ specs[k].shape # NotAList => \A i \in DOMAIN specs[k].shape :
             specs[k].shape[i].is = "string" => specs[k].shape[i].symbol \in Symbols
    BY <2>1 DEF AreSpecs
  <2>3. Canonical(specs)[k] = [specs[k] EXCEPT !.dtype = Numpy[specs[k].dtype]]
    BY DEF Canonical
  <2> QED
    BY <2>2, <2>3
<1> QED
  BY <1>1, <1>2, <1>3, <1>4

LEMMA CanonicalIsGood ==
  ASSUME NEW specs, AreSpecs(specs), PySpecIsValid(Canonical(specs))
  PROVE  AreGood(Canonical(specs))
<1>1. /\ DOMAIN Canonical(specs) = DOMAIN specs
      /\ DOMAIN Canonical(specs) = 1 .. Len(Canonical(specs)) /\ Len(Canonical(specs)) \in Nat
  BY CanonicalIs
<1>2. ASSUME NEW k \in DOMAIN specs PROVE Canonical(specs)[k].shape \in Seq(GoodItems)
  <2>1. /\ Canonical(specs)[k].shape = specs[k].shape /\ specs[k].shape # NotAList
        /\ \A i \in DOMAIN specs[k].shape : PyItemIsValid(specs[k].shape[i])
    BY <1>1, CanonicalIs DEF PySpecIsValid
  <2>2. PICK shape \in Seq(Items) : shape = specs[k].shape
    BY <2>1, CanonicalIs
  <2>3. DOMAIN shape = 1 .. Len(shape) /\ Len(shape) \in Nat
    BY <2>2
  <2>4. \A i \in 1 .. Len(shape) : shape[i] \in Items
    BY <2>2, Within
  <2>5. \A i \in DOMAIN shape : PyItemIsValid(shape[i]) /\ (shape[i].is = "string" => shape[i].symbol \in Symbols)
    BY <2>1, <2>2, CanonicalIs
  <2>6. \A i \in 1 .. Len(shape) : shape[i] \in GoodItems
    BY <2>3, <2>4, <2>5 DEF GoodItems
  <2>7. shape \in Seq(GoodItems)
    BY <2>2, <2>3, <2>6, SeqIs
  <2> QED
    BY <2>1, <2>2, <2>7
<1> QED
  BY <1>1, <1>2 DEF AreGood

LEMMA PackageIs ==
  ASSUME PackageInv, package \notin {Absent, Empty}
  PROVE  /\ package.platform = setup.args.platform /\ package.semver = setup.args.semver
         /\ package.ops = setup.args.ops
         /\ package.inputs = Canonical(setup.args.inputs) /\ package.outputs = Canonical(setup.args.outputs)
         /\ package = [package EXCEPT !.devices = package.devices]
         /\ package.name # NotAString /\ package.platform # NotAString
         /\ PySpecIsValid(package.inputs) /\ PySpecIsValid(package.outputs)
         /\ package.ops # NotAList /\ \A k \in DOMAIN package.ops : package.ops[k] # NotAString
         /\ package.devices # Absent => /\ DOMAIN package.devices = NamesOf(package.inputs)
                                        /\ \A n \in DOMAIN package.devices : package.devices[n] \in {Cpu, Gpu}
<1> DEFINE c == Config(setup.args)
<1>1. /\ c.platform = setup.args.platform /\ c.semver = setup.args.semver /\ c.ops = setup.args.ops
      /\ c.inputs = Canonical(setup.args.inputs) /\ c.outputs = Canonical(setup.args.outputs)
      /\ c = [c EXCEPT !.devices = c.devices]
      /\ DOMAIN c = {"name", "platform", "semver", "ops", "inputs", "outputs", "devices"}
  BY DEF Config
<1> HIDE DEF c
<1>2. PyConfigIsValid(c) /\ package \in {c, [c EXCEPT !.devices = Absent]}
  BY DEF PackageInv, c
<1>3. CASE package = c
  BY <1>1, <1>2, <1>3 DEF PyConfigIsValid
<1>4. CASE package = [c EXCEPT !.devices = Absent]
  <2>1. /\ package.name = c.name /\ package.platform = c.platform /\ package.semver = c.semver /\ package.ops = c.ops
        /\ package.inputs = c.inputs /\ package.outputs = c.outputs /\ package.devices = Absent
        /\ package = [package EXCEPT !.devices = package.devices]
    BY <1>1, <1>4
  <2> QED
    BY <1>1, <1>2, <2>1 DEF PyConfigIsValid
<1> QED
  BY <1>2, <1>3, <1>4

LEMMA SpecsAreGood ==
  ASSUME PackageInv, package \notin {Absent, Empty}
  PROVE  AreGood(package.inputs) /\ AreGood(package.outputs)
<1>1. AreSpecs(setup.args.inputs) /\ AreSpecs(setup.args.outputs)
  BY SetupsAssumption DEF PackageInv
<1> QED
  BY <1>1, PackageIs, CanonicalIsGood

\* A package without devices is completed to a valid one.
LEMMA CompletedIsValid ==
  ASSUME PackageInv, package \notin {Absent, Empty}
  PROVE  PyConfigIsValid(Completed(package)) /\ Completed(package).platform = package.platform
<1>1. CASE package.devices # Absent
  <2>1. Completed(package) = package
    BY <1>1 DEF Completed
  <2> QED
    BY <1>1, <2>1, PackageIs DEF PyConfigIsValid
<1>2. CASE package.devices = Absent
  <2> DEFINE e == Everywhere(Gpu, package.inputs)
  <2>1. DOMAIN e = NamesOf(package.inputs) /\ \A n \in DOMAIN e : e[n] = Gpu
    BY DEF Everywhere
  <2> HIDE DEF e
  <2>2. Completed(package) = [package EXCEPT !.devices = e]
    BY <1>2 DEF Completed, e
  <2>3. DOMAIN package = {"name", "platform", "semver", "ops", "inputs", "outputs", "devices"}
    BY DEF PackageInv, Config
  <2>4. /\ Completed(package).name = package.name /\ Completed(package).platform = package.platform /\ Completed(package).ops = package.ops
        /\ Completed(package).inputs = package.inputs /\ Completed(package).outputs = package.outputs
        /\ Completed(package).devices = e
    BY <2>2, <2>3
  <2> QED
    BY <2>1, <2>4, PackageIs DEF PyConfigIsValid
<1> QED
  BY <1>1, <1>2

\* What is assumed of files and configurations, of the package of this state.
LEMMA PackageIsRead ==
  ASSUME PackageInv, package \notin {Absent, Empty}
  PROVE  /\ PyRead(package) = Completed(package) /\ PyRead(package) # Failed
         /\ Loads(package) => Loaded(package) = ConfigOf(package) /\ Loaded(package) # Failed
<1>1. /\ setup \in Setups /\ Written(setup.args) = Config(setup.args)
      /\ Written(setup.args) \notin {Absent, Empty}
      /\ package \in {Written(setup.args), [Written(setup.args) EXCEPT !.devices = Absent]}
  BY DEF PackageInv
<1>2. Failed # Completed(package) /\ (Loads(package) => Failed # ConfigOf(package))
  BY <1>1, FilesAssumption, Zenon
<1> QED
  BY <1>2, CompletedIsValid DEF PyRead, Loaded

LEMMA SizesAreRead ==
  ASSUME NEW specs, AreGood(specs), PySpecIsValid(specs), NEW others,
         \A n \in Sizes(others) : n <= MaxInt, ToSet(specs) \subseteq ToSet(others)
  PROVE  \A s \in ToSet(specs) : SpecIsValid(s)
<1>1. SUFFICES ASSUME NEW k \in DOMAIN specs PROVE SpecIsValid(specs[k])
  BY DEF ToSet
<1>2. /\ specs[k].dtype \in DTypes /\ specs[k].name # NotAString /\ specs[k].shape # NotAList
      /\ \A i \in DOMAIN specs[k].shape : PyItemIsValid(specs[k].shape[i])
  BY DEF PySpecIsValid
<1>3. ASSUME NEW i \in DOMAIN specs[k].shape PROVE ItemIsValid(specs[k].shape[i])
  <2>1. specs[k].shape \in Seq(GoodItems) /\ DOMAIN specs[k].shape = 1 .. Len(specs[k].shape)
    BY DEF AreGood
  <2>2. specs[k].shape[i] \in GoodItems
    BY <2>1, Within
  <2>3. specs[k].shape[i].value \in Int
    BY <2>2 DEF GoodItems, Items
  <2>4. specs[k] \in ToSet(others) /\ specs[k].shape[i] \in ToSet(specs[k].shape)
    BY DEF ToSet
  <2>5. specs[k].shape[i].value \in Sizes(others)
    <3>1. specs[k].shape[i].value \in {d.value : d \in ToSet(specs[k].shape)}
      BY <2>4
    <3>2. {d.value : d \in ToSet(specs[k].shape)} \in {{d.value : d \in ToSet(s.shape)} : s \in ToSet(others)}
      BY <2>4, Zenon
    <3> QED
      BY <3>1, <3>2, Zenon DEF Sizes
  <2> QED
    BY <1>2, <2>3, <2>5, MaxIntAssumption DEF PyItemIsValid, ItemIsValid
<1> QED
  BY <1>2, <1>3 DEF SpecIsValid

LEMMA WhatIsPackagedLoads == PackageInv => PackagesLoad
<1> SUFFICES ASSUME PackageInv, package \notin {Absent, Empty}
             PROVE  /\ PyRead(package) # Failed
                    /\ package.semver # "invalid" /\ (\A n \in Sizes(package.inputs \o package.outputs) : n <= MaxInt) =>
                         Loaded(package) # Failed /\ NamesOf(package.inputs) = DOMAIN Loaded(package).devices
  BY DEF PackagesLoad
<1>1. ASSUME package.semver # "invalid", \A n \in Sizes(package.inputs \o package.outputs) : n <= MaxInt
      PROVE  Loaded(package) # Failed /\ NamesOf(package.inputs) = DOMAIN Loaded(package).devices
  <2>1. AreGood(package.inputs) /\ AreGood(package.outputs)
    BY SpecsAreGood
  <2>2. PICK B : package.inputs \in Seq(B) /\ package.outputs \in Seq(B)
    <3> DEFINE B == ToSet(package.inputs) \cup ToSet(package.outputs)
    <3>1. /\ package.inputs = Canonical(setup.args.inputs) /\ package.outputs = Canonical(setup.args.outputs)
          /\ DOMAIN package.inputs = 1 .. Len(package.inputs) /\ Len(package.inputs) \in Nat
          /\ DOMAIN package.outputs = 1 .. Len(package.outputs) /\ Len(package.outputs) \in Nat
      BY <2>1, PackageIs DEF AreGood
    <3>2. /\ package.inputs = [k \in DOMAIN package.inputs |-> package.inputs[k]]
          /\ package.outputs = [k \in DOMAIN package.outputs |-> package.outputs[k]]
      BY <3>1 DEF Canonical
    <3>3. /\ \A k \in DOMAIN package.inputs : package.inputs[k] \in B
          /\ \A k \in DOMAIN package.outputs : package.outputs[k] \in B
      BY DEF ToSet
    <3> HIDE DEF B
    <3>4. package.inputs \in [1 .. Len(package.inputs) -> B] /\ package.outputs \in [1 .. Len(package.outputs) -> B]
      BY <3>1, <3>2, <3>3
    <3>5. package.inputs \in Seq(B) /\ package.outputs \in Seq(B)
      BY <3>1, <3>4
    <3> QED
      BY <3>5
  <2>3. ToSet(package.inputs \o package.outputs) = ToSet(package.inputs) \cup ToSet(package.outputs)
    BY <2>2, ConcatHas
  <2>4. (\A s \in ToSet(package.inputs) : SpecIsValid(s)) /\ \A s \in ToSet(package.outputs) : SpecIsValid(s)
    <3> DEFINE both == package.inputs \o package.outputs
    <3>1. /\ \A n \in Sizes(both) : n <= MaxInt
          /\ ToSet(package.inputs) \subseteq ToSet(both) /\ ToSet(package.outputs) \subseteq ToSet(both)
      BY <1>1, <2>3
    <3>2. PySpecIsValid(package.inputs) /\ PySpecIsValid(package.outputs)
      BY PackageIs
    <3> HIDE DEF both
    <3> QED
      BY <2>1, <3>1, <3>2, SizesAreRead
  <2>5. Loads(package)
    BY <1>1, <2>3, <2>4, PackageIs DEF Loads
  <2>6. Loaded(package) # Failed /\ Loaded(package) = ConfigOf(package)
    BY <2>5, PackageIsRead
  <2>7. DOMAIN ConfigOf(package).devices = NamesOf(package.inputs)
    BY PackageIs DEF ConfigOf, Everywhere
  <2> QED
    BY <2>6, <2>7
<1> QED
  BY <1>1, PackageIsRead

-----------------------------------------------------------------------------
(***************************************************************************)
(* What the backends make of a framework's outputs.                        *)
(***************************************************************************)
LEMMA AppendHas ==
  ASSUME NEW B, NEW s \in Seq(B), NEW e
  PROVE  ToSet(Append(s, e)) = ToSet(s) \cup {e}
<1>1. /\ Len(s) \in Nat /\ DOMAIN s = 1 .. Len(s) /\ DOMAIN Append(s, e) = 1 .. Len(s) + 1
      /\ 1 .. Len(s) + 1 = (1 .. Len(s)) \cup {Len(s) + 1}
      /\ Append(s, e)[Len(s) + 1] = e /\ \A i \in 1 .. Len(s) : Append(s, e)[i] = s[i]
  OBVIOUS
<1> DEFINE t == Append(s, e)
<1> HIDE DEF t
<1>2. DOMAIN t = DOMAIN s \cup {Len(s) + 1} /\ t[Len(s) + 1] = e /\ \A i \in DOMAIN s : t[i] = s[i]
  BY <1>1 DEF t
<1>3. ToSet(t) = ToSet(s) \cup {e}
  BY <1>2 DEF ToSet
<1> QED
  BY <1>3 DEF t

\* Sorted keeps the nodes that there are.
SortedStep(nodes, s, n) == IF n \in nodes THEN Append(s, n) ELSE s

LEMMA SortedFolds ==
  ASSUME NEW nodes
  PROVE  \E f \in [0 .. Len(NodeOrder) -> Seq(ToSet(NodeOrder))] :
           /\ f[0] = <<>> /\ Sorted(nodes) = f[Len(NodeOrder)]
           /\ \A k \in 1 .. Len(NodeOrder) : f[k] = SortedStep(nodes, f[k - 1], NodeOrder[k])
<1> DEFINE G == [p \in Seq(ToSet(NodeOrder)) \X ToSet(NodeOrder) |-> SortedStep(nodes, p[1], p[2])]
           I == CHOOSE iter : iter = [t \in SUBSET (DOMAIN NodeOrder) |->
                  IF t = {} THEN <<>> ELSE LET x == Max(t) IN SortedStep(nodes, iter[t \ {x}], NodeOrder[x])]
<1>1. G \in [Seq(ToSet(NodeOrder)) \X ToSet(NodeOrder) -> Seq(ToSet(NodeOrder))] /\ <<>> \in Seq(ToSet(NodeOrder))
  BY DEF SortedStep
<1>2. \A a \in Seq(ToSet(NodeOrder)), b \in ToSet(NodeOrder) : G[<<a, b>>] = SortedStep(nodes, a, b)
  OBVIOUS
<1>3. /\ DOMAIN NodeOrder = 1 .. Len(NodeOrder) /\ Len(NodeOrder) \in Nat
      /\ \A k \in 1 .. Len(NodeOrder) : NodeOrder[k] \in ToSet(NodeOrder)
  BY NodesAssumption
<1> HIDE DEF G
<1>4. PICK J \in [SUBSET (1 .. Len(NodeOrder)) -> Seq(ToSet(NodeOrder))] : Folds(J, G, <<>>, NodeOrder, Len(NodeOrder))
  BY <1>1, FoldsExist, NodesAssumption
<1>5. \A t \in SUBSET (1 .. Len(NodeOrder)) : t # {} => Max(t) \in 1 .. Len(NodeOrder)
  BY <1>3, MaxIsIn
<1>6. J = [t \in SUBSET (DOMAIN NodeOrder) |->
             IF t = {} THEN <<>> ELSE LET x == Max(t) IN SortedStep(nodes, J[t \ {x}], NodeOrder[x])]
  <2>1. ASSUME NEW t \in SUBSET (1 .. Len(NodeOrder))
        PROVE  J[t] = IF t = {} THEN <<>> ELSE LET x == Max(t) IN SortedStep(nodes, J[t \ {x}], NodeOrder[x])
    BY <1>2, <1>3, <1>4, <1>5 DEF Folds
  <2> QED
    BY <1>3, <2>1
<1>7. I = [t \in SUBSET (DOMAIN NodeOrder) |->
             IF t = {} THEN <<>> ELSE LET x == Max(t) IN SortedStep(nodes, I[t \ {x}], NodeOrder[x])]
  BY <1>6
<1>8. Sorted(nodes) = I[DOMAIN NodeOrder]
  BY DEF FoldLeft, MapThenFoldSet, Sorted, SortedStep
<1> HIDE DEF I
<1>9. I[{}] = <<>> /\ \A t \in SUBSET (1 .. Len(NodeOrder)) : t # {} => I[t] = LET x == Max(t) IN SortedStep(nodes, I[t \ {x}], NodeOrder[x])
  BY <1>3, <1>7
<1>10. FoldsIn(Seq(ToSet(NodeOrder)), I, G, <<>>, NodeOrder)
  BY <1>2, <1>3, <1>5, <1>9 DEF FoldsIn
<1>11. PICK f \in [0 .. Len(NodeOrder) -> Seq(ToSet(NodeOrder))] :
         /\ f[0] = <<>> /\ f[Len(NodeOrder)] = I[1 .. Len(NodeOrder)]
         /\ \A k \in 1 .. Len(NodeOrder) : f[k] = G[<<f[k - 1], NodeOrder[k]>>]
  <2>1. IsRun(Seq(ToSet(NodeOrder)), I, G, <<>>, NodeOrder)
    BY <1>1, <1>10, FoldIsRun, NodesAssumption, Zenon
  <2> QED
    BY <2>1 DEF IsRun
<1>12. ASSUME NEW k \in 1 .. Len(NodeOrder) PROVE f[k] = SortedStep(nodes, f[k - 1], NodeOrder[k])
  <2>1. f[k - 1] \in Seq(ToSet(NodeOrder)) /\ NodeOrder[k] \in ToSet(NodeOrder)
    BY <1>3
  <2> QED
    BY <1>2, <1>11, <2>1
<1> QED
  BY <1>3, <1>8, <1>11, <1>12, Zenon

LEMMA SortedHas ==
  ASSUME NEW nodes
  PROVE  Sorted(nodes) \in Seq(ToSet(NodeOrder)) /\ ToSet(Sorted(nodes)) = nodes \cap ToSet(NodeOrder)
<1>1. PICK f \in [0 .. Len(NodeOrder) -> Seq(ToSet(NodeOrder))] :
        /\ f[0] = <<>> /\ Sorted(nodes) = f[Len(NodeOrder)]
        /\ \A k \in 1 .. Len(NodeOrder) : f[k] = SortedStep(nodes, f[k - 1], NodeOrder[k])
  BY SortedFolds
<1>2. DOMAIN NodeOrder = 1 .. Len(NodeOrder) /\ Len(NodeOrder) \in Nat
  BY NodesAssumption
<1> DEFINE P(k) == ToSet(f[k]) = nodes \cap {NodeOrder[j] : j \in 1 .. k}
           T == {k \in 0 .. Len(NodeOrder) : ~ P(k)}
<1>3. P(0)
  <2>1. ToSet(f[0]) = {} /\ 1 .. 0 = {}
    BY <1>1 DEF ToSet
  <2> QED
    BY <2>1
<1>4. ASSUME NEW k \in 1 .. Len(NodeOrder), P(k - 1) PROVE P(k)
  <2>1. f[k - 1] \in Seq(ToSet(NodeOrder)) /\ 1 .. k = (1 .. k - 1) \cup {k}
    BY <1>1, <1>2
  <2>2. f[k] = SortedStep(nodes, f[k - 1], NodeOrder[k])
    BY <1>1
  <2>3. CASE NodeOrder[k] \in nodes
    <3>1. f[k] = Append(f[k - 1], NodeOrder[k])
      BY <2>2, <2>3 DEF SortedStep
    <3>2. ToSet(f[k]) = ToSet(f[k - 1]) \cup {NodeOrder[k]}
      BY <2>1, <3>1, AppendHas
    <3> QED
      BY <1>4, <2>1, <2>3, <3>2
  <2>4. CASE NodeOrder[k] \notin nodes
    <3>1. f[k] = f[k - 1]
      BY <2>2, <2>4 DEF SortedStep
    <3> QED
      BY <1>4, <2>1, <2>4, <3>1
  <2> QED
    BY <2>3, <2>4
<1>5. P(Len(NodeOrder))
  <2> HIDE DEF P
  <2>1. SUFFICES ASSUME T # {} PROVE FALSE
    BY <1>2
  <2>2. PICK k \in T : \A m \in T : k <= m
    <3>1. T \subseteq Nat
      BY <1>2
    <3> QED
      BY <2>1, <3>1, LeastNumber
  <2>3. k # 0
    BY <1>3, <2>2
  <2>4. k \in 1 .. Len(NodeOrder) /\ k - 1 \in 0 .. Len(NodeOrder) /\ k - 1 \notin T
    BY <1>2, <2>2, <2>3
  <2> QED
    BY <1>4, <2>2, <2>4
<1>6. {NodeOrder[j] : j \in 1 .. Len(NodeOrder)} = ToSet(NodeOrder)
  BY <1>2 DEF ToSet
<1> QED
  BY <1>1, <1>2, <1>5, <1>6

-----------------------------------------------------------------------------
\* Maps with some of the names, to some of the values.
Maps(N, V) == UNION {[S -> V] : S \in SUBSET N}

LEMMA MapsAre ==
  ASSUME NEW N, NEW V, NEW map
  PROVE  map \in Maps(N, V) <=> /\ map = [x \in DOMAIN map |-> map[x]] /\ DOMAIN map \subseteq N
                                /\ \A x \in DOMAIN map : map[x] \in V
<1>1. ASSUME map \in Maps(N, V)
      PROVE  /\ map = [x \in DOMAIN map |-> map[x]] /\ DOMAIN map \subseteq N
             /\ \A x \in DOMAIN map : map[x] \in V
  BY <1>1 DEF Maps
<1>2. ASSUME map = [x \in DOMAIN map |-> map[x]], DOMAIN map \subseteq N, \A x \in DOMAIN map : map[x] \in V
      PROVE  map \in Maps(N, V)
  <2>1. map \in [DOMAIN map -> V]
    BY <1>2
  <2> QED
    BY <1>2, <2>1 DEF Maps
<1> QED
  BY <1>1, <1>2

LEMMA PutIsMap ==
  ASSUME NEW N, NEW V, NEW map \in Maps(N, V), NEW key \in N, NEW value \in V
  PROVE  Put(map, key, value) \in Maps(N, V)
<1> DEFINE more == Put(map, key, value)
<1>1. more = [x \in DOMAIN map \cup {key} |-> IF x = key THEN value ELSE map[x]]
  BY DEF Put
<1>2. DOMAIN map \subseteq N /\ \A x \in DOMAIN map : map[x] \in V
  BY MapsAre
<1>3. /\ more = [x \in DOMAIN more |-> more[x]] /\ DOMAIN more \subseteq N
      /\ \A x \in DOMAIN more : more[x] \in V
  BY <1>1, <1>2
<1> HIDE DEF more
<1>4. more \in Maps(N, V)
  BY <1>3, MapsAre
<1> QED
  BY <1>4 DEF more

LEMMA NoMap ==
  ASSUME NEW N, NEW V
  PROVE  <<>> \in Maps(N, V)
<1>1. DOMAIN <<>> = {} /\ <<>> = [x \in DOMAIN <<>> |-> <<>>[x]]
  OBVIOUS
<1> QED
  BY <1>1, MapsAre

\* The outputs that are made of items, or the error.
Values(items, from)  == UNION {{Value(item, from), Wrapped(item, from)} : item \in items}
Outputs(items, from) == Maps({item.name : item \in items}, Values(items, from)) \cup {Failed}

LEMMA InsertIsClosed ==
  ASSUME NEW items, NEW type, NEW from, NEW out \in Outputs(items, from), NEW item \in items
  PROVE  Insert(out, item, type, from) \in Outputs(items, from)
<1>1. item.name \in {i.name : i \in items} /\ Wrapped(item, from) \in Values(items, from)
  BY DEF Values
<1>2. CASE out = Failed \/ ~Accepts(item, type) \/ item.name \in DOMAIN out
  BY <1>2 DEF Insert, Outputs
<1>3. CASE ~ (out = Failed \/ ~Accepts(item, type) \/ item.name \in DOMAIN out)
  <2>1. Insert(out, item, type, from) = Put(out, item.name, Wrapped(item, from))
    BY <1>3 DEF Insert
  <2>2. out \in Maps({i.name : i \in items}, Values(items, from))
    BY <1>3 DEF Outputs
  <2>3. Put(out, item.name, Wrapped(item, from)) \in Maps({i.name : i \in items}, Values(items, from))
    BY <1>1, <2>2, PutIsMap
  <2> QED
    BY <2>1, <2>3 DEF Outputs
<1> QED
  BY <1>2, <1>3

\* infer_internal moves the outputs that are requested.
MoveStates(out, names) ==
  LET values == {out[n] : n \in DOMAIN out} \cup {Null}
  IN [data : [DOMAIN out -> values], out : Maps(names, values)] \cup {Failed}

LEMMA MoveOutIsClosed ==
  ASSUME NEW out, NEW names, NEW state \in MoveStates(out, names), NEW name \in names
  PROVE  MoveOut(state, name) \in MoveStates(out, names)
<1> DEFINE values == {out[n] : n \in DOMAIN out} \cup {Null}
<1>0. Null \in values
  OBVIOUS
<1>1. CASE state = Failed \/ name \notin DOMAIN state.data
  BY <1>1 DEF MoveOut, MoveStates
<1>2. CASE ~ (state = Failed \/ name \notin DOMAIN state.data)
  <2> HIDE DEF values
  <2>1. state.data \in [DOMAIN out -> values] /\ state.out \in Maps(names, values)
    BY <1>2 DEF MoveStates, values
  <2>2. MoveOut(state, name) = [data |-> [state.data EXCEPT ![name] = Null],
                                out |-> Put(state.out, name, state.data[name])]
    BY <1>2 DEF MoveOut
  <2>3. [state.data EXCEPT ![name] = Null] \in [DOMAIN out -> values] /\ state.data[name] \in values
    BY <1>0, <1>2, <2>1
  <2>4. Put(state.out, name, state.data[name]) \in Maps(names, values)
    BY <2>1, <2>3, PutIsMap
  <2>5. MoveOut(state, name) \in [data : [DOMAIN out -> values], out : Maps(names, values)]
    BY <2>2, <2>3, <2>4
  <2> QED
    BY <2>5 DEF MoveStates, values
<1> QED
  BY <1>1, <1>2

Folded(cs, type, from) == FoldLeft(LAMBDA out, item : Insert(out, item, type, from), <<>>, cs)

Collects(items, type, from, cs) ==
  \E f \in [0 .. Len(cs) -> Outputs(items, from)] :
    /\ f[0] = <<>> /\ Folded(cs, type, from) = f[Len(cs)]
    /\ \A k \in 1 .. Len(cs) : f[k] = Insert(f[k - 1], cs[k], type, from)

LEMMA CollectedFolds ==
  ASSUME NEW items, NEW type, NEW from, NEW cs \in Seq(items)
  PROVE  Collects(items, type, from, cs)
<1> DEFINE G == [p \in Outputs(items, from) \X items |-> Insert(p[1], p[2], type, from)]
           I == CHOOSE iter : iter = [t \in SUBSET (DOMAIN cs) |->
                  IF t = {} THEN <<>> ELSE LET x == Max(t) IN Insert(iter[t \ {x}], cs[x], type, from)]
<1>1. G \in [Outputs(items, from) \X items -> Outputs(items, from)] /\ <<>> \in Outputs(items, from)
  BY InsertIsClosed, NoMap DEF Outputs
<1>2. \A a \in Outputs(items, from), b \in items : G[<<a, b>>] = Insert(a, b, type, from)
  OBVIOUS
<1>3. /\ DOMAIN cs = 1 .. Len(cs) /\ Len(cs) \in Nat
      /\ \A k \in 1 .. Len(cs) : cs[k] \in items
  OBVIOUS
<1> HIDE DEF G
<1>4. PICK J \in [SUBSET (1 .. Len(cs)) -> Outputs(items, from)] : Folds(J, G, <<>>, cs, Len(cs))
  BY <1>1, FoldsExist
<1>5. \A t \in SUBSET (1 .. Len(cs)) : t # {} => Max(t) \in 1 .. Len(cs)
  BY <1>3, MaxIsIn
<1>6. J = [t \in SUBSET (DOMAIN cs) |->
             IF t = {} THEN <<>> ELSE LET x == Max(t) IN Insert(J[t \ {x}], cs[x], type, from)]
  <2>1. ASSUME NEW t \in SUBSET (1 .. Len(cs))
        PROVE  J[t] = IF t = {} THEN <<>> ELSE LET x == Max(t) IN Insert(J[t \ {x}], cs[x], type, from)
    BY <1>2, <1>3, <1>4, <1>5 DEF Folds
  <2> QED
    BY <1>3, <2>1
<1>7. I = [t \in SUBSET (DOMAIN cs) |->
             IF t = {} THEN <<>> ELSE LET x == Max(t) IN Insert(I[t \ {x}], cs[x], type, from)]
  BY <1>6
<1>8. Folded(cs, type, from) = I[DOMAIN cs]
  BY DEF FoldLeft, MapThenFoldSet, Folded
<1> HIDE DEF I
<1>9. I[{}] = <<>> /\ \A t \in SUBSET (1 .. Len(cs)) : t # {} => I[t] = LET x == Max(t) IN Insert(I[t \ {x}], cs[x], type, from)
  BY <1>3, <1>7
<1>10. FoldsIn(Outputs(items, from), I, G, <<>>, cs)
  BY <1>2, <1>3, <1>5, <1>9 DEF FoldsIn
<1>11. PICK f \in [0 .. Len(cs) -> Outputs(items, from)] :
         /\ f[0] = <<>> /\ f[Len(cs)] = I[1 .. Len(cs)]
         /\ \A k \in 1 .. Len(cs) : f[k] = G[<<f[k - 1], cs[k]>>]
  <2>1. IsRun(Outputs(items, from), I, G, <<>>, cs)
    BY <1>1, <1>10, FoldIsRun, Zenon
  <2> QED
    BY <2>1 DEF IsRun
<1>12. ASSUME NEW k \in 1 .. Len(cs) PROVE f[k] = Insert(f[k - 1], cs[k], type, from)
  <2>1. f[k - 1] \in Outputs(items, from) /\ cs[k] \in items
    BY <1>3
  <2> QED
    BY <1>2, <1>11, <2>1
<1> QED
  BY <1>3, <1>8, <1>11, <1>12, Zenon DEF Collects

LEMMA CollectedIn ==
  ASSUME NEW items, NEW type, NEW from, NEW cs \in Seq(items)
  PROVE  Folded(cs, type, from) \in Outputs(items, from)
<1>1. PICK f \in [0 .. Len(cs) -> Outputs(items, from)] :
        /\ f[0] = <<>> /\ Folded(cs, type, from) = f[Len(cs)]
        /\ \A k \in 1 .. Len(cs) : f[k] = Insert(f[k - 1], cs[k], type, from)
  <2>1. Collects(items, type, from, cs)
    BY CollectedFolds
  <2> QED
    BY <2>1 DEF Collects
<1> QED
  BY <1>1

Moves(out, names, base, cs) ==
  \E f \in [0 .. Len(cs) -> MoveStates(out, names)] :
    /\ f[0] = base /\ FoldLeft(MoveOut, base, cs) = f[Len(cs)]
    /\ \A k \in 1 .. Len(cs) : f[k] = MoveOut(f[k - 1], cs[k])

LEMMA MovedFolds ==
  ASSUME NEW out, NEW names, NEW cs \in Seq(names), NEW base \in MoveStates(out, names)
  PROVE  Moves(out, names, base, cs)
<1> DEFINE G == [p \in MoveStates(out, names) \X names |-> MoveOut(p[1], p[2])]
           I == CHOOSE iter : iter = [t \in SUBSET (DOMAIN cs) |->
                  IF t = {} THEN base ELSE LET x == Max(t) IN MoveOut(iter[t \ {x}], cs[x])]
<1>1. G \in [MoveStates(out, names) \X names -> MoveStates(out, names)] /\ base \in MoveStates(out, names)
  BY MoveOutIsClosed
<1>2. \A a \in MoveStates(out, names), b \in names : G[<<a, b>>] = MoveOut(a, b)
  OBVIOUS
<1>3. /\ DOMAIN cs = 1 .. Len(cs) /\ Len(cs) \in Nat
      /\ \A k \in 1 .. Len(cs) : cs[k] \in names
  OBVIOUS
<1> HIDE DEF G
<1>4. PICK J \in [SUBSET (1 .. Len(cs)) -> MoveStates(out, names)] : Folds(J, G, base, cs, Len(cs))
  BY <1>1, FoldsExist
<1>5. \A t \in SUBSET (1 .. Len(cs)) : t # {} => Max(t) \in 1 .. Len(cs)
  BY <1>3, MaxIsIn
<1>6. J = [t \in SUBSET (DOMAIN cs) |->
             IF t = {} THEN base ELSE LET x == Max(t) IN MoveOut(J[t \ {x}], cs[x])]
  <2>1. ASSUME NEW t \in SUBSET (1 .. Len(cs))
        PROVE  J[t] = IF t = {} THEN base ELSE LET x == Max(t) IN MoveOut(J[t \ {x}], cs[x])
    BY <1>2, <1>3, <1>4, <1>5 DEF Folds
  <2> QED
    BY <1>3, <2>1
<1>7. I = [t \in SUBSET (DOMAIN cs) |->
             IF t = {} THEN base ELSE LET x == Max(t) IN MoveOut(I[t \ {x}], cs[x])]
  BY <1>6
<1>8. FoldLeft(MoveOut, base, cs) = I[DOMAIN cs]
  BY DEF FoldLeft, MapThenFoldSet
<1> HIDE DEF I
<1>9. I[{}] = base /\ \A t \in SUBSET (1 .. Len(cs)) : t # {} => I[t] = LET x == Max(t) IN MoveOut(I[t \ {x}], cs[x])
  BY <1>3, <1>7
<1>10. FoldsIn(MoveStates(out, names), I, G, base, cs)
  BY <1>2, <1>3, <1>5, <1>9 DEF FoldsIn
<1>11. PICK f \in [0 .. Len(cs) -> MoveStates(out, names)] :
         /\ f[0] = base /\ f[Len(cs)] = I[1 .. Len(cs)]
         /\ \A k \in 1 .. Len(cs) : f[k] = G[<<f[k - 1], cs[k]>>]
  <2>1. IsRun(MoveStates(out, names), I, G, base, cs)
    BY <1>1, <1>10, FoldIsRun, Zenon
  <2> QED
    BY <2>1 DEF IsRun
<1>12. ASSUME NEW k \in 1 .. Len(cs) PROVE f[k] = MoveOut(f[k - 1], cs[k])
  <2>1. f[k - 1] \in MoveStates(out, names) /\ cs[k] \in names
    BY <1>3
  <2> QED
    BY <1>2, <1>11, <2>1
<1> QED
  BY <1>3, <1>8, <1>11, <1>12, Zenon DEF Moves

LEMMA MovedIn ==
  ASSUME NEW out, NEW names, NEW cs \in Seq(names), NEW base \in MoveStates(out, names)
  PROVE  FoldLeft(MoveOut, base, cs) \in MoveStates(out, names)
<1>1. PICK f \in [0 .. Len(cs) -> MoveStates(out, names)] :
        /\ f[0] = base /\ FoldLeft(MoveOut, base, cs) = f[Len(cs)]
        /\ \A k \in 1 .. Len(cs) : f[k] = MoveOut(f[k - 1], cs[k])
  <2>1. Moves(out, names, base, cs)
    BY MovedFolds
  <2> QED
    BY <2>1, Zenon DEF Moves
<1>2. f[Len(cs)] \in MoveStates(out, names)
  OBVIOUS
<1> QED
  BY <1>1, <1>2, Zenon

LEMMA ValueIsTensor ==
  ASSUME NEW item, IsTensor(item), NEW from
  PROVE  IsTensor(Value(item, from)) /\ IsTensor(Wrapped(item, from))
  BY DEF IsTensor, Value, Wrapped, Out

\* The items that are named are tensors.
NamedItems(graph, specs) ==
  {item \in ItemsOf(graph) \cup {[graph.parts[1][1] EXCEPT !.name = specs[1].name]} : IsTensor(item)}

LEMMA NamedAreTensors ==
  ASSUME NEW graph, IsGraph("torchscript", graph), NEW specs
  PROVE  Named(graph, specs) \in Seq(NamedItems(graph, specs))
<1> DEFINE items == {item \in ItemsOf(graph) \cup {[graph.parts[1][1] EXCEPT !.name = specs[1].name]} : IsTensor(item)}
           cs == Named(graph, specs)
<1>1. /\ graph.parts \in Seq(Seq(ItemsOf(graph)))
      /\ \A item \in ItemsOf(graph) : IsTensor(item) /\ {"name", "is", "type"} \subseteq DOMAIN item
      /\ graph.form = "single" => graph.parts # <<>> /\ graph.parts[1] # <<>>
  BY DEF IsGraph
<1>3. cs \in Seq(items)
  <2>1. CASE graph.form # "single"
    <3>1. cs = FlattenSeq(graph.parts)
      BY <2>1 DEF Named
    <3>2. FlattenSeq(graph.parts) \in Seq(ItemsOf(graph))
      BY <1>1, FlattenHas
    <3>3. ItemsOf(graph) \subseteq items
      BY <1>1
    <3>4. \A i \in 1 .. Len(cs) : cs[i] \in items
      BY <3>1, <3>2, <3>3, Within
    <3> HIDE DEF cs, items
    <3> QED
      BY <3>1, <3>2, <3>4, SeqIs
  <2>2. CASE graph.form = "single"
    <3> DEFINE first == graph.parts[1][1]
               item == [first EXCEPT !.name = specs[1].name]
    <3>1. cs = <<item>>
      BY <2>2 DEF Named
    <3>2. first \in ItemsOf(graph)
      <4>1. graph.parts \in Seq(Seq(ItemsOf(graph))) /\ 1 \in 1 .. Len(graph.parts) /\ 1 \in DOMAIN graph.parts
        BY <1>1, <2>2
      <4>2. graph.parts[1] \in Seq(ItemsOf(graph))
        BY <4>1, Within
      <4>3. 1 \in 1 .. Len(graph.parts[1])
        BY <1>1, <2>2, <4>2
      <4> QED
        BY <4>2, <4>3, Within
    <3> HIDE DEF first
    <3>3. IsTensor(item)
      BY <1>1, <3>2 DEF IsTensor
    <3>4. item \in items
      BY <3>3 DEF first
    <3> HIDE DEF cs, items, item
    <3> QED
      BY <3>1, <3>4
  <2> QED
    BY <2>1, <2>2
<1> QED
  BY <1>3 DEF NamedItems

LEMMA CollectedAreTensors ==
  ASSUME NEW graph, IsGraph("torchscript", graph), NEW specs, NEW from, Collected(graph, specs, from) # Failed
  PROVE  Results(Collected(graph, specs, from))
<1> DEFINE type == IF graph.form = "single" THEN specs[1].type ELSE Null
           items == NamedItems(graph, specs)
           cs == Named(graph, specs)
           res == Collected(graph, specs, from)
<1>2. res = Folded(cs, type, from)
  BY DEF Collected, Folded
<1>3. cs \in Seq(items)
  BY NamedAreTensors
<1>4. \A value \in Values(items, from) : IsTensor(value)
  BY ValueIsTensor DEF NamedItems, Values
<1> HIDE DEF items, cs, type
<1>5. res \in Outputs(items, from)
  <2>1. Folded(cs, type, from) \in Outputs(items, from)
    BY <1>3, CollectedIn, Zenon
  <2> QED
    BY <1>2, <2>1, Zenon
<1>6. res \in Maps({item.name : item \in items}, Values(items, from))
  BY <1>5 DEF Outputs
<1> HIDE DEF res
<1>7. /\ res = [n \in DOMAIN res |-> res[n]]
      /\ \A n \in DOMAIN res : res[n] \in Values(items, from)
  BY <1>6, MapsAre
<1>8. Results(res)
  BY <1>4, <1>7 DEF Results
<1> QED
  BY <1>8 DEF res

\* Before anything is moved.
LEMMA NothingIsMoved ==
  ASSUME NEW out, Results(out), NEW names
  PROVE  [data |-> out, out |-> <<>>] \in MoveStates(out, names)
<1> DEFINE values == {out[n] : n \in DOMAIN out} \cup {Null}
<1>1. out \in [DOMAIN out -> values]
  BY DEF Results
<1>2. <<>> \in Maps(names, values)
  BY NoMap
<1> HIDE DEF values
<1>3. [data |-> out, out |-> <<>>] \in [data : [DOMAIN out -> values], out : Maps(names, values)]
  BY <1>1, <1>2
<1> QED
  BY <1>3 DEF MoveStates, values

LEMMA MovedAreTensors ==
  ASSUME NEW out, Results(out), NEW names, names \in Seq(ToSet(names)),
         NEW moved, moved = FoldLeft(MoveOut, [data |-> out, out |-> <<>>], names), moved # Failed
  PROVE  Results(moved.out)
<1> DEFINE base == [data |-> out, out |-> <<>>]
           values == {out[n] : n \in DOMAIN out} \cup {Null}
<1>1. base \in MoveStates(out, ToSet(names))
  BY NothingIsMoved
<1> HIDE DEF base
<1>3. moved \in MoveStates(out, ToSet(names))
  <2>1. FoldLeft(MoveOut, base, names) \in MoveStates(out, ToSet(names))
    BY <1>1, MovedIn, Zenon
  <2> QED
    BY <2>1, Zenon DEF base
<1>4. moved.out \in Maps(ToSet(names), values)
  BY <1>3 DEF MoveStates
<1> HIDE DEF values
<1>5. /\ moved.out = [n \in DOMAIN moved.out |-> moved.out[n]]
      /\ \A n \in DOMAIN moved.out : moved.out[n] \in values
  BY <1>4, MapsAre
<1> QED
  BY <1>5 DEF Results, values

LEMMA PyAnswersAreTensors ==
  ASSUME NEW graph, IsGraph("python", graph), NEW config, config.platform = "python", NEW inputs,
         NEW out, out = PyAnswer(config, graph, inputs), out # Failed
  PROVE  Results(FromNumpy(graph, out))
<1> DEFINE items == graph.parts[1]
           names == [k \in DOMAIN items |-> items[k].name]
<1>1. out = PyForward(graph, inputs)
  <2>1. PyAnswer(config, graph, inputs) \in {Failed, PyForward(graph, inputs)}
    BY DEF PyAnswer
  <2> QED
    BY <2>1
<1>2. out = [n \in NamesOf(items) |-> Value(items[Index(names, n)], inputs)]
  BY <1>1 DEF PyForward
<1>3. \A k \in DOMAIN items : items[k] \in ItemsOf(graph)
  <2>0. graph.parts \in Seq(Seq(ItemsOf(graph))) /\ Len(graph.parts) = 1
    BY DEF IsGraph
  <2>1. graph.parts \in Seq(Seq(ItemsOf(graph))) /\ 1 \in 1 .. Len(graph.parts)
    BY <2>0
  <2>2. items \in Seq(ItemsOf(graph))
    BY <2>1, Within
  <2> HIDE DEF items
  <2> QED
    BY <2>2
<1>4. DOMAIN out = NamesOf(items)
  BY <1>2
<1>5. ASSUME NEW n \in NamesOf(items)
      PROVE  IsTensor(out[n]) /\ out[n] = [type |-> out[n].type, dims |-> out[n].dims, device |-> out[n].device, data |-> out[n].data]
  <2> DEFINE k == Index(names, n)
  <2>1. \E j \in DOMAIN names : names[j] = n
    BY DEF NamesOf
  <2>2. k \in DOMAIN names
    BY <2>1, Zenon DEF Index
  <2>3. DOMAIN names = DOMAIN items
    OBVIOUS
  <2> HIDE DEF k, names
  <2>4. IsTensor(items[k])
    BY <1>3, <2>2, <2>3 DEF IsGraph
  <2>5. out[n] = Value(items[k], inputs)
    BY <1>2 DEF k, names
  <2>6. Value(items[k], inputs) = [type |-> Value(items[k], inputs).type, dims |-> Value(items[k], inputs).dims,
                                   device |-> Value(items[k], inputs).device, data |-> Value(items[k], inputs).data]
    BY DEF Value, Out
  <2> QED
    BY <2>4, <2>5, <2>6, ValueIsTensor
<1> DEFINE read == FromNumpy(graph, out)
<1>6. /\ read = [n \in DOMAIN read |-> read[n]] /\ DOMAIN read = DOMAIN out
      /\ \A n \in DOMAIN out : read[n] \in {out[n], [out[n] EXCEPT !.data = Garbled]}
  BY DEF FromNumpy
<1> HIDE DEF read
<1>7. ASSUME NEW n \in DOMAIN read PROVE IsTensor(read[n])
  <2>1. n \in NamesOf(items)
    BY <1>4, <1>6
  <2>2. [out[n] EXCEPT !.data = Garbled].dims = out[n].dims
    BY <1>5, <2>1
  <2> QED
    BY <1>5, <1>6, <2>1, <2>2 DEF IsTensor
<1> QED
  BY <1>6, <1>7 DEF Results, read

-----------------------------------------------------------------------------
(***************************************************************************)
(* The invariant is kept by each action.                                   *)
(***************************************************************************)
LEMMA PlatformIs ==
  ASSUME PackageInv, model # Null
  PROVE  /\ Platform = setup.args.platform /\ IsGraph(Platform, setup.graph)
         /\ package \notin {Absent, Empty} /\ Platform = package.platform
         /\ model.inputs = Specs(package.inputs) /\ model.outputs = Specs(package.outputs)
<1>1. package \notin {Absent, Empty} /\ model = ConfigOf(package)
  BY DEF PackageInv
<1>2. package.platform = setup.args.platform
  BY <1>1, PackageIs
<1>3. /\ model.platform = package.platform
      /\ model.inputs = Specs(package.inputs) /\ model.outputs = Specs(package.outputs)
  BY <1>1 DEF ConfigOf
<1> QED
  BY <1>1, <1>2, <1>3, SetupsAssumption DEF PackageInv, Platform

LEMMA PackageStays ==
  ASSUME PackageInv, UNCHANGED <<setup, package, model>>
  PROVE  PackageInv'
  BY DEF PackageInv

LEMMA CacheStays ==
  ASSUME CacheInv, UNCHANGED <<setup, callables>>
  PROVE  CacheInv'
  BY DEF CacheInv

LEMMA InputsStay ==
  ASSUME InputsInv, UNCHANGED <<setup, model>>, call.at \notin {"none", "called", "failed", "crashed"},
         DOMAIN call' = DOMAIN NoCall, call'.inputs = call.inputs, call'.requested = call.requested
  PROVE  InputsInv'
  BY DEF InputsInv

\* What a step of a call does to the fields that it does not set.
Keeps == DOMAIN call' = DOMAIN NoCall /\ call'.inputs = call.inputs /\ call'.requested = call.requested

LEMMA CallFields ==
  ASSUME InputsInv
  PROVE  /\ DOMAIN call = {"at", "inputs", "requested", "sealed", "fed", "fetches", "callable", "out"}
         /\ DOMAIN NoCall = DOMAIN call
  BY DEF InputsInv, NoCall

LEMMA GotoIs ==
  ASSUME InputsInv, NEW l, Goto(l)
  PROVE  Keeps /\ call'.at = l /\ call'.out = call.out
  BY CallFields DEF Goto, Keeps

\* A call that has ended without an answer, or is before its framework, has no outputs to speak of.
LEMMA NoOutputs ==
  ASSUME call'.at \in {"none", "called", "valid", "sealed", "failed", "crashed"}
  PROVE  OutputsInv'
  BY DEF OutputsInv

LEMMA InitEstablishes == Init => Inv
<1> SUFFICES ASSUME Init PROVE Inv
  OBVIOUS
<1>1. PackageInv
  BY DEF Init, PackageInv
<1>2. CacheInv
  BY DEF Init, CacheInv
<1>3. InputsInv
  BY DEF Init, InputsInv, NoCall
<1>4. OutputsInv
  BY DEF Init, OutputsInv, NoCall
<1> QED
  BY <1>1, <1>2, <1>3, <1>4 DEF Inv

LEMMA PackageKeeps == Inv /\ Package => Inv'
<1> SUFFICES ASSUME Inv, Package PROVE Inv'
  OBVIOUS
<1>1. PackageInv'
  <2> DEFINE file == Written(setup.args)
  <2>1. model = Null
    BY DEF Inv, PackageInv, Package
  <2>2. UNCHANGED <<setup, model>>
    BY DEF Package
  <2>3. package' = IF file \in {Absent, Empty} \/ ~setup.old THEN file ELSE [file EXCEPT !.devices = Absent]
    BY DEF Package
  <2>4. file \notin {Absent, Empty} => file = Config(setup.args) /\ PyConfigIsValid(Config(setup.args))
    BY DEF Written
  <2> HIDE DEF file
  <2>5. ASSUME package' \notin {Absent, Empty}
        PROVE  file \notin {Absent, Empty} /\ package' \in {file, [file EXCEPT !.devices = Absent]}
    BY <2>3, <2>5
  <2>6. setup \in Setups
    BY DEF Inv, PackageInv
  <2>7. ASSUME package' \notin {Absent, Empty}
        PROVE  /\ Written(setup.args) = Config(setup.args) /\ PyConfigIsValid(Config(setup.args))
               /\ Written(setup.args) \notin {Absent, Empty}
               /\ package' \in {Config(setup.args), [Config(setup.args) EXCEPT !.devices = Absent]}
    <3>1. file \notin {Absent, Empty} /\ file = Config(setup.args) /\ PyConfigIsValid(Config(setup.args))
      BY <2>4, <2>5, <2>7
    <3> QED
      BY <2>5, <2>7, <3>1 DEF file
  <2> QED
    BY <2>1, <2>2, <2>6, <2>7 DEF PackageInv
<1>2. CacheInv'
  BY CacheStays DEF Inv, Package
<1>3. InputsInv'
  BY DEF Inv, InputsInv, Package
<1>4. OutputsInv'
  BY DEF Inv, InputsInv, OutputsInv, Package, Platform
<1> QED
  BY <1>1, <1>2, <1>3, <1>4 DEF Inv

LEMMA LoadKeeps == Inv /\ Load => Inv'
<1> SUFFICES ASSUME Inv, Load PROVE Inv'
  OBVIOUS
<1>0. call.at = "none" /\ UNCHANGED <<setup, package, callables, call>>
  BY DEF Inv, PackageInv, InputsInv, Load
<1>1. PackageInv'
  <2>1. package # Absent /\ Loaded(package) # Failed /\ model' = Loaded(package)
    BY DEF Load
  <2>2. Loads(package) /\ Loaded(package) = ConfigOf(package)
    BY <2>1 DEF Loaded
  <2>3. package \notin {Absent, Empty}
    BY <2>1, <2>2 DEF Loads
  <2> QED
    BY <1>0, <2>1, <2>2, <2>3 DEF Inv, PackageInv
<1>2. CacheInv'
  BY <1>0, CacheStays DEF Inv
<1>3. InputsInv'
  BY <1>0 DEF Inv, InputsInv
<1>4. OutputsInv'
  BY <1>0, NoOutputs
<1> QED
  BY <1>1, <1>2, <1>3, <1>4 DEF Inv

LEMMA InferKeeps == Inv /\ Infer => Inv'
<1> SUFFICES ASSUME Inv, Infer PROVE Inv'
  OBVIOUS
<1>0. model # Null /\ UNCHANGED <<setup, package, model, callables>>
  BY DEF Infer
<1>1. PICK inputs \in Inputs, requested \in Requests :
        call' = [NoCall EXCEPT !.at = "called", !.inputs = inputs, !.requested = requested]
  BY DEF Infer
<1>2. DOMAIN call' = DOMAIN NoCall /\ call'.at = "called" /\ call'.inputs = inputs /\ call'.requested = requested
  BY <1>1 DEF NoCall
<1>3. PackageInv' /\ CacheInv'
  BY <1>0, PackageStays, CacheStays DEF Inv
<1>4. InputsInv'
  BY <1>0, <1>1, <1>2 DEF InputsInv
<1>5. OutputsInv'
  BY <1>2, NoOutputs
<1> QED
  BY <1>3, <1>4, <1>5 DEF Inv

LEMMA ValidateKeeps == Inv /\ Validate => Inv'
<1> SUFFICES ASSUME Inv, Validate PROVE Inv'
  OBVIOUS
<1>0. call.at = "called" /\ UNCHANGED <<setup, package, model, callables>> /\ InputsInv
  BY DEF Validate, At, Inv
<1>1. PICK l \in {"valid", "failed"} :
        Goto(l) /\ (l = "valid" => setup.unchecked \/ Validates(call.inputs, model.inputs))
  BY DEF Validate
<1>2. Keeps /\ call'.at = l
  BY <1>0, <1>1, GotoIs
<1>3. PackageInv' /\ CacheInv'
  BY <1>0, PackageStays, CacheStays DEF Inv
<1>4. InputsInv'
  BY <1>0, <1>1, <1>2 DEF InputsInv, Keeps
<1>5. OutputsInv'
  BY <1>1, <1>2, NoOutputs
<1> QED
  BY <1>3, <1>4, <1>5 DEF Inv

LEMMA SealKeeps == Inv /\ Seal => Inv'
<1> SUFFICES ASSUME Inv, Seal PROVE Inv'
  OBVIOUS
<1>0. call.at = "valid" /\ UNCHANGED <<setup, package, model, callables>> /\ InputsInv
  BY DEF Seal, At, Inv
<1>1. Keeps /\ call'.at \in {"failed", "sealed"}
  <2>1. CASE Goto("failed")
    BY <1>0, <2>1, GotoIs
  <2>2. ASSUME NEW sealed, call' = [call EXCEPT !.at = "sealed", !.sealed = sealed]
        PROVE  Keeps /\ call'.at = "sealed"
    BY <1>0, <2>2, CallFields DEF Keeps
  <2> QED
    BY <2>1, <2>2 DEF Seal
<1>2. PackageInv' /\ CacheInv'
  BY <1>0, PackageStays, CacheStays DEF Inv
<1>3. InputsInv'
  BY <1>0, <1>1, InputsStay DEF Keeps
<1>4. OutputsInv'
  BY <1>1, NoOutputs
<1> QED
  BY <1>2, <1>3, <1>4 DEF Inv

LEMMA FeedTensorflowKeeps == Inv /\ FeedTensorflow => Inv'
<1> SUFFICES ASSUME Inv, FeedTensorflow PROVE Inv'
  OBVIOUS
<1>0. /\ call.at = "sealed" /\ UNCHANGED <<setup, package, model, callables>>
      /\ Platform = "tensorflow" /\ InputsInv /\ PackageInv /\ model # Null
  BY DEF FeedTensorflow, At, Inv, InputsInv
<1>1. /\ Keeps
      /\ \/ call'.at = "failed"
         \/ call'.at = "fed" /\ DOMAIN call'.fetches \subseteq ToSet(NodeOrder)
  <2>1. CASE Goto("failed")
    BY <1>0, <2>1, GotoIs
  <2>2. CASE ~ Goto("failed")
    <3>1. PICK fed \in Feeds(setup.graph, call.sealed) :
            call' = [call EXCEPT !.at = "fed", !.fed = fed, !.fetches = Fetches(setup.graph, OutputNames)]
      BY <2>2 DEF FeedTensorflow
    <3>2. ToSet(OutputNames) \subseteq DOMAIN setup.graph.mapping
      BY <2>2 DEF FeedTensorflow
    <3>3. \A n \in DOMAIN setup.graph.mapping : setup.graph.mapping[n] \in ToSet(NodeOrder)
      BY <1>0, PlatformIs DEF IsGraph
    <3>4. DOMAIN Fetches(setup.graph, OutputNames) \subseteq ToSet(NodeOrder)
      BY <3>2, <3>3 DEF Fetches, Nodes
    <3>5. Keeps /\ call'.at = "fed" /\ call'.fetches = Fetches(setup.graph, OutputNames)
      BY <1>0, <3>1, CallFields DEF Keeps
    <3> QED
      BY <3>4, <3>5
  <2> QED
    BY <2>1, <2>2
<1>2. PackageInv' /\ CacheInv'
  BY <1>0, PackageStays, CacheStays DEF Inv
<1>3. InputsInv'
  BY <1>0, <1>1, InputsStay DEF Keeps
<1>4. OutputsInv'
  BY <1>1 DEF OutputsInv
<1> QED
  BY <1>2, <1>3, <1>4 DEF Inv

\* A callable that feeds and fetches these nodes, which the graph has.
IsFor(callable, feeds, fetches) == /\ callable.feeds = Sorted(feeds) /\ callable.fetches = Sorted(fetches)
                                   /\ Makes(setup.graph, callable.feeds, callable.fetches)

LEMMA GetCallableKeeps == Inv /\ GetCallable => Inv'
<1> SUFFICES ASSUME Inv, GetCallable PROVE Inv'
  OBVIOUS
<1>0. /\ call.at = "fed" /\ UNCHANGED <<setup, package, model>> /\ Platform = "tensorflow"
      /\ InputsInv /\ CacheInv /\ DOMAIN call.fetches \subseteq ToSet(NodeOrder)
  BY DEF GetCallable, At, Inv, OutputsInv
<1> DEFINE key  == Key(call.fed, call.fetches)
           made == [feeds |-> Sorted(DOMAIN call.fed), fetches |-> Sorted(DOMAIN call.fetches)]
           use(callable) == call' = [call EXCEPT !.at = "ready", !.callable = callable]
<1>1. /\ key.feeds = DOMAIN call.fed /\ key.fetches = DOMAIN call.fetches
      /\ made.feeds = Sorted(DOMAIN call.fed) /\ made.fetches = Sorted(DOMAIN call.fetches)
  BY DEF Key
<1>2. \/ key \in DOMAIN callables /\ use(callables[key]) /\ UNCHANGED callables
      \/ /\ Makes(setup.graph, made.feeds, made.fetches)
         /\ use(made) /\ callables' = Put(callables, key, made)
      \/ Goto("failed") /\ UNCHANGED callables
  BY DEF GetCallable
<1> HIDE DEF key, made
<1>3. ASSUME NEW callable, use(callable), IsFor(callable, DOMAIN call.fed, DOMAIN call.fetches)
      PROVE  Keeps /\ OutputsInv'
  <2>1. /\ Keeps /\ call'.at = "ready" /\ call'.callable = callable
        /\ call'.fed = call.fed /\ call'.fetches = call.fetches
    BY <1>0, <1>3, CallFields DEF Keeps
  <2> QED
    BY <1>0, <1>3, <2>1 DEF OutputsInv, IsFor, Platform
<1>4. CASE key \in DOMAIN callables /\ use(callables[key]) /\ UNCHANGED callables
  <2>1. IsFor(callables[key], DOMAIN call.fed, DOMAIN call.fetches)
    BY <1>0, <1>1, <1>4 DEF CacheInv, IsFor
  <2>2. CacheInv'
    BY <1>0, <1>4, CacheStays
  <2> QED
    BY <1>0, <1>3, <1>4, <2>1, <2>2, PackageStays, InputsStay DEF Inv, Keeps
<1>5. CASE /\ Makes(setup.graph, made.feeds, made.fetches)
           /\ use(made) /\ callables' = Put(callables, key, made)
  <2>1. IsFor(made, DOMAIN call.fed, DOMAIN call.fetches)
    BY <1>1, <1>5 DEF IsFor
  <2>2. CacheInv'
    <3>1. callables' = [k \in DOMAIN callables \cup {key} |-> IF k = key THEN made ELSE callables[k]]
      BY <1>5 DEF Put
    <3>2. ASSUME NEW k \in DOMAIN callables'
          PROVE  /\ callables'[k].feeds = Sorted(k.feeds) /\ callables'[k].fetches = Sorted(k.fetches)
                 /\ Makes(setup.graph, callables'[k].feeds, callables'[k].fetches)
      <4>1. CASE k = key
        BY <1>1, <2>1, <3>1, <4>1 DEF IsFor
      <4>2. CASE k # key
        <5>1. k \in DOMAIN callables /\ callables'[k] = callables[k]
          BY <3>1, <4>2
        <5> QED
          BY <1>0, <5>1 DEF CacheInv
      <4> QED
        BY <4>1, <4>2
    <3> QED
      BY <1>0, <3>2 DEF CacheInv
  <2> QED
    BY <1>0, <1>3, <1>5, <2>1, <2>2, PackageStays, InputsStay DEF Inv, Keeps
<1>6. CASE Goto("failed") /\ UNCHANGED callables
  <2>1. Keeps /\ call'.at = "failed"
    BY <1>0, <1>6, GotoIs
  <2> QED
    BY <1>0, <1>6, <2>1, PackageStays, CacheStays, InputsStay, NoOutputs DEF Inv, Keeps
<1> QED
  BY <1>2, <1>4, <1>5, <1>6

LEMMA RunCallableKeeps == Inv /\ RunCallable => Inv'
<1> SUFFICES ASSUME Inv, RunCallable PROVE Inv'
  OBVIOUS
<1>0. /\ call.at = "ready" /\ UNCHANGED <<setup, package, model, callables>> /\ Platform = "tensorflow"
      /\ InputsInv /\ PackageInv /\ model # Null /\ DOMAIN call.fetches \subseteq ToSet(NodeOrder)
      /\ IsFor(call.callable, DOMAIN call.fed, DOMAIN call.fetches)
  BY DEF RunCallable, At, Inv, InputsInv, OutputsInv, IsFor
<1> DEFINE feeds   == Sorted(DOMAIN call.fed)
           fetches == Sorted(DOMAIN call.fetches)
           tensors == [k \in DOMAIN feeds |-> call.fed[feeds[k]]]
           ran     == Runs(setup.graph, call.callable, tensors)
           of(n)   == CHOOSE k \in DOMAIN fetches : call.fetches[fetches[k]] = n
           out     == [n \in {call.fetches[node] : node \in DOMAIN call.fetches} |-> ran[of(n)]]
<1>1. \/ Goto("failed")
      \/ call' = [call EXCEPT !.at = "filtered", !.out = out]
  BY DEF RunCallable
<1>2. CASE Goto("failed")
  <2>1. Keeps /\ call'.at = "failed"
    BY <1>0, <1>2, GotoIs
  <2> QED
    BY <1>0, <2>1, PackageStays, CacheStays, InputsStay, NoOutputs DEF Inv, Keeps
<1>3. CASE call' = [call EXCEPT !.at = "filtered", !.out = out]
  <2>1. ASSUME NEW k \in DOMAIN fetches PROVE IsTensor(ran[k])
    <3>1. call.callable.fetches = fetches /\ fetches[k] \in DOMAIN setup.graph.out
      BY <1>0 DEF IsFor, Makes, ToSet
    <3>2. \E fed : ran = [j \in DOMAIN call.callable.fetches |-> Node(setup.graph, call.callable.fetches[j], fed)]
      BY DEF Runs
    <3>3. PICK fed : ran[k] = Node(setup.graph, fetches[k], fed)
      <4> HIDE DEF ran, fetches
      <4> QED
        BY <3>1, <3>2
    <3>4. IsTensor(setup.graph.out[fetches[k]])
      BY <1>0, <3>1, PlatformIs DEF IsGraph
    <3> HIDE DEF ran, fetches
    <3> QED
      BY <3>3, <3>4 DEF Node, Out, IsTensor
  <2>2. ASSUME NEW n \in {call.fetches[node] : node \in DOMAIN call.fetches} PROVE of(n) \in DOMAIN fetches
    <3>1. PICK node \in DOMAIN call.fetches : call.fetches[node] = n
      OBVIOUS
    <3>2. node \in ToSet(fetches)
      BY <1>0, SortedHas
    <3>3. \E k \in DOMAIN fetches : call.fetches[fetches[k]] = n
      BY <3>1, <3>2 DEF ToSet
    <3> HIDE DEF fetches
    <3> QED
      BY <3>3
  <2> HIDE DEF ran, of, fetches
  <2>3. Results(out)
    BY <2>1, <2>2 DEF Results
  <2> HIDE DEF out
  <2>4. Keeps /\ call'.at = "filtered" /\ call'.out = out
    BY <1>0, <1>3, CallFields DEF Keeps
  <2>5. OutputsInv'
    BY <2>3, <2>4 DEF OutputsInv
  <2> QED
    BY <1>0, <2>4, <2>5, PackageStays, CacheStays, InputsStay DEF Inv, Keeps
<1> QED
  BY <1>1, <1>2, <1>3

LEMMA FeedTorchKeeps == Inv /\ FeedTorch => Inv'
<1> SUFFICES ASSUME Inv, FeedTorch PROVE Inv'
  OBVIOUS
<1>0. /\ call.at = "sealed" /\ UNCHANGED <<setup, package, model, callables>>
      /\ Platform = "torchscript" /\ InputsInv
  BY DEF FeedTorch, At, Inv
<1>1. Keeps /\ call'.at \in {"failed", "fed"}
  <2>1. CASE Goto("failed")
    BY <1>0, <2>1, GotoIs
  <2>2. ASSUME NEW args, call' = [call EXCEPT !.at = "fed", !.fed = args]
        PROVE  Keeps /\ call'.at = "fed"
    BY <1>0, <2>2, CallFields DEF Keeps
  <2> QED
    BY <2>1, <2>2 DEF FeedTorch
<1>2. OutputsInv'
  BY <1>0, <1>1 DEF OutputsInv, Platform
<1> QED
  BY <1>0, <1>1, <1>2, PackageStays, CacheStays, InputsStay DEF Inv, Keeps

\* A framework has run: what it returned is in the call.
LEMMA RanKeeps ==
  ASSUME Inv, call.at \in {"sealed", "fed", "ran"}, UNCHANGED <<setup, package, model, callables>>,
         Keeps, \/ call'.at \in {"failed", "crashed"}
                \/ call'.at \in {"ran", "filtered"} /\ Results(call'.out)
  PROVE  Inv'
<1>1. OutputsInv'
  BY DEF OutputsInv
<1> QED
  BY <1>1, PackageStays, CacheStays, InputsStay DEF Inv, Keeps

LEMMA RunTorchKeeps == Inv /\ RunTorch => Inv'
<1> SUFFICES ASSUME Inv, RunTorch PROVE Inv'
  OBVIOUS
<1>0. /\ call.at = "fed" /\ UNCHANGED <<setup, package, model, callables>>
      /\ Platform = "torchscript" /\ InputsInv /\ PackageInv /\ model # Null
  BY DEF RunTorch, At, Inv, InputsInv
<1> DEFINE out == Collected(setup.graph, model.outputs, Bindings(setup.graph, call.fed))
<1>1. \/ Goto("failed") \/ Goto("crashed")
      \/ out # Failed /\ call' = [call EXCEPT !.at = "ran", !.out = out]
  BY DEF RunTorch
<1>2. ASSUME NEW l \in {"failed", "crashed"}, Goto(l) PROVE Inv'
  <2>1. Keeps /\ call'.at = l
    BY <1>0, <1>2, GotoIs
  <2> QED
    BY <1>0, <2>1, RanKeeps
<1>3. ASSUME out # Failed, call' = [call EXCEPT !.at = "ran", !.out = out] PROVE Inv'
  <2>1. Results(out)
    BY <1>0, <1>3, PlatformIs, CollectedAreTensors
  <2> HIDE DEF out
  <2>2. Keeps /\ call'.at = "ran" /\ call'.out = out
    BY <1>0, <1>3, CallFields DEF Keeps
  <2> QED
    BY <1>0, <2>1, <2>2, RanKeeps
<1> QED
  BY <1>1, <1>2, <1>3

LEMMA RunPythonKeeps == Inv /\ RunPython => Inv'
<1> SUFFICES ASSUME Inv, RunPython PROVE Inv'
  OBVIOUS
<1>0. /\ call.at = "sealed" /\ UNCHANGED <<setup, package, model, callables>>
      /\ Platform = "python" /\ InputsInv /\ PackageInv /\ model # Null
  BY DEF RunPython, At, Inv, InputsInv
<1> DEFINE out == PyAnswer(PyRead(package), setup.graph, ToNumpy(call.sealed))
<1>1. \/ Goto("failed")
      \/ out # Failed /\ call' = [call EXCEPT !.at = "ran", !.out = FromNumpy(setup.graph, out)]
  BY DEF RunPython
<1>2. ASSUME Goto("failed") PROVE Inv'
  <2>1. Keeps /\ call'.at = "failed"
    BY <1>0, <1>2, GotoIs
  <2> QED
    BY <1>0, <2>1, RanKeeps
<1>3. ASSUME out # Failed, call' = [call EXCEPT !.at = "ran", !.out = FromNumpy(setup.graph, out)] PROVE Inv'
  <2>1. PyRead(package).platform = "python"
    BY <1>0, PlatformIs, PackageIsRead, CompletedIsValid
  <2>2. Results(FromNumpy(setup.graph, out))
    <3>1. IsGraph("python", setup.graph)
      BY <1>0, PlatformIs
    <3> QED
      BY <1>3, <2>1, <3>1, PyAnswersAreTensors
  <2> DEFINE read == FromNumpy(setup.graph, out)
  <2>3. Results(read) /\ call' = [call EXCEPT !.at = "ran", !.out = read]
    BY <1>3, <2>2
  <2> HIDE DEF read
  <2>4. Keeps /\ call'.at = "ran" /\ call'.out = read
    BY <1>0, <2>3, CallFields DEF Keeps
  <2> QED
    BY <1>0, <2>3, <2>4, RanKeeps
<1> QED
  BY <1>1, <1>2, <1>3

LEMMA FilterKeeps == Inv /\ Filter => Inv'
<1> SUFFICES ASSUME Inv, Filter PROVE Inv'
  OBVIOUS
<1>0. /\ call.at = "ran" /\ UNCHANGED <<setup, package, model, callables>> /\ InputsInv
      /\ Results(call.out) /\ call.requested \in Requests
  BY DEF Filter, At, Inv, InputsInv, OutputsInv
<1> DEFINE moved == FoldLeft(MoveOut, [data |-> call.out, out |-> <<>>], call.requested)
<1>1. \/ Goto("filtered") \/ Goto("failed")
      \/ moved # Failed /\ call' = [call EXCEPT !.at = "filtered", !.out = moved.out]
  BY Zenon DEF Filter
<1>2. ASSUME NEW l \in {"filtered", "failed"}, Goto(l) PROVE Inv'
  <2>1. Keeps /\ call'.at = l /\ call'.out = call.out
    BY <1>0, <1>2, GotoIs
  <2> QED
    BY <1>0, <2>1, RanKeeps
<1>3. ASSUME moved # Failed, call' = [call EXCEPT !.at = "filtered", !.out = moved.out] PROVE Inv'
  <2>1. PICK m : m = moved
    OBVIOUS
  <2>2. call.requested \in Seq(ToSet(call.requested))
    BY <1>0, RequestsAssumption
  <2>3. Results(m.out)
    BY <1>0, <1>3, <2>1, <2>2, MovedAreTensors, Zenon
  <2>4. Keeps /\ call'.at = "filtered" /\ call'.out = m.out
    <3>1. call' = [call EXCEPT !.at = "filtered", !.out = m.out]
      BY <1>3, <2>1, Zenon
    <3> QED
      BY <1>0, <3>1, CallFields DEF Keeps
  <2> QED
    BY <1>0, <2>3, <2>4, RanKeeps
<1> QED
  BY <1>1, <1>2, <1>3, Zenon

LEMMA AnswerKeeps == Inv /\ Answer => Inv'
<1> SUFFICES ASSUME Inv, Answer PROVE Inv'
  OBVIOUS
<1>0. /\ call.at = "filtered" /\ UNCHANGED <<setup, package, model, callables>> /\ InputsInv /\ Results(call.out)
  BY DEF Answer, At, Inv, OutputsInv
<1>1. PICK l \in {"answered", "crashed", "failed"} :
        /\ Goto(l)
        /\ l = "answered" => \/ setup.unchecked
                             \/ (\A n \in DOMAIN call.out : call.out[n] # Null) /\ Validates(call.out, model.outputs)
  BY DEF Answer
<1>2. Keeps /\ call'.at = l /\ call'.out = call.out
  BY <1>0, <1>1, GotoIs
<1>3. OutputsInv'
  BY <1>0, <1>1, <1>2 DEF OutputsInv
<1> QED
  BY <1>0, <1>1, <1>2, <1>3, PackageStays, CacheStays, InputsStay DEF Inv, Keeps

\* The invariant holds in every state.
LEMMA InvHolds == Spec => []Inv
<1>1. ASSUME Inv, [Next]_vars PROVE Inv'
  <2>1. CASE UNCHANGED vars
    BY <1>1, <2>1, PackageStays, CacheStays DEF Inv, vars, InputsInv, OutputsInv, Platform
  <2>2. CASE Next
    BY <1>1, <2>2, PackageKeeps, LoadKeeps, InferKeeps, ValidateKeeps, SealKeeps, FeedTensorflowKeeps,
       GetCallableKeeps, RunCallableKeeps, FeedTorchKeeps, RunTorchKeeps, RunPythonKeeps, FilterKeeps,
       AnswerKeeps DEF Next
  <2> QED
    BY <1>1, <2>1, <2>2
<1> QED
  BY <1>1, InitEstablishes, PTL DEF Spec

\* What the packager accepts is read by both readers, with a device for each input: what
\* write_neuropod_config validates is enough for load_model_config and read_neuropod_config.
THEOREM AcceptedPackagesLoad == Spec => []PackagesLoad
<1>1. Inv => PackagesLoad
  BY WhatIsPackagedLoads DEF Inv
<1> QED
  BY <1>1, InvHolds, PTL

LEMMA WhatIsAnsweredConforms == Inv => SpecIsEnforced
<1> SUFFICES ASSUME Inv PROVE SpecIsEnforced
  OBVIOUS
<1>1. ASSUME call.at # "none"
      PROVE  /\ AreTensors(call.inputs) /\ AreGood(package.inputs) /\ AreGood(package.outputs)
             /\ model.inputs = Specs(package.inputs) /\ model.outputs = Specs(package.outputs)
  <2>1. model # Null /\ call.inputs \in Inputs /\ PackageInv
    BY <1>1 DEF Inv, InputsInv
  <2>2. AreTensors(call.inputs)
    BY <2>1, InputsAssumption DEF AreTensors
  <2> QED
    BY <2>1, <2>2, PlatformIs, SpecsAreGood
<1>2. ASSUME call.at = "called"
      PROVE  \A accepted \in {Validates(call.inputs, model.inputs), PyValidates(call.inputs, package.inputs)} :
               accepted = Conforms(call.inputs, package.inputs)
  <2>1. /\ Validates(call.inputs, model.inputs) <=> Conforms(call.inputs, package.inputs)
        /\ PyValidates(call.inputs, package.inputs) <=> Conforms(call.inputs, package.inputs)
    BY <1>1, <1>2, ValidationsConform
  <2>2. /\ Validates(call.inputs, model.inputs) \in BOOLEAN /\ PyValidates(call.inputs, package.inputs) \in BOOLEAN
        /\ Conforms(call.inputs, package.inputs) \in BOOLEAN
    BY DEF Validates, PyValidates, Conforms
  <2> QED
    BY <2>1, <2>2
<1>3. ASSUME call.at = "answered", ~setup.unchecked
      PROVE  Conforms(call.inputs, package.inputs) /\ Conforms(call.out, package.outputs)
  <2>1. Validates(call.inputs, model.inputs) /\ Validates(call.out, model.outputs)
    BY <1>3 DEF Inv, InputsInv, OutputsInv
  <2>2. AreTensors(call.out)
    BY <1>3 DEF Inv, OutputsInv, Results, AreTensors
  <2> QED
    BY <1>1, <1>3, <2>1, <2>2, ValidationsConform
<1> QED
  BY <1>2, <1>3 DEF SpecIsEnforced

\* The native and the Python validation accept just the inputs that the specs of config.json
\* describe, with one size for each symbol, and infer answers only those, with such outputs:
\* for every configuration, model and tensor, and whatever was called before.
THEOREM SpecsAreEnforced == Spec => []SpecIsEnforced
<1>1. Inv => SpecIsEnforced
  BY WhatIsAnsweredConforms
<1> QED
  BY <1>1, InvHolds, PTL

-----------------------------------------------------------------------------
(***************************************************************************)
(* Answers are made of the inputs of their call.  What is fed, returned    *)
(* and filtered is traced to the inputs from stage to stage.               *)
(***************************************************************************)
Sent == [n \in DOMAIN call.inputs |-> OnDevice(n)]

\* What is fed has each tensor of sent, at its node or under its name.
Place(platform, graph, n) == IF platform = "tensorflow" THEN graph.mapping[n] ELSE n
IsFrom(fed, platform, graph, sent) ==
  /\ DOMAIN fed = {Place(platform, graph, i) : i \in DOMAIN sent}
  /\ \A i \in DOMAIN sent : fed[Place(platform, graph, i)] = sent[i]

\* Each output is that of its name, and of all that was sent, but for the strided ones.
Traced(out, platform, graph, sent, strided) ==
  \A n \in DOMAIN out \ strided : /\ out[n].data.of = Place(platform, graph, n)
                                  /\ IsFrom(out[n].data.from, platform, graph, sent)

\* The names of the items that are not contiguous.
StridedOf(items) == {item.name : item \in {i \in ToSet(items) : ~i.contiguous}}

\* The names of two nodes differ.
OneName(graph) == \A m, n \in DOMAIN graph.mapping : m # n => graph.mapping[m] # graph.mapping[n]

\* The fetched nodes have these names.
AreFor(fetches, graph, names) ==
  /\ {fetches[node] : node \in DOMAIN fetches} = names
  /\ \A node \in DOMAIN fetches : graph.mapping[fetches[node]] = node

LEMMA FeedsAre ==
  ASSUME NEW graph, OneName(graph), NEW inputs, DOMAIN inputs \subseteq DOMAIN graph.mapping,
         NEW fed \in Feeds(graph, inputs)
  PROVE  IsFrom(fed, "tensorflow", graph, inputs) /\ fed = [n \in DOMAIN fed |-> fed[n]]
<1> DEFINE nodes == Nodes(graph, DOMAIN inputs)
<1>1. PICK f \in [nodes -> DOMAIN inputs] :
        /\ \A node \in nodes : graph.mapping[f[node]] = node
        /\ fed = [node \in nodes |-> inputs[f[node]]]
  BY DEF Feeds
<1>2. ASSUME NEW i \in DOMAIN inputs PROVE graph.mapping[i] \in nodes /\ fed[graph.mapping[i]] = inputs[i]
  <2>1. graph.mapping[i] \in nodes
    BY DEF Nodes
  <2> HIDE DEF nodes
  <2>2. f[graph.mapping[i]] = i
    BY <1>1, <2>1 DEF OneName
  <2> QED
    BY <1>1, <2>1, <2>2
<1>3. DOMAIN fed = {graph.mapping[i] : i \in DOMAIN inputs}
  BY <1>1 DEF Nodes
<1>4. fed = [n \in DOMAIN fed |-> fed[n]]
  BY <1>1
<1> QED
  BY <1>2, <1>3, <1>4 DEF IsFrom, Place

LEMMA FetchesAre ==
  ASSUME NEW graph, OneName(graph), NEW names, NEW n \in Nat, DOMAIN names = 1 .. n,
         ToSet(names) \subseteq DOMAIN graph.mapping
  PROVE  AreFor(Fetches(graph, names), graph, ToSet(names))
<1> DEFINE nodes == Nodes(graph, ToSet(names))
           First(k, node) == /\ graph.mapping[names[k]] = node
                             /\ \A j \in 1 .. k - 1 : graph.mapping[names[j]] # node
           fetches == [node \in nodes |-> names[CHOOSE k \in DOMAIN names : First(k, node)]]
<1>1. ASSUME NEW node \in nodes PROVE fetches[node] \in ToSet(names) /\ graph.mapping[fetches[node]] = node
  <2> DEFINE T == {k \in DOMAIN names : graph.mapping[names[k]] = node}
  <2>1. T # {} /\ T \subseteq Nat
    BY DEF Nodes, ToSet
  <2>2. PICK k \in T : \A m \in T : k <= m
    BY <2>1, LeastNumber
  <2>3. First(k, node)
    BY <2>2
  <2>4. \E j \in DOMAIN names : First(j, node)
    BY <2>2, <2>3
  <2>5. PICK j \in DOMAIN names : First(j, node) /\ fetches[node] = names[j]
    BY <2>4, Zenon
  <2> QED
    BY <2>5 DEF ToSet
<1>2. ASSUME NEW m \in ToSet(names) PROVE \E node \in nodes : fetches[node] = m
  <2>1. graph.mapping[m] \in nodes
    BY DEF Nodes
  <2> HIDE DEF nodes, fetches
  <2> QED
    BY <1>1, <2>1 DEF OneName
<1>3. Fetches(graph, names) = fetches /\ DOMAIN fetches = nodes
  BY DEF Fetches
<1> HIDE DEF nodes, fetches
<1> QED
  BY <1>1, <1>2, <1>3 DEF AreFor

\* A callable feeds each tensor to its node, and what it returns is in the order of its fetches.
LEMMA RunsAre ==
  ASSUME NEW graph, NEW callable, NEW fed, fed = [n \in DOMAIN fed |-> fed[n]], DOMAIN fed \subseteq ToSet(NodeOrder),
         callable.feeds = Sorted(DOMAIN fed),
         NEW ran,
         ran = Runs(graph, callable, [k \in DOMAIN Sorted(DOMAIN fed) |-> fed[Sorted(DOMAIN fed)[k]]]),
         NEW k \in DOMAIN callable.fetches
  PROVE  ran[k] = Node(graph, callable.fetches[k], fed)
<1> DEFINE feeds == Sorted(DOMAIN fed)
           tensors == [j \in DOMAIN feeds |-> fed[feeds[j]]]
           given == [n \in ToSet(feeds) |-> tensors[Index(feeds, n)]]
<1>1. ran = [j \in DOMAIN callable.fetches |-> Node(graph, callable.fetches[j], given)]
  BY DEF Runs
<1>2. ToSet(feeds) = DOMAIN fed
  BY SortedHas
<1>3. ASSUME NEW n \in DOMAIN fed PROVE given[n] = fed[n]
  <2>1. \E j \in DOMAIN feeds : feeds[j] = n
    BY <1>2 DEF ToSet
  <2>2. Index(feeds, n) \in DOMAIN feeds /\ feeds[Index(feeds, n)] = n
    BY <2>1, Zenon DEF Index
  <2> HIDE DEF feeds
  <2> QED
    BY <1>2, <2>2
<1>4. given = fed
  BY <1>2, <1>3
<1> HIDE DEF given
<1> QED
  BY <1>1, <1>4

\* Each argument is bound to the tensor of its name.
LEMMA BindingsAre ==
  ASSUME NEW graph, NEW sent, sent = [n \in DOMAIN sent |-> sent[n]], \A n \in DOMAIN sent : sent[n] # Null,
         IsDict(graph) => \A n \in DOMAIN sent : IsString(sent[n]) = (Own(graph)[1].kind = "strings"),
         Takes(graph, sent), NEW args, args = ArgsOf(graph, sent)
  PROVE  Bindings(graph, args) = sent
<1>1. CASE IsDict(graph)
  <2> DEFINE fit == {n \in DOMAIN sent : IsString(sent[n]) = (Own(graph)[1].kind = "strings")}
  <2>1. args = <<[n \in fit |-> sent[n]]>>
    BY <1>1 DEF ArgsOf
  <2>2. fit = DOMAIN sent
    BY <1>1
  <2>3. Bindings(graph, args) = args[1]
    BY <1>1 DEF Bindings
  <2> HIDE DEF fit
  <2> QED
    BY <2>1, <2>2, <2>3
<1>2. CASE ~IsDict(graph)
  <2>1. PICK own : own = Own(graph)
    OBVIOUS
  <2>2. /\ DOMAIN sent \subseteq NamesOf(own)
        /\ args = [k \in DOMAIN own |-> IF own[k].name \in DOMAIN sent THEN sent[own[k].name] ELSE Null]
    BY <1>2, <2>1 DEF ArgsOf, Takes
  <2> DEFINE given == {k \in DOMAIN args : args[k] # Null}
  <2>3. given = {k \in DOMAIN own : own[k].name \in DOMAIN sent}
    BY <2>2
  <2>4. {own[k].name : k \in given} = DOMAIN sent
    <3>1. ASSUME NEW n \in DOMAIN sent PROVE \E k \in given : own[k].name = n
      <4>1. n \in {own[k].name : k \in DOMAIN own}
        BY <2>2 DEF NamesOf
      <4> HIDE DEF given
      <4> QED
        BY <2>3, <4>1
    <3> HIDE DEF given
    <3> QED
      BY <2>3, <3>1
  <2> HIDE DEF given
  <2>5. ASSUME NEW n \in DOMAIN sent PROVE args[CHOOSE k \in given : own[k].name = n] = sent[n]
    <3>1. \E k \in given : own[k].name = n
      BY <2>4
    <3>2. PICK k \in given : own[k].name = n /\ k = CHOOSE j \in given : own[j].name = n
      BY <3>1, Zenon
    <3> QED
      BY <2>2, <2>3, <3>2
  <2>6. Bindings(graph, args) = [n \in DOMAIN sent |-> args[CHOOSE k \in given : own[k].name = n]]
    BY <1>2, <2>1, <2>4 DEF Bindings, given
  <2> QED
    BY <2>5, <2>6
<1> QED
  BY <1>1, <1>2

\* What is collected of items: one output for each of their names.
Names(cs, k) == {cs[j].name : j \in 1 .. k}
AreOf(out, names, from, strided) ==
  /\ DOMAIN out = names
  /\ \A n \in names \ strided : out[n].data.of = n /\ out[n].data.from = from

LEMMA InsertAdds ==
  ASSUME NEW names, NEW from, NEW strided, NEW out, AreOf(out, names, from, strided), NEW item, NEW type,
         item.contiguous \/ item.name \in strided, Insert(out, item, type, from) # Failed
  PROVE  AreOf(Insert(out, item, type, from), names \cup {item.name}, from, strided)
<1>1. Insert(out, item, type, from) = [n \in DOMAIN out \cup {item.name} |->
                                         IF n = item.name THEN Wrapped(item, from) ELSE out[n]]
  BY DEF Insert, Put
<1>2. item.contiguous => Wrapped(item, from).data.of = item.name /\ Wrapped(item, from).data.from = from
  BY DEF Wrapped, Value, Out
<1> QED
  BY <1>1, <1>2 DEF AreOf

LEMMA CollectedAre ==
  ASSUME NEW items, NEW type, NEW from, NEW cs \in Seq(items), Folded(cs, type, from) # Failed
  PROVE  AreOf(Folded(cs, type, from), NamesOf(cs), from, StridedOf(cs))
<1>1. PICK f \in [0 .. Len(cs) -> Outputs(items, from)] :
        /\ f[0] = <<>> /\ Folded(cs, type, from) = f[Len(cs)]
        /\ \A k \in 1 .. Len(cs) : f[k] = Insert(f[k - 1], cs[k], type, from)
  <2>1. Collects(items, type, from, cs)
    BY CollectedFolds
  <2> QED
    BY <2>1 DEF Collects
<1> DEFINE S == {k \in 0 .. Len(cs) : f[k] # Failed => AreOf(f[k], Names(cs, k), from, StridedOf(cs))}
<1>2. 0 \in S
  <2>1. DOMAIN f[0] = {} /\ Names(cs, 0) = {}
    BY <1>1 DEF Names
  <2> QED
    BY <2>1 DEF AreOf
<1>3. ASSUME NEW k \in 1 .. Len(cs), k - 1 \in S PROVE k \in S
  <2>1. f[k] = Insert(f[k - 1], cs[k], type, from)
    BY <1>1
  <2>2. f[k] # Failed => f[k - 1] # Failed
    BY <2>1 DEF Insert
  <2>3. Names(cs, k) = Names(cs, k - 1) \cup {cs[k].name}
    <3>1. 1 .. k = (1 .. k - 1) \cup {k}
      OBVIOUS
    <3> QED
      BY <3>1 DEF Names
  <2>4. cs[k].contiguous \/ cs[k].name \in StridedOf(cs)
    BY DEF StridedOf, ToSet
  <2> QED
    BY <1>3, <2>1, <2>2, <2>3, <2>4, InsertAdds
<1>4. Len(cs) \in S
  <2> HIDE DEF S
  <2> QED
    BY <1>2, <1>3, UpTo
<1>5. Names(cs, Len(cs)) = NamesOf(cs)
  BY DEF Names, NamesOf
<1> QED
  BY <1>1, <1>4, <1>5

LEMMA CollectedAreOf ==
  ASSUME NEW graph, IsGraph("torchscript", graph), NEW specs, NEW from, Collected(graph, specs, from) # Failed
  PROVE  AreOf(Collected(graph, specs, from), NamesOf(Named(graph, specs)), from, StridedOf(Named(graph, specs)))
<1> DEFINE type == IF graph.form = "single" THEN specs[1].type ELSE Null
           cs == Named(graph, specs)
           res == Collected(graph, specs, from)
<1>1. res = Folded(cs, type, from)
  BY DEF Collected, Folded
<1>2. cs \in Seq(NamedItems(graph, specs))
  BY NamedAreTensors
<1> HIDE DEF cs, type, res
<1>3. res # Failed
  BY DEF res
<1>4. AreOf(Folded(cs, type, from), NamesOf(cs), from, StridedOf(cs))
  BY <1>1, <1>2, <1>3, CollectedAre
<1> QED
  BY <1>1, <1>4 DEF res, cs

\* What is moved is what was there.
HasMoved(out, state, names) ==
  /\ DOMAIN state.data = DOMAIN out /\ \A n \in DOMAIN out \ names : state.data[n] = out[n]
  /\ DOMAIN state.out = names /\ names \subseteq DOMAIN out /\ \A n \in names : state.out[n] = out[n]

LEMMA MoveOutAdds ==
  ASSUME NEW out, NEW state, NEW names, HasMoved(out, state, names), NEW name, name \notin names,
         MoveOut(state, name) # Failed
  PROVE  HasMoved(out, MoveOut(state, name), names \cup {name})
<1>1. name \in DOMAIN state.data
  BY DEF MoveOut
<1> DEFINE data == [state.data EXCEPT ![name] = Null]
           more == Put(state.out, name, state.data[name])
<1>2. MoveOut(state, name) = [data |-> data, out |-> more]
  BY DEF MoveOut
<1>3. DOMAIN data = DOMAIN out /\ \A n \in DOMAIN out \ {name} : data[n] = state.data[n]
  BY DEF HasMoved
<1>4. DOMAIN more = names \cup {name} /\ more[name] = state.data[name] /\ \A n \in names : more[n] = state.out[n]
  BY DEF HasMoved, Put
<1> HIDE DEF data, more
<1>5. state.data[name] = out[name] /\ name \in DOMAIN out
  BY <1>1 DEF HasMoved
<1> QED
  BY <1>2, <1>3, <1>4, <1>5 DEF HasMoved

LEMMA MovedAre ==
  ASSUME NEW out, Results(out), NEW names, names \in Seq(ToSet(names)), IsInjective(names),
         NEW moved, moved = FoldLeft(MoveOut, [data |-> out, out |-> <<>>], names), moved # Failed
  PROVE  HasMoved(out, moved, ToSet(names))
<1>1. PICK base : base = [data |-> out, out |-> <<>>]
  OBVIOUS
<1>2. base \in MoveStates(out, ToSet(names))
  BY <1>1, NothingIsMoved
<1>3. PICK f \in [0 .. Len(names) -> MoveStates(out, ToSet(names))] :
        /\ f[0] = base /\ moved = f[Len(names)]
        /\ \A k \in 1 .. Len(names) : f[k] = MoveOut(f[k - 1], names[k])
  <2>1. Moves(out, ToSet(names), base, names)
    BY <1>2, MovedFolds
  <2>2. moved = FoldLeft(MoveOut, base, names)
    BY <1>1, Zenon
  <2> QED
    BY <2>1, <2>2, Zenon DEF Moves
<1> DEFINE First(k) == {names[j] : j \in 1 .. k}
           S == {k \in 0 .. Len(names) : f[k] # Failed => HasMoved(out, f[k], First(k))}
<1>4. 0 \in S
  <2>1. First(0) = {} /\ DOMAIN base.out = {} /\ base.data = out
    BY <1>1
  <2> QED
    BY <1>3, <2>1 DEF HasMoved
<1>5. ASSUME NEW k \in 1 .. Len(names), k - 1 \in S PROVE k \in S
  <2>1. f[k] = MoveOut(f[k - 1], names[k])
    BY <1>3
  <2>2. f[k] # Failed => f[k - 1] # Failed
    BY <2>1 DEF MoveOut
  <2>3. First(k) = First(k - 1) \cup {names[k]}
    <3>1. 1 .. k = (1 .. k - 1) \cup {k}
      OBVIOUS
    <3> QED
      BY <3>1
  <2>4. names[k] \notin First(k - 1)
    BY DEF IsInjective
  <2> HIDE DEF First
  <2> QED
    BY <1>5, <2>1, <2>2, <2>3, <2>4, MoveOutAdds
<1>6. Len(names) \in S
  <2> HIDE DEF S
  <2> QED
    BY <1>4, <1>5, UpTo
<1>7. First(Len(names)) = ToSet(names)
  BY DEF ToSet
<1> HIDE DEF First
<1> QED
  BY <1>3, <1>6, <1>7


\* What python_bindings.cc passes on: the tensors as they are, unless something is lost.
LEMMA PyAnswersAre ==
  ASSUME NEW graph, IsGraph("python", graph), NEW config, config.platform = "python", NEW sent,
         \A n \in DOMAIN sent : /\ sent[n].data \notin DOMAIN Strip
                                /\ sent[n] = [sent[n] EXCEPT !.data = sent[n].data],
         NEW out, out = PyAnswer(config, graph, ToNumpy(sent)), out # Failed
  PROVE  /\ DOMAIN FromNumpy(graph, out) = NamesOf(FlattenSeq(graph.parts))
         /\ Traced(FromNumpy(graph, out), "python", graph, sent, StridedOf(FlattenSeq(graph.parts)))
<1> DEFINE items == graph.parts[1]
           names == [k \in DOMAIN items |-> items[k].name]
           arrays == ToNumpy(sent)
<1>1. out = PyForward(graph, arrays)
  <2>1. PyAnswer(config, graph, arrays) \in {Failed, PyForward(graph, arrays)}
    BY DEF PyAnswer
  <2> QED
    BY <2>1
<1>2. IsFrom(arrays, "python", graph, sent)
  <2>1. ASSUME NEW n \in DOMAIN sent PROVE arrays[n] = sent[n]
    BY DEF ToNumpy, Stripped
  <2>2. DOMAIN arrays = DOMAIN sent
    BY DEF ToNumpy
  <2> HIDE DEF arrays
  <2> QED
    BY <2>1, <2>2 DEF IsFrom, Place
<1> HIDE DEF arrays
<1>3. out = [n \in NamesOf(items) |-> Value(items[Index(names, n)], arrays)]
  BY <1>1 DEF PyForward
<1>4. ASSUME NEW n \in NamesOf(items) PROVE out[n].data.of = n /\ out[n].data.from = arrays
  <2>1. \E j \in DOMAIN names : names[j] = n
    BY DEF NamesOf
  <2>2. Index(names, n) \in DOMAIN names /\ names[Index(names, n)] = n
    BY <2>1, Zenon DEF Index
  <2>3. PICK k \in DOMAIN names : k = Index(names, n) /\ names[k] = n
    BY <2>2
  <2>4. items[k].name = n /\ out[n] = Value(items[k], arrays)
    BY <1>3, <2>3
  <2> HIDE DEF items, names
  <2> QED
    BY <2>4 DEF Value, Out
<1>5. /\ DOMAIN FromNumpy(graph, out) = NamesOf(items)
      /\ \A n \in NamesOf(items) \ StridedOf(items) : FromNumpy(graph, out)[n] = out[n]
  <2>1. ASSUME NEW n \in NamesOf(items) \ StridedOf(items), NEW k \in DOMAIN items, items[k].name = n
        PROVE  items[k].contiguous
    BY <2>1 DEF StridedOf, ToSet
  <2> QED
    BY <1>3, <2>1 DEF FromNumpy
<1>6. NamesOf(FlattenSeq(graph.parts)) = NamesOf(items) /\ StridedOf(FlattenSeq(graph.parts)) = StridedOf(items)
  <2>1. /\ graph.parts \in Seq(Seq(ItemsOf(graph))) /\ Len(graph.parts) = 1
    BY DEF IsGraph
  <2>2. ToSet(FlattenSeq(graph.parts)) = UNION {ToSet(part) : part \in ToSet(graph.parts)}
    BY <2>1, FlattenHas
  <2>3. ToSet(graph.parts) = {items}
    BY <2>1 DEF ToSet
  <2>4. ToSet(FlattenSeq(graph.parts)) = ToSet(items)
    BY <2>2, <2>3
  <2>5. \A s : NamesOf(s) = {x.name : x \in ToSet(s)}
    BY DEF NamesOf, ToSet
  <2> QED
    BY <2>4, <2>5 DEF StridedOf
<1> QED
  BY <1>2, <1>4, <1>5, <1>6 DEF Traced, Place

-----------------------------------------------------------------------------
Returned == NamesOf(Named(setup.graph, model.outputs))
Wanted   == IF call.requested # <<>> THEN ToSet(call.requested)
            ELSE IF Platform = "tensorflow" THEN NamesOf(model.outputs) ELSE Returned
IsMadeOf(out, names) == DOMAIN out = names /\ Traced(out, Platform, setup.graph, Sent, Strided)

FaithInv ==
  /\ call.at = "sealed" => call.sealed = Sent
  /\ call.at \in {"fed", "ready"} /\ Platform = "tensorflow" =>
       /\ DOMAIN call.fed \subseteq ToSet(NodeOrder)
       /\ OneName(setup.graph) => /\ IsFrom(call.fed, Platform, setup.graph, Sent)
                                  /\ call.fed = [n \in DOMAIN call.fed |-> call.fed[n]]
                                  /\ AreFor(call.fetches, setup.graph, Wanted)
  /\ call.at = "fed" /\ Platform = "torchscript" /\ ~Lossy => Bindings(setup.graph, call.fed) = Sent
  /\ call.at = "ran" => Platform # "tensorflow"
  /\ call.at = "ran" /\ ~Lossy => IsMadeOf(call.out, Returned)
  /\ call.at \in {"filtered", "answered"} /\ ~Lossy => IsMadeOf(call.out, Wanted)

\* The inputs of a call on their devices.
LEMMA SentIs ==
  ASSUME Inv, call.at # "none"
  PROVE  /\ Sent = [n \in DOMAIN Sent |-> Sent[n]] /\ DOMAIN Sent = DOMAIN call.inputs
         /\ \A n \in DOMAIN Sent : /\ Sent[n] # Null /\ Sent[n] = [Sent[n] EXCEPT !.data = Sent[n].data]
                                   /\ Sent[n].type = call.inputs[n].type /\ Sent[n].data = call.inputs[n].data
                                   /\ Sent[n].dims = call.inputs[n].dims
<1>1. call.inputs \in Inputs /\ package \notin {Absent, Empty} /\ PackageInv
  BY PlatformIs DEF Inv, InputsInv
<1>2. ASSUME NEW n \in DOMAIN call.inputs
      PROVE  \E device \in {Cpu, Gpu} : OnDevice(n) = [type |-> call.inputs[n].type, dims |-> call.inputs[n].dims,
                                                       device |-> device, data |-> call.inputs[n].data]
  <2>1. call.inputs[n] = [type |-> call.inputs[n].type, dims |-> call.inputs[n].dims,
                          device |-> Cpu, data |-> call.inputs[n].data]
    BY <1>1, InputsAssumption
  <2>2. n \in NamesOf(package.inputs) => Device(n) \in {Cpu, Gpu}
    BY <1>1, PackageIs DEF Device
  <2> QED
    BY <2>1, <2>2 DEF OnDevice
<1>3. ASSUME NEW n \in DOMAIN call.inputs
      PROVE  /\ OnDevice(n) # Null /\ OnDevice(n) = [OnDevice(n) EXCEPT !.data = OnDevice(n).data]
             /\ OnDevice(n).type = call.inputs[n].type /\ OnDevice(n).data = call.inputs[n].data
             /\ OnDevice(n).dims = call.inputs[n].dims
  <2>1. PICK device \in {Cpu, Gpu} : OnDevice(n) = [type |-> call.inputs[n].type, dims |-> call.inputs[n].dims,
                                                    device |-> device, data |-> call.inputs[n].data]
    BY <1>2
  <2>2. Null # [type |-> call.inputs[n].type, dims |-> call.inputs[n].dims,
                device |-> device, data |-> call.inputs[n].data]
    BY <1>1, InputsAssumption
  <2> QED
    BY <2>1, <2>2
<1> QED
  BY <1>3 DEF Sent

LEMMA Frames ==
  ASSUME Keeps, UNCHANGED <<setup, package, model>>
  PROVE  /\ Lossy' <=> Lossy
         /\ Platform' = Platform /\ Sent' = Sent /\ Returned' = Returned /\ Wanted' = Wanted
         /\ Strided' = Strided
<1>1. Platform' = Platform
  BY DEF Platform
<1>2. Sent' = Sent
  BY <1>1 DEF Sent, OnDevice, Device, Keeps
<1>3. Returned' = Returned
  BY DEF Returned
<1>4. Wanted' = Wanted
  BY <1>1, <1>3 DEF Wanted, Keeps
<1>5. Lossy' <=> Lossy
  BY <1>1 DEF Lossy, KeyOf, Keeps
<1>6. Strided' = Strided
  BY <1>1 DEF Strided
<1> QED
  BY <1>1, <1>2, <1>3, <1>4, <1>5, <1>6

\* A step that leads nowhere.
LEMMA NoFaith ==
  ASSUME call'.at \in {"none", "called", "valid", "failed", "crashed"}
  PROVE  FaithInv'
  BY DEF FaithInv

LEMMA SealIsFaithful == Inv /\ FaithInv /\ Seal => FaithInv'
<1> SUFFICES ASSUME Inv, FaithInv, Seal PROVE FaithInv'
  OBVIOUS
<1>0. /\ call.at = "valid" /\ UNCHANGED <<setup, package, model, callables>>
      /\ InputsInv /\ PackageInv /\ model # Null /\ call.inputs \in Inputs
      /\ package \notin {Absent, Empty} /\ model = ConfigOf(package) /\ setup.visible \in {Cpu, Gpu}
  BY SetupsAssumption DEF Seal, At, Inv, InputsInv, PackageInv
<1> DEFINE mapping == DeviceMapping(model.devices, setup.visible)
           sealed == Sealed(call.inputs, mapping, Platform, setup.cuda)
<1>1. \/ Goto("failed")
      \/ DOMAIN call.inputs \subseteq DOMAIN mapping /\ call' = [call EXCEPT !.at = "sealed", !.sealed = sealed]
  BY DEF Seal
<1>2. CASE Goto("failed")
  BY <1>0, <1>2, GotoIs, NoFaith
<1>3. CASE DOMAIN call.inputs \subseteq DOMAIN mapping /\ call' = [call EXCEPT !.at = "sealed", !.sealed = sealed]
  <2>1. DOMAIN call.inputs \subseteq DOMAIN mapping
    BY <1>3
  <2>2. sealed = [n \in DOMAIN call.inputs |-> Moved(call.inputs[n], mapping[n], Platform, setup.cuda)]
    BY <2>1 DEF Sealed
  <2>3. /\ DOMAIN mapping = NamesOf(package.inputs)
        /\ \A n \in DOMAIN mapping : /\ Device(n) \in {Cpu, Gpu}
                                     /\ mapping[n] = IF Device(n) = Gpu /\ setup.visible # Cpu THEN setup.visible ELSE Cpu
    BY <1>0, PackageIs DEF DeviceMapping, ConfigOf, Everywhere, Device
  <2> HIDE DEF mapping
  <2>4. ASSUME NEW n \in DOMAIN call.inputs
        PROVE  Moved(call.inputs[n], mapping[n], Platform, setup.cuda) = OnDevice(n)
    <3>1. /\ call.inputs[n] = [type |-> call.inputs[n].type, dims |-> call.inputs[n].dims,
                               device |-> Cpu, data |-> call.inputs[n].data]
      BY <1>0, InputsAssumption
    <3>2. n \in NamesOf(package.inputs) /\ n \in DOMAIN mapping
      BY <2>1, <2>3
    <3> QED
      BY <1>0, <2>3, <3>1, <3>2 DEF Moved, OnDevice
  <2>5. sealed = Sent
    BY <2>2, <2>4 DEF Sent
  <2> HIDE DEF sealed
  <2>6. Keeps /\ call'.at = "sealed" /\ call'.sealed = sealed
    BY <1>0, <1>3, CallFields DEF Keeps
  <2> QED
    BY <1>0, <2>5, <2>6, Frames DEF FaithInv
<1> QED
  BY <1>1, <1>2, <1>3

LEMMA NamesAre ==
  ASSUME PackageInv, InputsInv, call.at # "none", Platform = "tensorflow"
  PROVE  ToSet(OutputNames) = Wanted /\ \E n \in Nat : DOMAIN OutputNames = 1 .. n
<1>1. model # Null /\ call.requested \in Requests
  BY DEF InputsInv
<1>2. model.outputs = Specs(package.outputs) /\ AreGood(package.outputs)
  BY <1>1, PlatformIs, SpecsAreGood
<1>3. CASE call.requested # <<>>
  <2>1. OutputNames = call.requested /\ Wanted = ToSet(call.requested)
    BY <1>3 DEF OutputNames, Wanted
  <2>2. call.requested \in Seq(ToSet(call.requested))
    BY <1>1, RequestsAssumption
  <2>3. DOMAIN call.requested = 1 .. Len(call.requested) /\ Len(call.requested) \in Nat
    BY <2>2
  <2> QED
    BY <2>1, <2>3
<1>4. CASE call.requested = <<>>
  <2>1. OutputNames = [k \in DOMAIN model.outputs |-> model.outputs[k].name] /\ Wanted = NamesOf(model.outputs)
    BY <1>4 DEF OutputNames, Wanted
  <2>2. DOMAIN model.outputs = 1 .. Len(package.outputs) /\ Len(package.outputs) \in Nat
    BY <1>2 DEF Specs, AreGood
  <2>3. ToSet(OutputNames) = NamesOf(model.outputs) /\ DOMAIN OutputNames = 1 .. Len(package.outputs)
    BY <2>1, <2>2 DEF ToSet, NamesOf
  <2> QED
    BY <2>1, <2>2, <2>3
<1> QED
  BY <1>3, <1>4

LEMMA FeedTensorflowIsFaithful == Inv /\ FaithInv /\ FeedTensorflow => FaithInv'
<1> SUFFICES ASSUME Inv, FaithInv, FeedTensorflow PROVE FaithInv'
  OBVIOUS
<1>0. /\ call.at = "sealed" /\ UNCHANGED <<setup, package, model, callables>> /\ Platform = "tensorflow"
      /\ InputsInv /\ PackageInv /\ model # Null /\ call.sealed = Sent /\ IsGraph("tensorflow", setup.graph)
  BY PlatformIs DEF FeedTensorflow, At, Inv, InputsInv, FaithInv
<1>1. CASE Goto("failed")
  BY <1>0, <1>1, GotoIs, NoFaith
<1>2. CASE ~ Goto("failed")
  <2>1. /\ ToSet(OutputNames) \subseteq DOMAIN setup.graph.mapping
        /\ DOMAIN call.sealed \subseteq DOMAIN setup.graph.mapping
    BY <1>2 DEF FeedTensorflow
  <2>2. PICK fed \in Feeds(setup.graph, call.sealed) :
          call' = [call EXCEPT !.at = "fed", !.fed = fed, !.fetches = Fetches(setup.graph, OutputNames)]
    BY <1>2 DEF FeedTensorflow
  <2>3. PICK fetches : fetches = Fetches(setup.graph, OutputNames)
    OBVIOUS
  <2>4. /\ Keeps /\ call'.at = "fed" /\ call'.fed = fed /\ call'.fetches = fetches
    BY <1>0, <2>2, <2>3, CallFields DEF Keeps
  <2>5. DOMAIN fed \subseteq ToSet(NodeOrder)
    <3>1. \A n \in DOMAIN setup.graph.mapping : setup.graph.mapping[n] \in ToSet(NodeOrder)
      BY <1>0 DEF IsGraph
    <3>2. DOMAIN fed = Nodes(setup.graph, DOMAIN call.sealed)
      BY <2>2 DEF Feeds
    <3> QED
      BY <2>1, <3>1, <3>2 DEF Nodes
  <2>6. ASSUME OneName(setup.graph)
        PROVE  /\ IsFrom(fed, Platform, setup.graph, Sent) /\ fed = [n \in DOMAIN fed |-> fed[n]]
               /\ AreFor(fetches, setup.graph, Wanted)
    <3>1. IsFrom(fed, "tensorflow", setup.graph, Sent) /\ fed = [n \in DOMAIN fed |-> fed[n]]
      BY <1>0, <2>1, <2>2, <2>6, FeedsAre
    <3>2. PICK n \in Nat : ToSet(OutputNames) = Wanted /\ DOMAIN OutputNames = 1 .. n
      BY <1>0, NamesAre
    <3>3. AreFor(fetches, setup.graph, ToSet(OutputNames))
      BY <2>1, <2>3, <2>6, <3>2, FetchesAre
    <3> QED
      BY <1>0, <3>1, <3>2, <3>3
  <2> QED
    BY <1>0, <2>4, <2>5, <2>6, Frames DEF FaithInv
<1> QED
  BY <1>1, <1>2

LEMMA GetCallableIsFaithful == Inv /\ FaithInv /\ GetCallable => FaithInv'
<1> SUFFICES ASSUME Inv, FaithInv, GetCallable PROVE FaithInv'
  OBVIOUS
<1>0. call.at = "fed" /\ UNCHANGED <<setup, package, model>> /\ Platform = "tensorflow" /\ InputsInv
  BY DEF GetCallable, At, Inv
<1>1. CASE Goto("failed")
  BY <1>0, <1>1, GotoIs, NoFaith
<1>2. CASE ~ Goto("failed")
  <2>1. PICK callable : call' = [call EXCEPT !.at = "ready", !.callable = callable]
    BY <1>2 DEF GetCallable
  <2>2. Keeps /\ call'.at = "ready" /\ call'.fed = call.fed /\ call'.fetches = call.fetches
    BY <1>0, <2>1, CallFields DEF Keeps
  <2> QED
    BY <1>0, <2>2, Frames DEF FaithInv
<1> QED
  BY <1>1, <1>2

\* What comes back from a callable: a tensor for each output, of its node.
RanOutputs ==
  LET feeds   == Sorted(DOMAIN call.fed)
      fetches == Sorted(DOMAIN call.fetches)
      ran     == Runs(setup.graph, call.callable, [k \in DOMAIN feeds |-> call.fed[feeds[k]]])
      of(n)   == CHOOSE k \in DOMAIN fetches : call.fetches[fetches[k]] = n
  IN [n \in {call.fetches[node] : node \in DOMAIN call.fetches} |-> ran[of(n)]]

LEMMA RunsWanted ==
  ASSUME Inv, FaithInv, call.at = "ready", OneName(setup.graph)
  PROVE  /\ RanOutputs = [n \in Wanted |-> RanOutputs[n]]
         /\ \A n \in Wanted : RanOutputs[n] = Node(setup.graph, setup.graph.mapping[n], call.fed)
<1> DEFINE feeds   == Sorted(DOMAIN call.fed)
           fetches == Sorted(DOMAIN call.fetches)
           ran     == Runs(setup.graph, call.callable, [k \in DOMAIN feeds |-> call.fed[feeds[k]]])
           of(n)   == CHOOSE k \in DOMAIN fetches : call.fetches[fetches[k]] = n
           out     == RanOutputs
<1>1. /\ Platform = "tensorflow" /\ DOMAIN call.fetches \subseteq ToSet(NodeOrder)
      /\ DOMAIN call.fed \subseteq ToSet(NodeOrder) /\ call.fed = [n \in DOMAIN call.fed |-> call.fed[n]]
      /\ call.callable.feeds = feeds /\ call.callable.fetches = fetches /\ AreFor(call.fetches, setup.graph, Wanted)
  BY DEF Inv, OutputsInv, FaithInv
<1>2. ASSUME NEW k \in DOMAIN fetches PROVE ran[k] = Node(setup.graph, fetches[k], call.fed)
  BY <1>1, RunsAre
<1>3. ASSUME NEW n \in Wanted PROVE out[n] = Node(setup.graph, setup.graph.mapping[n], call.fed)
  <2>1. PICK node \in DOMAIN call.fetches : call.fetches[node] = n
    BY <1>1 DEF AreFor
  <2>2. node \in ToSet(fetches)
    BY <1>1, SortedHas
  <2>3. \E k \in DOMAIN fetches : call.fetches[fetches[k]] = n
    BY <2>1, <2>2 DEF ToSet
  <2>4. PICK k \in DOMAIN fetches : k = of(n) /\ call.fetches[fetches[k]] = n
    BY <2>3, Zenon
  <2>5. fetches[k] \in DOMAIN call.fetches
    BY <1>1, SortedHas DEF ToSet
  <2>6. setup.graph.mapping[n] = fetches[k]
    BY <1>1, <2>4, <2>5 DEF AreFor
  <2>7. out[n] = ran[of(n)]
    BY <2>1 DEF RanOutputs
  <2> HIDE DEF ran, fetches, of
  <2> QED
    BY <1>2, <2>4, <2>6, <2>7
<1>4. out = [n \in Wanted |-> out[n]]
  <2>1. out = [n \in {call.fetches[node] : node \in DOMAIN call.fetches} |-> ran[of(n)]]
    BY DEF RanOutputs
  <2> HIDE DEF ran, fetches, of
  <2> QED
    BY <1>1, <2>1 DEF AreFor
<1> QED
  BY <1>3, <1>4

LEMMA RunCallableIsFaithful == Inv /\ FaithInv /\ RunCallable => FaithInv'
<1> SUFFICES ASSUME Inv, FaithInv, RunCallable PROVE FaithInv'
  OBVIOUS
<1>0. /\ call.at = "ready" /\ UNCHANGED <<setup, package, model, callables>> /\ Platform = "tensorflow"
      /\ InputsInv
  BY DEF RunCallable, At, Inv, OutputsInv
<1>1. PICK out : out = RanOutputs
  OBVIOUS
<1>2. \/ Goto("failed")
      \/ call' = [call EXCEPT !.at = "filtered", !.out = out]
  BY <1>1 DEF RunCallable, RanOutputs
<1>3. CASE Goto("failed")
  BY <1>0, <1>3, GotoIs, NoFaith
<1>4. CASE call' = [call EXCEPT !.at = "filtered", !.out = out]
  <2>1. ASSUME ~Lossy PROVE IsMadeOf(out, Wanted)
    <3>1. OneName(setup.graph)
      BY <1>0, <2>1 DEF Lossy, OneName, KeyOf
    <3>2. IsFrom(call.fed, "tensorflow", setup.graph, Sent)
      BY <1>0, <3>1 DEF FaithInv
    <3>3. /\ out = [n \in Wanted |-> out[n]]
          /\ \A n \in Wanted : out[n] = Node(setup.graph, setup.graph.mapping[n], call.fed)
      BY <1>0, <1>1, <3>1, RunsWanted
    <3>4. DOMAIN out = Wanted
      BY <3>3
    <3>5. \A n, fed : /\ Node(setup.graph, n, fed).data.of = n
                      /\ Node(setup.graph, n, fed).data.from = fed
      BY DEF Node, Out
    <3> QED
      BY <1>0, <3>2, <3>3, <3>4, <3>5 DEF IsMadeOf, Traced, Place
  <2>2. Keeps /\ call'.at = "filtered" /\ call'.out = out
    BY <1>0, <1>4, CallFields DEF Keeps
  <2> QED
    BY <1>0, <2>1, <2>2, Frames DEF FaithInv, IsMadeOf
<1> QED
  BY <1>2, <1>3, <1>4

LEMMA FeedTorchIsFaithful == Inv /\ FaithInv /\ FeedTorch => FaithInv'
<1> SUFFICES ASSUME Inv, FaithInv, FeedTorch PROVE FaithInv'
  OBVIOUS
<1>0. /\ call.at = "sealed" /\ UNCHANGED <<setup, package, model, callables>> /\ Platform = "torchscript"
      /\ InputsInv /\ call.sealed = Sent
  BY DEF FeedTorch, At, Inv, FaithInv
<1>1. PICK args : args = ArgsOf(setup.graph, call.sealed)
  OBVIOUS
<1>2. CASE Goto("failed")
  BY <1>0, <1>2, GotoIs, NoFaith
<1>3. CASE Takes(setup.graph, call.sealed) /\ call' = [call EXCEPT !.at = "fed", !.fed = args]
  <2>1. ASSUME ~Lossy PROVE Bindings(setup.graph, args) = Sent
    <3>1. IsDict(setup.graph) => \A n \in DOMAIN Sent : IsString(Sent[n]) = (Own(setup.graph)[1].kind = "strings")
      BY <1>0, <2>1, SentIs DEF Lossy, IsString
    <3>2. Sent = [n \in DOMAIN Sent |-> Sent[n]] /\ \A n \in DOMAIN Sent : Sent[n] # Null
      BY <1>0, SentIs
    <3> QED
      BY <1>0, <1>1, <1>3, <3>1, <3>2, BindingsAre
  <2>2. Keeps /\ call'.at = "fed" /\ call'.fed = args
    BY <1>0, <1>3, CallFields DEF Keeps
  <2> QED
    BY <1>0, <2>1, <2>2, Frames DEF FaithInv
<1> QED
  BY <1>1, <1>2, <1>3 DEF FeedTorch

LEMMA RunTorchIsFaithful == Inv /\ FaithInv /\ RunTorch => FaithInv'
<1> SUFFICES ASSUME Inv, FaithInv, RunTorch PROVE FaithInv'
  OBVIOUS
<1>0. /\ call.at = "fed" /\ UNCHANGED <<setup, package, model, callables>> /\ Platform = "torchscript"
      /\ InputsInv /\ IsGraph("torchscript", setup.graph)
  BY PlatformIs DEF RunTorch, At, Inv, InputsInv
<1>1. PICK out : out = Collected(setup.graph, model.outputs, Bindings(setup.graph, call.fed))
  OBVIOUS
<1>2. \/ Goto("failed") \/ Goto("crashed")
      \/ out # Failed /\ call' = [call EXCEPT !.at = "ran", !.out = out]
  BY <1>1 DEF RunTorch
<1>3. ASSUME NEW l \in {"failed", "crashed"}, Goto(l) PROVE FaithInv'
  BY <1>0, <1>3, GotoIs, NoFaith
<1>4. CASE out # Failed /\ call' = [call EXCEPT !.at = "ran", !.out = out]
  <2>1. ASSUME ~Lossy PROVE IsMadeOf(out, Returned)
    <3>1. out = Collected(setup.graph, model.outputs, Sent)
      BY <1>0, <1>1, <2>1 DEF FaithInv
    <3>2. AreOf(out, Returned, Sent, Strided)
      BY <1>0, <1>4, <3>1, CollectedAreOf DEF Returned, Strided, StridedOf
    <3>3. IsFrom(Sent, Platform, setup.graph, Sent)
      BY <1>0 DEF IsFrom, Place
    <3> QED
      BY <1>0, <3>2, <3>3 DEF IsMadeOf, Traced, AreOf, Place
  <2>2. Keeps /\ call'.at = "ran" /\ call'.out = out
    BY <1>0, <1>4, CallFields DEF Keeps
  <2> QED
    BY <1>0, <2>1, <2>2, Frames DEF FaithInv, IsMadeOf
<1> QED
  BY <1>2, <1>3, <1>4

LEMMA RunPythonIsFaithful == Inv /\ FaithInv /\ RunPython => FaithInv'
<1> SUFFICES ASSUME Inv, FaithInv, RunPython PROVE FaithInv'
  OBVIOUS
<1>0. /\ call.at = "sealed" /\ UNCHANGED <<setup, package, model, callables>> /\ Platform = "python"
      /\ InputsInv /\ PackageInv /\ model # Null /\ call.sealed = Sent /\ IsGraph("python", setup.graph)
  BY PlatformIs DEF RunPython, At, Inv, InputsInv, FaithInv
<1>1. PICK out : out = PyAnswer(PyRead(package), setup.graph, ToNumpy(Sent))
  OBVIOUS
<1>2. PICK read : read = FromNumpy(setup.graph, out)
  OBVIOUS
<1>3. CASE Goto("failed")
  BY <1>0, <1>3, GotoIs, NoFaith
<1>4. CASE out # Failed /\ call' = [call EXCEPT !.at = "ran", !.out = read]
  <2>1. ASSUME ~Lossy PROVE IsMadeOf(read, Returned)
    <3>1. \A n \in DOMAIN call.inputs : call.inputs[n].data \notin DOMAIN Strip
      BY <1>0, <2>1 DEF Lossy
    <3>2. \A n \in DOMAIN Sent : /\ Sent[n].data \notin DOMAIN Strip
                                 /\ Sent[n] = [Sent[n] EXCEPT !.data = Sent[n].data]
      BY <1>0, <3>1, SentIs
    <3>3. PyRead(package).platform = "python"
      BY <1>0, PlatformIs, PackageIsRead, CompletedIsValid
    <3>4. /\ DOMAIN read = NamesOf(FlattenSeq(setup.graph.parts))
          /\ Traced(read, "python", setup.graph, Sent, StridedOf(FlattenSeq(setup.graph.parts)))
      BY <1>0, <1>1, <1>2, <1>4, <3>2, <3>3, PyAnswersAre
    <3>5. /\ Returned = NamesOf(FlattenSeq(setup.graph.parts))
          /\ Strided = StridedOf(FlattenSeq(setup.graph.parts))
      BY <1>0 DEF IsGraph, Returned, Named, Strided, StridedOf
    <3> QED
      BY <1>0, <3>4, <3>5 DEF IsMadeOf
  <2>2. Keeps /\ call'.at = "ran" /\ call'.out = read
    BY <1>0, <1>4, CallFields DEF Keeps
  <2> QED
    BY <1>0, <2>1, <2>2, Frames DEF FaithInv, IsMadeOf
<1> QED
  BY <1>0, <1>1, <1>2, <1>3, <1>4 DEF RunPython

LEMMA FilterIsFaithful == Inv /\ FaithInv /\ Filter => FaithInv'
<1> SUFFICES ASSUME Inv, FaithInv, Filter PROVE FaithInv'
  OBVIOUS
<1>0. /\ call.at = "ran" /\ UNCHANGED <<setup, package, model, callables>> /\ InputsInv
      /\ Results(call.out) /\ call.requested \in Requests /\ Platform # "tensorflow"
      /\ ~Lossy => IsMadeOf(call.out, Returned)
  BY DEF Filter, At, Inv, InputsInv, OutputsInv, FaithInv
<1>1. PICK m : m = FoldLeft(MoveOut, [data |-> call.out, out |-> <<>>], call.requested)
  OBVIOUS
<1>2. CASE Goto("failed")
  BY <1>0, <1>2, GotoIs, NoFaith
<1>3. CASE call.requested = <<>> /\ Goto("filtered")
  <2>1. Keeps /\ call'.at = "filtered" /\ call'.out = call.out
    BY <1>0, <1>3, GotoIs
  <2>2. Wanted = Returned
    BY <1>0, <1>3 DEF Wanted
  <2> QED
    BY <1>0, <2>1, <2>2, Frames DEF FaithInv, IsMadeOf
<1>4. CASE call.requested # <<>> /\ m # Failed /\ call' = [call EXCEPT !.at = "filtered", !.out = m.out]
  <2>1. ASSUME ~Lossy PROVE IsMadeOf(m.out, Wanted)
    <3>1. call.requested \in Seq(ToSet(call.requested)) /\ IsInjective(call.requested)
      BY <1>0, <2>1, RequestsAssumption DEF Lossy
    <3>2. HasMoved(call.out, m, ToSet(call.requested))
      BY <1>0, <1>1, <1>4, <3>1, MovedAre, Zenon
    <3>3. Wanted = ToSet(call.requested)
      BY <1>4 DEF Wanted
    <3> QED
      BY <1>0, <2>1, <3>2, <3>3 DEF IsMadeOf, Traced, HasMoved
  <2>2. Keeps /\ call'.at = "filtered" /\ call'.out = m.out
    BY <1>0, <1>4, CallFields DEF Keeps
  <2> QED
    BY <1>0, <2>1, <2>2, Frames DEF FaithInv, IsMadeOf
<1>5. \/ Goto("failed")
      \/ call.requested = <<>> /\ Goto("filtered")
      \/ call.requested # <<>> /\ m # Failed /\ call' = [call EXCEPT !.at = "filtered", !.out = m.out]
  <2>1. CASE call.requested = <<>>
    BY <2>1, Zenon DEF Filter
  <2>2. CASE call.requested # <<>>
    <3>1. \/ Goto("failed")
          \/ m # Failed /\ call' = [call EXCEPT !.at = "filtered", !.out = m.out]
      BY <1>1, <2>2, Zenon DEF Filter
    <3> QED
      BY <2>2, <3>1, Zenon
  <2> QED
    BY <2>1, <2>2
<1> QED
  BY <1>2, <1>3, <1>4, <1>5

LEMMA AnswerIsFaithful == Inv /\ FaithInv /\ Answer => FaithInv'
<1> SUFFICES ASSUME Inv, FaithInv, Answer PROVE FaithInv'
  OBVIOUS
<1>0. call.at = "filtered" /\ UNCHANGED <<setup, package, model, callables>> /\ InputsInv
  BY DEF Answer, At, Inv
<1>1. PICK l \in {"answered", "crashed", "failed"} : Goto(l)
  BY DEF Answer
<1>2. Keeps /\ call'.at = l /\ call'.out = call.out
  BY <1>0, <1>1, GotoIs
<1> QED
  BY <1>0, <1>1, <1>2, Frames DEF FaithInv, IsMadeOf

LEMMA FaithHolds == Spec => []FaithInv
<1>1. Init => FaithInv
  BY DEF Init, NoCall, FaithInv
<1>2. ASSUME Inv, FaithInv, [Next]_vars PROVE FaithInv'
  <2>1. CASE UNCHANGED vars
    <3>1. Keeps
      BY <2>1, <1>2 DEF vars, Keeps, Inv, InputsInv
    <3> QED
      BY <1>2, <2>1, <3>1, Frames DEF vars, FaithInv, IsMadeOf
  <2>2. CASE Package \/ Load
    <3>1. call.at = "none" /\ UNCHANGED call
      BY <1>2, <2>2 DEF Inv, PackageInv, InputsInv, Package, Load
    <3> QED
      BY <3>1, NoFaith
  <2>3. CASE Infer
    BY <2>3, NoFaith DEF Infer, NoCall
  <2>4. CASE Validate
    <3>1. PICK l \in {"valid", "failed"} : Goto(l)
      BY <2>4 DEF Validate
    <3> QED
      BY <1>2, <3>1, GotoIs, NoFaith DEF Inv
  <2> QED
    BY <1>2, <2>1, <2>2, <2>3, <2>4, SealIsFaithful, FeedTensorflowIsFaithful, GetCallableIsFaithful,
       RunCallableIsFaithful, FeedTorchIsFaithful, RunTorchIsFaithful, RunPythonIsFaithful, FilterIsFaithful,
       AnswerIsFaithful DEF Next
<1> QED
  BY <1>1, <1>2, InvHolds, PTL DEF Spec

\* What a backend answers was computed from the inputs of this call, all of them, under the right
\* names and on the right devices, whatever calls the cache of callables has seen before.  An output
\* that the model returned with other strides is there, with dims and type, and is not what the model
\* computed: no other output is affected by it.
THEOREM AnswersAreMadeOfInputs == Spec => []AnswersAreFaithful
<1>1. ASSUME Inv, FaithInv PROVE AnswersAreFaithful
  <2>1. SUFFICES ASSUME call.at = "answered", ~Lossy
                 PROVE  /\ DOMAIN call.out = Wanted
                        /\ \A n \in DOMAIN call.out \ Strided : LET from == call.out[n].data.from IN
                             /\ call.out[n].data.of = KeyOf(n)
                             /\ DOMAIN from = {KeyOf(i) : i \in DOMAIN call.inputs}
                             /\ \A i \in DOMAIN call.inputs : from[KeyOf(i)] = OnDevice(i)
    BY DEF AnswersAreFaithful, Wanted, Returned
  <2>2. DOMAIN call.out = Wanted /\ Traced(call.out, Platform, setup.graph, Sent, Strided)
    BY <1>1, <2>1 DEF FaithInv, IsMadeOf
  <2>3. \A n : Place(Platform, setup.graph, n) = KeyOf(n)
    BY DEF Place, KeyOf
  <2>4. DOMAIN Sent = DOMAIN call.inputs /\ \A i \in DOMAIN call.inputs : Sent[i] = OnDevice(i)
    BY DEF Sent
  <2> QED
    BY <2>2, <2>3, <2>4 DEF Traced, IsFrom
<1> QED
  BY <1>1, InvHolds, FaithHolds, PTL
-----------------------------------------------------------------------------
(***************************************************************************)
(* The Python executors give the same answers.  What forward of an         *)
(* executor does with the inputs of the call is compared with each stage.  *)
(***************************************************************************)
Accepted == PyValidates(Sent, package.inputs)
Forward  == IF Platform = "tensorflow" THEN PyTensorflow(setup.graph, PyRead(package), Sent)
            ELSE PyTorch(setup.graph, PyRead(package), Sent)
Refused  == PyAnswer(PyRead(package), setup.graph, Sent) = Failed

Comparable == call.requested = <<>> /\ ~setup.unchecked /\ Platform # "python" /\ ~Lossy /\ ~Differs

AgreeInv ==
  call.at # "none" /\ Comparable =>
    /\ call.at \in {"valid", "sealed", "fed", "ready", "ran", "filtered", "answered"} => Accepted
    /\ call.at \in {"fed", "ready"} /\ Platform = "tensorflow" =>
         NamesOf(package.outputs) \cup DOMAIN Sent \subseteq DOMAIN setup.graph.mapping
    /\ call.at = "fed" /\ Platform = "torchscript" =>
         Takes(setup.graph, Sent) /\ call.fed = ArgsOf(setup.graph, Sent)
    /\ call.at \in {"ran", "filtered", "answered"} => /\ call.out = Forward
                                                      /\ Platform \in {"tensorflow", "torchscript"}
    /\ call.at = "answered" => PyValidates(call.out, package.outputs)
    /\ call.at = "failed" => Refused

LEMMA ReadIs ==
  ASSUME PackageInv, package \notin {Absent, Empty}
  PROVE  /\ PyRead(package).inputs = package.inputs /\ PyRead(package).outputs = package.outputs
         /\ PyRead(package).platform = package.platform
<1>1. PyRead(package) = Completed(package)
  BY PackageIsRead
<1>2. CASE package.devices # Absent
  BY <1>1, <1>2 DEF Completed
<1>3. CASE package.devices = Absent
  <2>1. Completed(package) = [package EXCEPT !.devices = Everywhere(Gpu, package.inputs)]
    BY <1>3 DEF Completed
  <2>2. DOMAIN package = {"name", "platform", "semver", "ops", "inputs", "outputs", "devices"}
    BY DEF PackageInv, Config
  <2> QED
    BY <1>1, <2>1, <2>2
<1> QED
  BY <1>2, <1>3

\* NeuropodExecutor.infer: what it does with what forward returns.
LEMMA PyAnswerIs ==
  ASSUME Inv, model # Null
  PROVE  /\ ~Accepted => Refused
         /\ Platform \in {"tensorflow", "torchscript"} =>
              /\ Forward = Failed \/ ~PyValidates(Forward, package.outputs) => Refused
              /\ Accepted /\ PyValidates(Forward, package.outputs) =>
                   PyAnswer(PyRead(package), setup.graph, Sent) = Forward
<1>1. /\ PyRead(package).inputs = package.inputs /\ PyRead(package).outputs = package.outputs
      /\ PyRead(package).platform = Platform
  BY ReadIs, PlatformIs DEF Inv
<1>2. ~Accepted => Refused
  BY <1>1 DEF PyAnswer, Accepted, Refused
<1>3. ASSUME Platform \in {"tensorflow", "torchscript"}
      PROVE  PyAnswer(PyRead(package), setup.graph, Sent) =
               IF ~Accepted THEN Failed ELSE IF Forward = Failed THEN Failed
               ELSE IF PyValidates(Forward, package.outputs) THEN Forward ELSE Failed
  <2>1. CASE Platform = "tensorflow"
    BY <1>1, <2>1 DEF PyAnswer, Accepted, Forward
  <2>2. CASE Platform = "torchscript"
    BY <1>1, <2>2 DEF PyAnswer, Accepted, Forward
  <2> QED
    BY <1>3, <2>1, <2>2
<1> QED
  BY <1>2, <1>3 DEF Refused

\* The validation looks at the types and the dims.
LEMMA DevicesAreNotValidated ==
  ASSUME NEW a, NEW b, DOMAIN a = DOMAIN b, \A n \in DOMAIN a : a[n].type = b[n].type /\ a[n].dims = b[n].dims,
         NEW specs, PyValidates(a, specs)
  PROVE  PyValidates(b, specs)
<1> DEFINE read == [k \in DOMAIN specs |-> [name |-> specs[k].name, type |-> specs[k].dtype, dims |-> specs[k].shape]]
<1> HIDE DEF read
<1>1. Given(a, read) = Given(b, read) /\ \A k \in Given(a, read) : read[k].name \in DOMAIN a
  BY DEF Given
<1>2. SameLayout(a, read) => SameLayout(b, read)
  BY <1>1 DEF SameLayout
<1>3. Compared(a, read) = Compared(b, read)
  <2> DEFINE row(t, k) == [i \in DOMAIN read[k].dims |-> [dim |-> t[read[k].name].dims[i], expected |-> read[k].dims[i]]]
  <2>1. \A k \in Given(a, read) : row(a, k) = row(b, k)
    BY <1>1
  <2> HIDE DEF row
  <2>2. [k \in DOMAIN read |-> IF k \in Given(a, read) THEN row(a, k) ELSE <<>>] =
        [k \in DOMAIN read |-> IF k \in Given(b, read) THEN row(b, k) ELSE <<>>]
    BY <1>1, <2>1
  <2> QED
    BY <2>2 DEF Compared, row
<1> QED
  BY <1>2, <1>3 DEF PyValidates, read

LEMMA AcceptedIs ==
  ASSUME Inv, call.at # "none"
  PROVE  Accepted <=> Validates(call.inputs, model.inputs)
<1>1. Accepted <=> PyValidates(call.inputs, package.inputs)
  BY SentIs, DevicesAreNotValidated DEF Accepted
<1>2. /\ model # Null /\ call.inputs \in Inputs /\ PackageInv
      /\ AreTensors(call.inputs)
  BY InputsAssumption DEF Inv, InputsInv, AreTensors
<1>3. AreGood(package.inputs) /\ model.inputs = Specs(package.inputs)
  BY <1>2, PlatformIs, SpecsAreGood
<1>4. /\ Validates(call.inputs, model.inputs) <=> Conforms(call.inputs, package.inputs)
      /\ PyValidates(call.inputs, package.inputs) <=> Conforms(call.inputs, package.inputs)
  BY <1>2, <1>3, ValidationsConform
<1> QED
  BY <1>1, <1>4

\* What a step does not touch stays comparable.
LEMMA AgreeFrames ==
  ASSUME Keeps, UNCHANGED <<setup, package, model>>
  PROVE  /\ Comparable' <=> Comparable
         /\ Accepted' <=> Accepted
         /\ Refused' <=> Refused
         /\ Platform' = Platform /\ Sent' = Sent /\ Forward' = Forward
<1>1. Platform' = Platform /\ Sent' = Sent /\ (Lossy' <=> Lossy)
  BY Frames
<1>2. call'.requested = call.requested
  BY DEF Keeps
<1>3. Differs' <=> Differs
  BY <1>1 DEF Differs, Keeps
<1>4. Comparable' <=> Comparable
  BY <1>1, <1>2, <1>3 DEF Comparable
<1>5. (Accepted' <=> Accepted) /\ (Refused' <=> Refused) /\ Forward' = Forward
  BY <1>1 DEF Accepted, Refused, Forward
<1> QED
  BY <1>1, <1>4, <1>5

LEMMA NothingToCompare ==
  ASSUME call'.at \in {"none", "called", "crashed"}
  PROVE  AgreeInv'
  BY DEF AgreeInv

\* A step that fails agrees if the executor refuses the call.
LEMMA FailsAlike ==
  ASSUME Inv, UNCHANGED <<setup, package, model>>, Goto("failed"), Comparable => Refused
  PROVE  AgreeInv'
<1>1. Keeps /\ call'.at = "failed"
  BY GotoIs DEF Inv
<1> QED
  BY <1>1, AgreeFrames DEF AgreeInv

LEMMA ValidateAgrees == Inv /\ AgreeInv /\ Validate => AgreeInv'
<1> SUFFICES ASSUME Inv, AgreeInv, Validate PROVE AgreeInv'
  OBVIOUS
<1>0. call.at = "called" /\ UNCHANGED <<setup, package, model>> /\ model # Null /\ InputsInv
  BY DEF Validate, At, Inv, InputsInv
<1>1. Accepted <=> Validates(call.inputs, model.inputs)
  BY <1>0, AcceptedIs
<1>2. CASE setup.unchecked \/ Validates(call.inputs, model.inputs)
  <2>1. Goto("valid")
    BY <1>2 DEF Validate
  <2>2. Keeps /\ call'.at = "valid"
    BY <1>0, <2>1, GotoIs
  <2>3. Comparable => Accepted
    BY <1>1, <1>2 DEF Comparable
  <2> QED
    BY <1>0, <2>2, <2>3, AgreeFrames DEF AgreeInv
<1>3. CASE ~ (setup.unchecked \/ Validates(call.inputs, model.inputs))
  <2>1. Goto("failed")
    BY <1>3 DEF Validate
  <2>2. Refused
    BY <1>0, <1>1, <1>3, PyAnswerIs
  <2> QED
    BY <1>0, <2>1, <2>2, FailsAlike
<1> QED
  BY <1>2, <1>3

\* What was validated has a device.
LEMMA SealAgrees == Inv /\ AgreeInv /\ Seal => AgreeInv'
<1> SUFFICES ASSUME Inv, AgreeInv, Seal PROVE AgreeInv'
  OBVIOUS
<1>0. /\ call.at = "valid" /\ UNCHANGED <<setup, package, model>> /\ model # Null /\ InputsInv /\ PackageInv
      /\ package \notin {Absent, Empty} /\ model = ConfigOf(package)
  BY DEF Seal, At, Inv, InputsInv, PackageInv
<1>1. Comparable => Accepted
  BY <1>0 DEF AgreeInv
<1>2. CASE Goto("failed") /\ ~(DOMAIN call.inputs \subseteq DOMAIN DeviceMapping(model.devices, setup.visible))
  <2>1. DOMAIN DeviceMapping(model.devices, setup.visible) = NamesOf(package.inputs)
    BY <1>0, PackageIs DEF DeviceMapping, ConfigOf, Everywhere
  <2>2. Accepted => DOMAIN call.inputs \subseteq NamesOf(package.inputs)
    BY <1>0, SentIs DEF Accepted, PyValidates
  <2>3. ~Comparable
    BY <1>1, <1>2, <2>1, <2>2
  <2> QED
    BY <1>0, <1>2, <2>3, FailsAlike
<1>3. CASE ~ Goto("failed")
  <2>1. PICK sealed : call' = [call EXCEPT !.at = "sealed", !.sealed = sealed]
    BY <1>3 DEF Seal
  <2>2. Keeps /\ call'.at = "sealed"
    BY <1>0, <2>1, CallFields DEF Keeps
  <2> QED
    BY <1>0, <1>1, <2>2, AgreeFrames DEF AgreeInv
<1>4. Goto("failed") => ~(DOMAIN call.inputs \subseteq DOMAIN DeviceMapping(model.devices, setup.visible))
  <2>1. ASSUME NEW sealed, call' = [call EXCEPT !.at = "sealed", !.sealed = sealed] PROVE ~Goto("failed")
    <3>1. call'.at = "sealed"
      BY <1>0, <2>1, CallFields
    <3>2. Goto("failed") => call'.at = "failed"
      BY <1>0, GotoIs
    <3> QED
      BY <3>1, <3>2
  <2> QED
    BY <2>1 DEF Seal
<1> QED
  BY <1>2, <1>3, <1>4

\* Without requested outputs, all go on.
LEMMA FilterAgrees == Inv /\ AgreeInv /\ Filter => AgreeInv'
<1> SUFFICES ASSUME Inv, AgreeInv, Filter PROVE AgreeInv'
  OBVIOUS
<1>0. call.at = "ran" /\ UNCHANGED <<setup, package, model>> /\ InputsInv
  BY DEF Filter, At, Inv
<1>1. CASE call.requested = <<>>
  <2>1. Goto("filtered")
    BY <1>1, Zenon DEF Filter
  <2>2. Keeps /\ call'.at = "filtered" /\ call'.out = call.out
    BY <1>0, <2>1, GotoIs
  <2> QED
    BY <1>0, <2>2, AgreeFrames DEF AgreeInv
<1>2. CASE call.requested # <<>>
  <2>1. PICK out : Goto("failed") \/ call' = [call EXCEPT !.at = "filtered", !.out = out]
    BY <1>2, Zenon DEF Filter
  <2>2. Keeps
    BY <1>0, <2>1, CallFields DEF Keeps, Goto
  <2> QED
    BY <1>2, <2>2 DEF AgreeInv, Comparable, Keeps
<1> QED
  BY <1>1, <1>2

LEMMA AnswerAgrees == Inv /\ AgreeInv /\ Answer => AgreeInv'
<1> SUFFICES ASSUME Inv, AgreeInv, Answer PROVE AgreeInv'
  OBVIOUS
<1>0. /\ call.at = "filtered" /\ UNCHANGED <<setup, package, model>> /\ InputsInv /\ PackageInv
      /\ model # Null /\ Results(call.out)
  BY DEF Answer, At, Inv, InputsInv, OutputsInv
<1>1. Comparable => Accepted /\ call.out = Forward /\ Platform \in {"tensorflow", "torchscript"}
  BY <1>0 DEF AgreeInv
<1>2. CASE \E n \in DOMAIN call.out : call.out[n] = Null
  <2>1. PICK l \in {"answered", "crashed"} : Goto(l) /\ (l = "answered" => setup.unchecked)
    BY <1>2 DEF Answer
  <2>2. Keeps /\ call'.at = l
    BY <1>0, <2>1, GotoIs
  <2> QED
    BY <1>0, <2>1, <2>2, AgreeFrames DEF AgreeInv, Comparable
<1>3. CASE \A n \in DOMAIN call.out : call.out[n] # Null
  <2>1. Validates(call.out, model.outputs) <=> PyValidates(call.out, package.outputs)
    <3>1. AreTensors(call.out)
      BY <1>0, <1>3 DEF Results, AreTensors
    <3>2. AreGood(package.outputs) /\ model.outputs = Specs(package.outputs)
      BY <1>0, PlatformIs, SpecsAreGood
    <3> QED
      BY <3>1, <3>2, ValidationsConform
  <2>2. CASE Goto("answered") /\ (setup.unchecked \/ Validates(call.out, model.outputs))
    <3>1. Keeps /\ call'.at = "answered" /\ call'.out = call.out
      BY <1>0, <2>2, GotoIs
    <3>2. Comparable => PyValidates(call.out, package.outputs)
      BY <2>1, <2>2 DEF Comparable
    <3> QED
      BY <1>0, <1>1, <3>1, <3>2, AgreeFrames DEF AgreeInv
  <2>3. CASE Goto("failed") /\ ~Validates(call.out, model.outputs)
    <3>1. Comparable => Refused
      BY <1>0, <1>1, <2>1, <2>3, PyAnswerIs
    <3> QED
      BY <1>0, <2>3, <3>1, FailsAlike
  <2> QED
    BY <1>3, <2>2, <2>3 DEF Answer
<1> QED
  BY <1>2, <1>3
-----------------------------------------------------------------------------
\* What the TensorFlow executor feeds: the last of the inputs of a node.
PyFed(graph, specs, inputs) ==
  LET given   == Given(inputs, specs)
      name(k) == specs[k].name
  IN [node \in Nodes(graph, {name(k) : k \in given}) |->
        inputs[name(CHOOSE k \in given : /\ graph.mapping[name(k)] = node
                                         /\ \A j \in given : j > k => graph.mapping[name(j)] # node)]]

LEMMA GivenNames ==
  ASSUME NEW inputs, NEW specs, DOMAIN inputs \subseteq NamesOf(specs)
  PROVE  {specs[k].name : k \in Given(inputs, specs)} = DOMAIN inputs
<1>1. ASSUME NEW n \in DOMAIN inputs PROVE \E k \in Given(inputs, specs) : specs[k].name = n
  <2>1. PICK k \in DOMAIN specs : specs[k].name = n
    BY DEF NamesOf
  <2> QED
    BY <2>1 DEF Given
<1>2. \A k \in Given(inputs, specs) : specs[k].name \in DOMAIN inputs
  BY DEF Given
<1> QED
  BY <1>1, <1>2

\* With one name for each node, it is what TensorflowNeuropodBackend feeds.
LEMMA PyFedIs ==
  ASSUME NEW graph, OneName(graph), NEW specs, NEW n \in Nat, DOMAIN specs = 1 .. n,
         NEW inputs, DOMAIN inputs \subseteq NamesOf(specs), DOMAIN inputs \subseteq DOMAIN graph.mapping,
         NEW fed, IsFrom(fed, "tensorflow", graph, inputs), fed = [node \in DOMAIN fed |-> fed[node]]
  PROVE  PyFed(graph, specs, inputs) = fed
<1> DEFINE given == Given(inputs, specs)
           Latest(k, node) == /\ graph.mapping[specs[k].name] = node
                            /\ \A j \in given : j > k => graph.mapping[specs[j].name] # node
           nodes == {graph.mapping[i] : i \in DOMAIN inputs}
<1>1. {specs[k].name : k \in given} = DOMAIN inputs
  BY GivenNames
<1>2. given \subseteq 1 .. n /\ \A k \in given : specs[k].name \in DOMAIN inputs
  BY DEF Given
<1>3. DOMAIN fed = nodes /\ \A i \in DOMAIN inputs : fed[graph.mapping[i]] = inputs[i]
  BY DEF IsFrom, Place
<1> HIDE DEF given
<1>4. ASSUME NEW node \in nodes PROVE inputs[specs[CHOOSE k \in given : Latest(k, node)].name] = fed[node]
  <2> DEFINE T == {d \in 0 .. n : \E k \in given : d = n - k /\ graph.mapping[specs[k].name] = node}
  <2>1. T # {}
    <3>1. PICK i \in DOMAIN inputs : graph.mapping[i] = node
      OBVIOUS
    <3>2. PICK k \in given : specs[k].name = i
      BY <1>1, <3>1
    <3>3. n - k \in T
      BY <1>2, <3>1, <3>2
    <3> QED
      BY <3>3
  <2>2. PICK d \in T : \A e \in T : d <= e
    <3>1. T \subseteq Nat
      OBVIOUS
    <3> HIDE DEF T
    <3> QED
      BY <2>1, <3>1, LeastNumber
  <2>3. PICK k \in given : d = n - k /\ graph.mapping[specs[k].name] = node
    BY <2>2
  <2>4. ASSUME NEW j \in given, j > k PROVE graph.mapping[specs[j].name] # node
    <3>1. j \in 1 .. n /\ k \in 1 .. n
      BY <1>2
    <3>2. graph.mapping[specs[j].name] = node => n - j \in T
      BY <3>1
    <3> HIDE DEF T
    <3> QED
      BY <2>2, <2>3, <2>4, <3>1, <3>2
  <2>5. \E l \in given : Latest(l, node)
    BY <2>3, <2>4
  <2> HIDE DEF T
  <2>6. PICK l \in given : l = (CHOOSE m \in given : Latest(m, node)) /\ Latest(l, node)
    BY <2>5, Zenon
  <2> QED
    BY <1>2, <1>3, <2>6
<1>5. PyFed(graph, specs, inputs) = [node \in nodes |-> inputs[specs[CHOOSE k \in given : Latest(k, node)].name]]
  BY <1>1 DEF PyFed, Nodes, given
<1> HIDE DEF nodes, Latest
<1> QED
  BY <1>3, <1>4, <1>5

\* When the executor refuses, and what it gives otherwise.
NoItem(graph, n) == /\ graph.out[graph.mapping[n]].type = "string"
                    /\ 0 \in ToSet(graph.out[graph.mapping[n]].dims)

LEMMA PyTensorflowIs ==
  ASSUME NEW graph, NEW config, NEW sent, DOMAIN sent \subseteq NamesOf(config.inputs),
         NEW names, names = NamesOf(config.outputs), NEW fed, fed = PyFed(graph, config.inputs, sent)
  PROVE  /\ ~(names \cup DOMAIN sent \subseteq DOMAIN graph.mapping) => PyTensorflow(graph, config, sent) = Failed
         /\ ~(Nodes(graph, names) \cup DOMAIN fed \subseteq DOMAIN graph.out) => PyTensorflow(graph, config, sent) = Failed
         /\ ~(graph.needs \subseteq DOMAIN fed) => PyTensorflow(graph, config, sent) = Failed
         /\ /\ names \cup DOMAIN sent \subseteq DOMAIN graph.mapping
            /\ Nodes(graph, names) \cup DOMAIN fed \subseteq DOMAIN graph.out /\ graph.needs \subseteq DOMAIN fed
            /\ \A n \in names : ~NoItem(graph, n)
            => PyTensorflow(graph, config, sent) = [n \in names |-> Node(graph, graph.mapping[n], fed)]
<1> DEFINE out(n)  == Node(graph, graph.mapping[n], fed)
           noitem(n) == out(n).type = "string" /\ \E i \in DOMAIN out(n).dims : out(n).dims[i] = 0
<1>1. PyTensorflow(graph, config, sent) =
        IF \/ ~(names \cup DOMAIN sent \subseteq DOMAIN graph.mapping)
           \/ ~(Nodes(graph, names) \cup DOMAIN fed \subseteq DOMAIN graph.out)
           \/ ~(graph.needs \subseteq DOMAIN fed) \/ \E n \in names : noitem(n)
        THEN Failed ELSE [n \in names |-> out(n)]
  <2>1. {config.inputs[k].name : k \in Given(sent, config.inputs)} = DOMAIN sent
    BY GivenNames
  <2> QED
    BY <2>1, Zenon DEF PyTensorflow, PyFed
<1>2. ASSUME NEW n PROVE noitem(n) => NoItem(graph, n)
  <2>1. out(n).type = graph.out[graph.mapping[n]].type /\ out(n).dims = graph.out[graph.mapping[n]].dims
    BY DEF Node, Out
  <2> QED
    BY <2>1 DEF NoItem, ToSet
<1> HIDE DEF noitem, out
<1> QED
  BY <1>1, <1>2 DEF out

\* TensorFlow's stages, next to the executor.
LEMMA TensorflowIs ==
  ASSUME Inv, FaithInv, AgreeInv, call.at \in {"sealed", "fed", "ready"}, Platform = "tensorflow", Comparable
  PROVE  /\ OneName(setup.graph) /\ DOMAIN Sent \subseteq NamesOf(package.inputs)
         /\ Wanted = NamesOf(package.outputs) /\ Forward = PyTensorflow(setup.graph, PyRead(package), Sent)
         /\ PyRead(package).inputs = package.inputs /\ PyRead(package).outputs = package.outputs
         /\ call.at \in {"fed", "ready"} => PyFed(setup.graph, package.inputs, Sent) = call.fed
<1>1. model # Null /\ PackageInv /\ InputsInv /\ call.at # "none"
  BY DEF Inv, InputsInv
<1>2. PyRead(package).inputs = package.inputs /\ PyRead(package).outputs = package.outputs
  BY <1>1, PlatformIs, ReadIs
<1>3. OneName(setup.graph)
  BY DEF Comparable, Lossy, OneName, KeyOf
<1>4. Accepted
  BY DEF AgreeInv
<1>5. DOMAIN Sent \subseteq NamesOf(package.inputs)
  BY <1>4 DEF Accepted, PyValidates
<1>6. Wanted = NamesOf(package.outputs)
  <2>1. Wanted = NamesOf(model.outputs) /\ model.outputs = Specs(package.outputs)
    BY <1>1, PlatformIs DEF Wanted, Comparable
  <2> QED
    BY <2>1 DEF NamesOf, Specs
<1>7. ASSUME call.at \in {"fed", "ready"} PROVE PyFed(setup.graph, package.inputs, Sent) = call.fed
  <2>1. DOMAIN Sent \subseteq DOMAIN setup.graph.mapping
    BY <1>7 DEF AgreeInv
  <2>2. IsFrom(call.fed, "tensorflow", setup.graph, Sent) /\ call.fed = [n \in DOMAIN call.fed |-> call.fed[n]]
    BY <1>3, <1>7 DEF FaithInv
  <2>3. DOMAIN package.inputs = 1 .. Len(package.inputs) /\ Len(package.inputs) \in Nat
    BY <1>1, PlatformIs, SpecsAreGood DEF AreGood
  <2> QED
    BY <1>3, <1>5, <2>1, <2>2, <2>3, PyFedIs
<1> QED
  BY <1>2, <1>3, <1>5, <1>6, <1>7 DEF Forward

LEMMA FeedTensorflowAgrees == Inv /\ FaithInv /\ AgreeInv /\ FeedTensorflow => AgreeInv'
<1> SUFFICES ASSUME Inv, FaithInv, AgreeInv, FeedTensorflow PROVE AgreeInv'
  OBVIOUS
<1>0. /\ call.at = "sealed" /\ UNCHANGED <<setup, package, model, callables>> /\ Platform = "tensorflow"
      /\ InputsInv /\ PackageInv /\ model # Null /\ call.sealed = Sent
  BY PlatformIs DEF FeedTensorflow, At, Inv, InputsInv, FaithInv
<1>1. ToSet(OutputNames) = Wanted
  BY <1>0, NamesAre
<1>2. CASE Wanted \cup DOMAIN Sent \subseteq DOMAIN setup.graph.mapping
  <2>0. ToSet(OutputNames) \cup DOMAIN call.sealed \subseteq DOMAIN setup.graph.mapping
    BY <1>0, <1>1, <1>2
  <2>1. PICK fed : call' = [call EXCEPT !.at = "fed", !.fed = fed, !.fetches = Fetches(setup.graph, OutputNames)]
    BY <2>0 DEF FeedTensorflow
  <2>2. Keeps /\ call'.at = "fed"
    BY <1>0, <2>1, CallFields DEF Keeps
  <2>3. Comparable => Wanted = NamesOf(package.outputs) /\ Accepted
    BY <1>0, TensorflowIs DEF AgreeInv
  <2>4. NamesOf(package.outputs)' = NamesOf(package.outputs)
    BY <1>0
  <2> QED
    BY <1>0, <1>2, <2>2, <2>3, <2>4, AgreeFrames DEF AgreeInv
<1>3. CASE ~(Wanted \cup DOMAIN Sent \subseteq DOMAIN setup.graph.mapping)
  <2>1. Goto("failed")
    BY <1>0, <1>1, <1>3 DEF FeedTensorflow
  <2>2. ASSUME Comparable PROVE Refused
    <3>1. /\ DOMAIN Sent \subseteq NamesOf(PyRead(package).inputs) /\ Wanted = NamesOf(PyRead(package).outputs)
          /\ Forward = PyTensorflow(setup.graph, PyRead(package), Sent)
      BY <1>0, <2>2, TensorflowIs
    <3>2. Forward = Failed
      BY <1>3, <3>1, PyTensorflowIs
    <3> QED
      BY <1>0, <3>2, PyAnswerIs
  <2> QED
    BY <1>0, <2>1, <2>2, FailsAlike
<1> QED
  BY <1>2, <1>3

LEMMA GetCallableAgrees == Inv /\ FaithInv /\ AgreeInv /\ GetCallable => AgreeInv'
<1> SUFFICES ASSUME Inv, FaithInv, AgreeInv, GetCallable PROVE AgreeInv'
  OBVIOUS
<1>0. /\ call.at = "fed" /\ UNCHANGED <<setup, package, model>> /\ Platform = "tensorflow"
      /\ InputsInv /\ model # Null
  BY DEF GetCallable, At, Inv, InputsInv
<1>1. \/ \E callable : call' = [call EXCEPT !.at = "ready", !.callable = callable]
      \/ Goto("failed") /\ ~Makes(setup.graph, Sorted(DOMAIN call.fed), Sorted(DOMAIN call.fetches))
  <2>1. CASE Key(call.fed, call.fetches) \in DOMAIN callables
    BY <2>1 DEF GetCallable
  <2>2. CASE Makes(setup.graph, Sorted(DOMAIN call.fed), Sorted(DOMAIN call.fetches))
    BY <2>2 DEF GetCallable
  <2>3. CASE /\ Key(call.fed, call.fetches) \notin DOMAIN callables
             /\ ~Makes(setup.graph, Sorted(DOMAIN call.fed), Sorted(DOMAIN call.fetches))
    BY <2>3 DEF GetCallable
  <2> QED
    BY <2>1, <2>2, <2>3
<1>2. CASE \E callable : call' = [call EXCEPT !.at = "ready", !.callable = callable]
  <2>1. Keeps /\ call'.at = "ready"
    BY <1>0, <1>2, CallFields DEF Keeps
  <2>2. NamesOf(package.outputs)' = NamesOf(package.outputs)
    BY <1>0
  <2> QED
    BY <1>0, <2>1, <2>2, AgreeFrames DEF AgreeInv
<1>3. CASE Goto("failed") /\ ~Makes(setup.graph, Sorted(DOMAIN call.fed), Sorted(DOMAIN call.fetches))
  <2>1. ASSUME Comparable PROVE Refused
    <3>1. /\ DOMAIN Sent \subseteq NamesOf(PyRead(package).inputs) /\ Wanted = NamesOf(PyRead(package).outputs)
          /\ Forward = PyTensorflow(setup.graph, PyRead(package), Sent) /\ OneName(setup.graph)
          /\ call.fed = PyFed(setup.graph, PyRead(package).inputs, Sent)
      BY <1>0, <2>1, TensorflowIs
    <3>2. AreFor(call.fetches, setup.graph, Wanted)
      BY <1>0, <3>1 DEF FaithInv
    <3>3. DOMAIN call.fetches \subseteq Nodes(setup.graph, Wanted)
      BY <3>2 DEF AreFor, Nodes
    <3>4. ToSet(Sorted(DOMAIN call.fed)) \subseteq DOMAIN call.fed /\ ToSet(Sorted(DOMAIN call.fetches)) \subseteq DOMAIN call.fetches
      BY SortedHas
    <3>5. ~(Nodes(setup.graph, Wanted) \cup DOMAIN call.fed \subseteq DOMAIN setup.graph.out)
      BY <1>3, <3>3, <3>4 DEF Makes
    <3>6. Forward = Failed
      BY <3>1, <3>5, PyTensorflowIs
    <3> QED
      BY <1>0, <3>6, PyAnswerIs
  <2> QED
    BY <1>0, <1>3, <2>1, FailsAlike
<1> QED
  BY <1>1, <1>2, <1>3

LEMMA RunCallableAgrees == Inv /\ FaithInv /\ AgreeInv /\ RunCallable => AgreeInv'
<1> SUFFICES ASSUME Inv, FaithInv, AgreeInv, RunCallable PROVE AgreeInv'
  OBVIOUS
<1>0. /\ call.at = "ready" /\ UNCHANGED <<setup, package, model>> /\ Platform = "tensorflow"
      /\ InputsInv /\ model # Null
      /\ DOMAIN call.fed \subseteq ToSet(NodeOrder) /\ DOMAIN call.fetches \subseteq ToSet(NodeOrder)
      /\ call.callable.feeds = Sorted(DOMAIN call.fed) /\ call.callable.fetches = Sorted(DOMAIN call.fetches)
      /\ Makes(setup.graph, call.callable.feeds, call.callable.fetches)
  BY DEF RunCallable, At, Inv, InputsInv, OutputsInv, FaithInv
<1>1. PICK feeds : feeds = Sorted(DOMAIN call.fed)
  OBVIOUS
<1>2. PICK tensors : tensors = [k \in DOMAIN feeds |-> call.fed[feeds[k]]]
  OBVIOUS
<1>3. ToSet(feeds) = DOMAIN call.fed /\ feeds \in Seq(ToSet(NodeOrder))
      /\ ToSet(Sorted(DOMAIN call.fetches)) = DOMAIN call.fetches
  BY <1>0, <1>1, SortedHas
<1>4. CanRun(setup.graph, call.callable, tensors) <=> setup.graph.needs \subseteq DOMAIN call.fed
  <2>1. Len(tensors) = Len(feeds)
    <3>1. DOMAIN tensors = 1 .. Len(feeds) /\ Len(feeds) \in Nat
      BY <1>2, <1>3
    <3>2. tensors \in Seq({tensors[k] : k \in 1 .. Len(feeds)})
      BY <1>2, <3>1
    <3> QED
      BY <3>1, <3>2
  <2> QED
    BY <1>0, <1>1, <1>3, <2>1 DEF CanRun
<1>5. ASSUME Comparable
      PROVE  /\ OneName(setup.graph)
             /\ ~(setup.graph.needs \subseteq DOMAIN call.fed) => Forward = Failed
             /\ setup.graph.needs \subseteq DOMAIN call.fed =>
                  Forward = [n \in Wanted |-> Node(setup.graph, setup.graph.mapping[n], call.fed)]
  <2>1. /\ DOMAIN Sent \subseteq NamesOf(PyRead(package).inputs) /\ Wanted = NamesOf(PyRead(package).outputs)
        /\ Forward = PyTensorflow(setup.graph, PyRead(package), Sent) /\ OneName(setup.graph)
        /\ call.fed = PyFed(setup.graph, PyRead(package).inputs, Sent)
        /\ Wanted = NamesOf(package.outputs)
    BY <1>0, <1>5, TensorflowIs
  <2>2. Wanted \cup DOMAIN Sent \subseteq DOMAIN setup.graph.mapping
    BY <1>0, <1>5, <2>1 DEF AgreeInv
  <2>3. Nodes(setup.graph, Wanted) \cup DOMAIN call.fed \subseteq DOMAIN setup.graph.out
    <3>1. AreFor(call.fetches, setup.graph, Wanted)
      BY <1>0, <2>1 DEF FaithInv
    <3>2. ASSUME NEW n \in Wanted PROVE setup.graph.mapping[n] \in DOMAIN call.fetches
      <4>1. PICK node \in DOMAIN call.fetches : call.fetches[node] = n
        BY <3>1 DEF AreFor
      <4> QED
        BY <3>1, <4>1 DEF AreFor
    <3> QED
      BY <1>0, <1>1, <1>3, <3>2 DEF Makes, Nodes
  <2>4. ASSUME NEW n \in Wanted PROVE ~NoItem(setup.graph, n)
    <3>1. setup.graph.mapping[n] \in DOMAIN setup.graph.out
      BY <2>3 DEF Nodes
    <3>2. ~Differs
      BY <1>5 DEF Comparable
    <3> QED
      BY <1>0, <3>1, <3>2 DEF Differs, NoItem
  <2>5. PICK config : config = PyRead(package)
    OBVIOUS
  <2>6. /\ ~(setup.graph.needs \subseteq DOMAIN call.fed) => PyTensorflow(setup.graph, config, Sent) = Failed
        /\ setup.graph.needs \subseteq DOMAIN call.fed =>
             PyTensorflow(setup.graph, config, Sent) = [n \in Wanted |-> Node(setup.graph, setup.graph.mapping[n], call.fed)]
    <3>1. DOMAIN Sent \subseteq NamesOf(config.inputs) /\ Wanted = NamesOf(config.outputs)
          /\ call.fed = PyFed(setup.graph, config.inputs, Sent)
      BY <2>1, <2>5
    <3> QED
      BY <2>2, <2>3, <2>4, <3>1, PyTensorflowIs
  <2> QED
    BY <2>1, <2>5, <2>6
<1>6. CASE ~CanRun(setup.graph, call.callable, tensors)
  <2>1. Goto("failed")
    BY <1>1, <1>2, <1>6 DEF RunCallable
  <2>2. Comparable => Refused
    BY <1>0, <1>4, <1>5, <1>6, PyAnswerIs
  <2> QED
    BY <1>0, <2>1, <2>2, FailsAlike
<1>7. CASE CanRun(setup.graph, call.callable, tensors)
  <2>1. PICK out : out = RanOutputs
    OBVIOUS
  <2>2. call' = [call EXCEPT !.at = "filtered", !.out = out]
    BY <1>1, <1>2, <1>7, <2>1 DEF RunCallable, RanOutputs
  <2>3. Keeps /\ call'.at = "filtered" /\ call'.out = out
    BY <1>0, <2>2, CallFields DEF Keeps
  <2>4. ASSUME Comparable PROVE out = Forward
    <3>1. /\ out = [n \in Wanted |-> out[n]]
          /\ \A n \in Wanted : out[n] = Node(setup.graph, setup.graph.mapping[n], call.fed)
      BY <1>0, <1>5, <2>1, <2>4, RunsWanted
    <3> QED
      BY <1>4, <1>5, <1>7, <2>4, <3>1
  <2>5. Comparable => Accepted
    BY <1>0 DEF AgreeInv
  <2> QED
    BY <1>0, <2>3, <2>4, <2>5, AgreeFrames DEF AgreeInv
<1> QED
  BY <1>6, <1>7
-----------------------------------------------------------------------------
\* What the TorchScript executor makes of the items that the model returned.
PyFolded(cs, type, from) == FoldLeft(LAMBDA out, item : PyInsert(out, item, type, from), <<>>, cs)

LEMMA PyInsertIsClosed ==
  ASSUME NEW items, NEW type, NEW from, NEW out \in Outputs(items, from), NEW item \in items
  PROVE  PyInsert(out, item, type, from) \in Outputs(items, from)
<1> DEFINE refused == \/ out = Failed \/ item.name \in DOMAIN out
                      \/ ~(item.is \in {"tensor", "strings"} \/ (item.is \in {"empty", "list"} /\ type = "string"))
<1>1. item.name \in {i.name : i \in items} /\ Value(item, from) \in Values(items, from)
  BY DEF Values
<1>2. PyInsert(out, item, type, from) = IF refused THEN Failed ELSE Put(out, item.name, Value(item, from))
  BY DEF PyInsert
<1>3. CASE refused
  BY <1>2, <1>3 DEF Outputs
<1>4. CASE ~refused
  <2>1. out \in Maps({i.name : i \in items}, Values(items, from))
    BY <1>4 DEF Outputs
  <2>2. Put(out, item.name, Value(item, from)) \in Maps({i.name : i \in items}, Values(items, from))
    BY <1>1, <2>1, PutIsMap
  <2> HIDE DEF refused
  <2> QED
    BY <1>2, <1>4, <2>2 DEF Outputs
<1> QED
  BY <1>3, <1>4

PyCollects(items, type, from, cs) ==
  \E f \in [0 .. Len(cs) -> Outputs(items, from)] :
    /\ f[0] = <<>> /\ PyFolded(cs, type, from) = f[Len(cs)]
    /\ \A k \in 1 .. Len(cs) : f[k] = PyInsert(f[k - 1], cs[k], type, from)

LEMMA PyCollectedFolds ==
  ASSUME NEW items, NEW type, NEW from, NEW cs \in Seq(items)
  PROVE  PyCollects(items, type, from, cs)
<1> DEFINE G == [p \in Outputs(items, from) \X items |-> PyInsert(p[1], p[2], type, from)]
           I == CHOOSE iter : iter = [t \in SUBSET (DOMAIN cs) |->
                  IF t = {} THEN <<>> ELSE LET x == Max(t) IN PyInsert(iter[t \ {x}], cs[x], type, from)]
<1>1. G \in [Outputs(items, from) \X items -> Outputs(items, from)] /\ <<>> \in Outputs(items, from)
  BY PyInsertIsClosed, NoMap DEF Outputs
<1>2. \A a \in Outputs(items, from), b \in items : G[<<a, b>>] = PyInsert(a, b, type, from)
  OBVIOUS
<1>3. /\ DOMAIN cs = 1 .. Len(cs) /\ Len(cs) \in Nat
      /\ \A k \in 1 .. Len(cs) : cs[k] \in items
  OBVIOUS
<1> HIDE DEF G
<1>4. PICK J \in [SUBSET (1 .. Len(cs)) -> Outputs(items, from)] : Folds(J, G, <<>>, cs, Len(cs))
  BY <1>1, FoldsExist
<1>5. \A t \in SUBSET (1 .. Len(cs)) : t # {} => Max(t) \in 1 .. Len(cs)
  BY <1>3, MaxIsIn
<1>6. J = [t \in SUBSET (DOMAIN cs) |->
             IF t = {} THEN <<>> ELSE LET x == Max(t) IN PyInsert(J[t \ {x}], cs[x], type, from)]
  <2>1. ASSUME NEW t \in SUBSET (1 .. Len(cs))
        PROVE  J[t] = IF t = {} THEN <<>> ELSE LET x == Max(t) IN PyInsert(J[t \ {x}], cs[x], type, from)
    BY <1>2, <1>3, <1>4, <1>5 DEF Folds
  <2> QED
    BY <1>3, <2>1
<1>7. I = [t \in SUBSET (DOMAIN cs) |->
             IF t = {} THEN <<>> ELSE LET x == Max(t) IN PyInsert(I[t \ {x}], cs[x], type, from)]
  BY <1>6
<1>8. PyFolded(cs, type, from) = I[DOMAIN cs]
  BY DEF FoldLeft, MapThenFoldSet, PyFolded
<1> HIDE DEF I
<1>9. I[{}] = <<>> /\ \A t \in SUBSET (1 .. Len(cs)) : t # {} => I[t] = LET x == Max(t) IN PyInsert(I[t \ {x}], cs[x], type, from)
  BY <1>3, <1>7
<1>10. FoldsIn(Outputs(items, from), I, G, <<>>, cs)
  BY <1>2, <1>3, <1>5, <1>9 DEF FoldsIn
<1>11. PICK f \in [0 .. Len(cs) -> Outputs(items, from)] :
         /\ f[0] = <<>> /\ f[Len(cs)] = I[1 .. Len(cs)]
         /\ \A k \in 1 .. Len(cs) : f[k] = G[<<f[k - 1], cs[k]>>]
  <2>1. IsRun(Outputs(items, from), I, G, <<>>, cs)
    BY <1>1, <1>10, FoldIsRun, Zenon
  <2> QED
    BY <2>1 DEF IsRun
<1>12. ASSUME NEW k \in 1 .. Len(cs) PROVE f[k] = PyInsert(f[k - 1], cs[k], type, from)
  <2>1. f[k - 1] \in Outputs(items, from) /\ cs[k] \in items
    BY <1>3
  <2> QED
    BY <1>2, <1>11, <2>1
<1> QED
  BY <1>3, <1>8, <1>11, <1>12, Zenon DEF PyCollects

\* The native library and the executor insert alike what is contiguous and neither empty nor
\* a list of numbers.
Alike(items, type) == \A item \in items : /\ item.is \notin {"empty", "list"} /\ item.contiguous
                                          /\ item.is = "strings" => type \in {"string", Null}

LEMMA SameInserts ==
  ASSUME NEW items, NEW type, Alike(items, type), NEW item \in items, NEW out, NEW from
  PROVE  PyInsert(out, item, type, from) = Insert(out, item, type, from)
<1>1. item.is \notin {"empty", "list"} /\ (item.is = "strings" => type \in {"string", Null})
  BY DEF Alike
<1>2. Accepts(item, type) <=> item.is \in {"tensor", "strings"} \/ (item.is \in {"empty", "list"} /\ type = "string")
  BY <1>1 DEF Accepts
<1>3. Wrapped(item, from) = Value(item, from)
  BY DEF Wrapped, Alike
<1> QED
  BY <1>2, <1>3 DEF PyInsert, Insert

LEMMA FoldsAgree ==
  ASSUME NEW items, NEW type, Alike(items, type), NEW from, NEW cs \in Seq(items)
  PROVE  PyFolded(cs, type, from) = Folded(cs, type, from)
<1>1. PICK f \in [0 .. Len(cs) -> Outputs(items, from)] :
        /\ f[0] = <<>> /\ Folded(cs, type, from) = f[Len(cs)]
        /\ \A k \in 1 .. Len(cs) : f[k] = Insert(f[k - 1], cs[k], type, from)
  <2>1. Collects(items, type, from, cs)
    BY CollectedFolds
  <2> QED
    BY <2>1 DEF Collects
<1>2. PICK g \in [0 .. Len(cs) -> Outputs(items, from)] :
        /\ g[0] = <<>> /\ PyFolded(cs, type, from) = g[Len(cs)]
        /\ \A k \in 1 .. Len(cs) : g[k] = PyInsert(g[k - 1], cs[k], type, from)
  <2>1. PyCollects(items, type, from, cs)
    BY PyCollectedFolds
  <2> QED
    BY <2>1 DEF PyCollects
<1> DEFINE S == {k \in 0 .. Len(cs) : f[k] = g[k]}
<1>3. 0 \in S
  BY <1>1, <1>2
<1>4. ASSUME NEW k \in 1 .. Len(cs), k - 1 \in S PROVE k \in S
  <2>1. cs[k] \in items
    OBVIOUS
  <2>2. PyInsert(g[k - 1], cs[k], type, from) = Insert(g[k - 1], cs[k], type, from)
    BY <2>1, SameInserts
  <2> QED
    BY <1>1, <1>2, <1>4, <2>2
<1>5. Len(cs) \in S
  <2> HIDE DEF S
  <2> QED
    BY <1>3, <1>4, UpTo
<1> QED
  BY <1>1, <1>2, <1>5

\* The output of a single result.
IsSingle(cs, item) == cs = <<item>>

LEMMA SingleIs ==
  ASSUME NEW item, NEW cs, IsSingle(cs, item), NEW type, NEW from
  PROVE  /\ Folded(cs, type, from) = Insert(<<>>, item, type, from)
         /\ PyFolded(cs, type, from) = PyInsert(<<>>, item, type, from)
<1>1. cs \in Seq({item}) /\ Len(cs) = 1 /\ cs[1] = item
  BY DEF IsSingle
<1>2. Folded(cs, type, from) = Insert(<<>>, item, type, from)
  <2>1. Collects({item}, type, from, cs)
    BY <1>1, CollectedFolds
  <2> QED
    BY <1>1, <2>1 DEF Collects
<1>3. PyFolded(cs, type, from) = PyInsert(<<>>, item, type, from)
  <2>1. PyCollects({item}, type, from, cs)
    BY <1>1, PyCollectedFolds
  <2> QED
    BY <1>1, <2>1 DEF PyCollects
<1> QED
  BY <1>2, <1>3

\* The executor calls the model with what TorchNeuropodBackend would.
PyCalled(graph, inputs) ==
  LET own      == Own(graph)
      required == {own[k].name : k \in {j \in DOMAIN own : own[j].default = "missing"}}
  IN IF IsDict(graph) THEN \A n \in DOMAIN inputs : IsString(inputs[n]) = (own[1].kind = "strings")
     ELSE required \subseteq DOMAIN inputs /\ DOMAIN inputs \subseteq NamesOf(own)

\* No argument that is not given has a default that matters.
NoDefaults(graph, given) ==
  IsDict(graph) \/ \A k \in DOMAIN Own(graph) : Own(graph)[k].name \in given \/ ~DefaultMatters(Own(graph)[k])

LEMMA FilledIs ==
  ASSUME NEW graph, NEW sent, sent = [n \in DOMAIN sent |-> sent[n]], NoDefaults(graph, DOMAIN sent)
  PROVE  Filled(graph, sent) = sent
<1>1. CASE IsDict(graph)
  BY <1>1 DEF Filled
<1>2. CASE ~IsDict(graph)
  <2> DEFINE left == {Own(graph)[k].name : k \in {j \in DOMAIN Own(graph) : Own(graph)[j].default = "value"}} \ DOMAIN sent
  <2>1. left = {}
    BY <1>2 DEF NoDefaults, DefaultMatters
  <2>2. Filled(graph, sent) = [n \in DOMAIN sent \cup left |-> IF n \in left THEN "default" ELSE sent[n]]
    BY <1>2 DEF Filled
  <2> HIDE DEF left
  <2> QED
    BY <2>1, <2>2
<1> QED
  BY <1>1, <1>2

LEMMA CalledAlike ==
  ASSUME NEW graph, IsGraph("torchscript", graph), NEW sent, NoDefaults(graph, DOMAIN sent), \A n \in DOMAIN sent : sent[n] # Null,
         IsDict(graph) => \A n \in DOMAIN sent : IsString(sent[n]) = (Own(graph)[1].kind = "strings")
  PROVE  PyCalled(graph, sent) <=> Takes(graph, sent) /\ Forwards(graph, ArgsOf(graph, sent))
<1>1. CASE IsDict(graph)
  BY <1>1 DEF PyCalled, Takes, Forwards
<1>2. CASE ~IsDict(graph)
  <2>1. PICK own : own = Own(graph)
    OBVIOUS
  <2>2. PICK args : args = ArgsOf(graph, sent)
    OBVIOUS
  <2>3. args = [k \in DOMAIN own |-> IF own[k].name \in DOMAIN sent THEN sent[own[k].name] ELSE Null]
    BY <1>2, <2>1, <2>2 DEF ArgsOf
  <2>4. \A k \in DOMAIN own : args[k] = Null <=> own[k].name \notin DOMAIN sent
    BY <2>3
  <2>5. Forwards(graph, args) <=> \A k \in DOMAIN own : own[k].name \notin DOMAIN sent => own[k].kind = "optional"
    BY <1>2, <2>1, <2>3, <2>4 DEF Forwards
  <2>6. ASSUME NEW k \in DOMAIN own, own[k].name \notin DOMAIN sent
        PROVE  own[k].kind = "optional" <=> own[k].default # "missing"
    <3>1. ~DefaultMatters(own[k]) /\ own[k].default \in Defaults(own[k])
      BY <1>2, <2>1, <2>6 DEF NoDefaults, IsGraph
    <3> QED
      BY <3>1 DEF DefaultMatters, Defaults
  <2>7. Forwards(graph, args) <=> {own[k].name : k \in {j \in DOMAIN own : own[j].default = "missing"}} \subseteq DOMAIN sent
    BY <2>5, <2>6
  <2>8. Takes(graph, sent) <=> DOMAIN sent \subseteq NamesOf(own)
    BY <1>2, <2>1 DEF Takes
  <2> QED
    BY <1>2, <2>1, <2>2, <2>7, <2>8 DEF PyCalled
<1> QED
  BY <1>1, <1>2

LEMMA FirstIs ==
  ASSUME NEW graph, IsGraph("torchscript", graph), graph.form = "single"
  PROVE  graph.parts[1][1] \in ItemsOf(graph)
<1>1. /\ graph.parts \in Seq(Seq(ItemsOf(graph))) /\ 1 \in 1 .. Len(graph.parts)
      /\ graph.parts[1] # <<>>
  BY DEF IsGraph
<1>2. graph.parts[1] \in Seq(ItemsOf(graph))
  BY <1>1, Within
<1>3. 1 \in 1 .. Len(graph.parts[1])
  BY <1>1, <1>2
<1> QED
  BY <1>2, <1>3, Within

\* What both insert alike.
AreUsual(graph) == \A item \in ItemsOf(graph) : item.is \notin {"empty", "list"} /\ item.contiguous

LEMMA NamedAlike ==
  ASSUME NEW graph, IsGraph("torchscript", graph), AreUsual(graph),
         NEW specs, NEW type, NEW from,
         graph.form # "single" => type = Null,
         graph.form = "single" /\ graph.parts[1][1].is = "strings" => type \in {"string", Null}
  PROVE  PyFolded(Named(graph, specs), type, from) = Folded(Named(graph, specs), type, from)
<1>1. CASE graph.form # "single"
  <2>1. Named(graph, specs) = FlattenSeq(graph.parts) /\ type = Null
    BY <1>1 DEF Named
  <2>2. FlattenSeq(graph.parts) \in Seq(ItemsOf(graph))
    <3>1. graph.parts \in Seq(Seq(ItemsOf(graph)))
      BY DEF IsGraph
    <3> QED
      BY <3>1, FlattenHas
  <2>3. Alike(ItemsOf(graph), type)
    BY <2>1 DEF Alike, AreUsual
  <2> QED
    BY <2>1, <2>2, <2>3, FoldsAgree
<1>2. CASE graph.form = "single"
  <2>1. PICK item : item = [graph.parts[1][1] EXCEPT !.name = specs[1].name]
    OBVIOUS
  <2>2. Named(graph, specs) = <<item>>
    BY <1>2, <2>1 DEF Named
  <2>3. graph.parts[1][1] \in ItemsOf(graph)
    BY <1>2, FirstIs
  <2>4. {"name", "is", "type", "contiguous"} \subseteq DOMAIN graph.parts[1][1]
    BY <2>3 DEF IsGraph
  <2>5. item.is = graph.parts[1][1].is /\ item.contiguous = graph.parts[1][1].contiguous
    BY <2>1, <2>4
  <2>6. Alike({item}, type)
    BY <1>2, <2>3, <2>5 DEF Alike, AreUsual
  <2>7. PICK cs : cs = <<item>>
    OBVIOUS
  <2>8. PyFolded(cs, type, from) = Folded(cs, type, from)
    <3>1. cs \in Seq({item})
      BY <2>7
    <3> QED
      BY <2>6, <3>1, FoldsAgree
  <2> QED
    BY <2>2, <2>7, <2>8
<1> QED
  BY <1>1, <1>2

Renamed(graph, outputs) == [graph.parts[1][1] EXCEPT !.name = outputs[1].name]

\* A list of strings for an output that is no string: one library refuses the list, the
\* other its type.
IsText(graph, outputs, type, item, cs) ==
  /\ IsGraph("torchscript", graph) /\ graph.form = "single" /\ graph.parts[1][1].is = "strings"
  /\ DOMAIN outputs = {1} /\ type = outputs[1].dtype /\ type \notin {"string", Null}
  /\ item = Renamed(graph, outputs) /\ IsSingle(cs, item)

LEMMA TextIsRefused ==
  ASSUME NEW graph, NEW outputs, NEW type, NEW item, NEW cs, NEW from, IsText(graph, outputs, type, item, cs)
  PROVE  /\ Folded(cs, type, from) = Failed
         /\ PyFolded(cs, type, from) = Failed \/ ~PyValidates(PyFolded(cs, type, from), outputs)
<1>0. /\ IsGraph("torchscript", graph) /\ graph.form = "single" /\ graph.parts[1][1].is = "strings"
      /\ DOMAIN outputs = {1} /\ type = outputs[1].dtype /\ type \notin {"string", Null}
      /\ item = Renamed(graph, outputs) /\ IsSingle(cs, item)
  BY DEF IsText
<1>1. graph.parts[1][1] \in ItemsOf(graph)
  BY <1>0, FirstIs
<1>2. {"name", "is", "type"} \subseteq DOMAIN graph.parts[1][1] /\ graph.parts[1][1].type = "string"
  BY <1>0, <1>1 DEF IsGraph
<1>3. item.is = "strings" /\ item.type = "string" /\ item.name = outputs[1].name
  BY <1>0, <1>2 DEF Renamed
<1>4. /\ Folded(cs, type, from) = Insert(<<>>, item, type, from)
      /\ PyFolded(cs, type, from) = PyInsert(<<>>, item, type, from)
  BY <1>0, SingleIs
<1>5. Insert(<<>>, item, type, from) = Failed
  BY <1>0, <1>3 DEF Insert, Accepts
<1>6. PICK py : py = PyInsert(<<>>, item, type, from)
  OBVIOUS
<1>7. ASSUME py # Failed PROVE ~PyValidates(py, outputs)
  <2>1. py = Put(<<>>, item.name, Value(item, from))
    BY <1>6, <1>7 DEF PyInsert
  <2>2. DOMAIN py = {outputs[1].name} /\ py[outputs[1].name] = Value(item, from)
    BY <1>3, <2>1 DEF Put
  <2>3. py[outputs[1].name].type = "string"
    BY <1>3, <2>2 DEF Value, Out
  <2> DEFINE read == [k \in DOMAIN outputs |-> [name |-> outputs[k].name, type |-> outputs[k].dtype, dims |-> outputs[k].shape]]
  <2>4. 1 \in Given(py, read) /\ read[1].name = outputs[1].name /\ read[1].type = type
    BY <1>0, <2>2 DEF Given
  <2> HIDE DEF read
  <2>5. ~SameLayout(py, read)
    BY <1>0, <2>3, <2>4 DEF SameLayout
  <2> QED
    BY <2>5 DEF PyValidates, read
<1> QED
  BY <1>4, <1>5, <1>6, <1>7

LEMMA CollectedAlike ==
  ASSUME NEW graph, IsGraph("torchscript", graph), AreUsual(graph),
         NEW outputs, AreGood(outputs), NEW config, config.outputs = outputs, NEW sent, PyCalled(graph, sent),
         Filled(graph, sent) = sent, NEW out, out = Collected(graph, Specs(outputs), sent), NEW py, py = PyTorch(graph, config, sent)
  PROVE  /\ out # Failed => py = out
         /\ out = Failed => py = Failed \/ ~PyValidates(py, outputs)
<1>1. PICK specs : specs = Specs(outputs)
  OBVIOUS
<1>2. DOMAIN outputs = 1 .. Len(outputs) /\ Len(outputs) \in Nat
  BY DEF AreGood
<1>3. /\ DOMAIN specs = 1 .. Len(outputs)
      /\ \A k \in DOMAIN outputs : specs[k].name = outputs[k].name /\ specs[k].type = outputs[k].dtype
  BY <1>1, <1>2 DEF Specs
<1>4. Len(specs) = Len(outputs)
  <2>1. specs = [k \in 1 .. Len(outputs) |-> specs[k]]
    BY <1>1, <1>2 DEF Specs
  <2>2. specs \in Seq({specs[k] : k \in 1 .. Len(outputs)})
    BY <1>2, <2>1
  <2> QED
    BY <1>2, <1>3, <2>2
<1>5. Returns(graph, specs) <=> Returns(graph, outputs)
  BY <1>4 DEF Returns
<1> DEFINE type   == IF graph.form = "single" THEN specs[1].type ELSE Null
           pytype == IF graph.form = "single" THEN outputs[1].dtype ELSE Null
<1>6. out = IF ~Returns(graph, specs) THEN Failed ELSE Folded(Named(graph, specs), type, sent)
  <2>1. out = Collected(graph, specs, sent)
    BY <1>1
  <2> QED
    BY <2>1, Zenon DEF Collected, Folded
<1>7. py = IF ~Returns(graph, outputs) THEN Failed ELSE PyFolded(Named(graph, outputs), pytype, sent)
  <2>1. py = IF ~PyCalled(graph, sent) \/ ~Returns(graph, config.outputs) THEN Failed
             ELSE PyFolded(Named(graph, config.outputs), IF graph.form = "single" THEN config.outputs[1].dtype ELSE Null,
                           Filled(graph, sent))
    BY Zenon DEF PyTorch, PyCalled, PyFolded
  <2> QED
    BY <2>1
<1>8. type = IF graph.form = "single" THEN specs[1].type ELSE Null
  OBVIOUS
<1>9. pytype = IF graph.form = "single" THEN outputs[1].dtype ELSE Null
  OBVIOUS
<1> HIDE DEF type, pytype
<1>10. CASE ~Returns(graph, specs)
  BY <1>5, <1>6, <1>7, <1>10
<1>11. CASE Returns(graph, specs)
  <2>1. graph.form = "single" => DOMAIN outputs = {1}
    <3>1. graph.form = "single" => Len(outputs) = 1
      BY <1>4, <1>11, Zenon DEF Returns
    <3>2. 1 .. 1 = {1}
      OBVIOUS
    <3> QED
      BY <1>2, <3>1, <3>2, Zenon
  <2>2. type = pytype /\ Named(graph, specs) = Named(graph, outputs)
    <3>1. graph.form = "single" => specs[1].name = outputs[1].name /\ specs[1].type = outputs[1].dtype
      BY <1>3, <2>1
    <3> QED
      BY <1>8, <1>9, <3>1 DEF Named
  <2>3. out = Folded(Named(graph, outputs), type, sent) /\ py = PyFolded(Named(graph, outputs), type, sent)
    BY <1>5, <1>6, <1>7, <1>11, <2>2
  <2>4. CASE graph.form = "single" /\ graph.parts[1][1].is = "strings" /\ type \notin {"string", Null}
    <3>0. PICK item : item = Renamed(graph, outputs)
      OBVIOUS
    <3>1. IsSingle(Named(graph, outputs), item)
      BY <2>4, <3>0 DEF Named, Renamed, IsSingle
    <3>2. type = outputs[1].dtype
      BY <1>9, <2>2, <2>4
    <3>3. PICK cs : cs = Named(graph, outputs)
      OBVIOUS
    <3>4. /\ Folded(cs, type, sent) = Failed
          /\ PyFolded(cs, type, sent) = Failed \/ ~PyValidates(PyFolded(cs, type, sent), outputs)
      <4>1. IsSingle(cs, item) /\ DOMAIN outputs = {1}
        BY <2>1, <2>4, <3>1, <3>3
      <4>2. IsText(graph, outputs, type, item, cs)
        BY <2>4, <3>0, <3>2, <4>1 DEF IsText
      <4> QED
        BY <4>2, TextIsRefused
    <3> QED
      BY <2>3, <3>3, <3>4
  <2>5. CASE ~ (graph.form = "single" /\ graph.parts[1][1].is = "strings" /\ type \notin {"string", Null})
    <3>1. PyFolded(Named(graph, outputs), type, sent) = Folded(Named(graph, outputs), type, sent)
      BY <1>8, <2>5, NamedAlike
    <3> QED
      BY <2>3, <3>1
  <2> QED
    BY <2>4, <2>5
<1> QED
  BY <1>10, <1>11

\* TorchScript's stages, next to the executor.
LEMMA TorchIs ==
  ASSUME Inv, call.at # "none", Platform = "torchscript", Comparable
  PROVE  /\ ~ (Takes(setup.graph, Sent) /\ Forwards(setup.graph, ArgsOf(setup.graph, Sent))) => Forward = Failed
         /\ Takes(setup.graph, Sent) /\ Forwards(setup.graph, ArgsOf(setup.graph, Sent)) =>
              /\ Collected(setup.graph, model.outputs, Sent) # Failed => Forward = Collected(setup.graph, model.outputs, Sent)
              /\ Collected(setup.graph, model.outputs, Sent) = Failed =>
                   Forward = Failed \/ ~PyValidates(Forward, package.outputs)
         /\ ~ReadsPastEnd(setup.graph, model.outputs)
<1>1. model # Null /\ PackageInv /\ ~Lossy /\ ~Differs
  BY DEF Inv, InputsInv, Comparable
<1>2. /\ IsGraph("torchscript", setup.graph) /\ package \notin {Absent, Empty} /\ model.outputs = Specs(package.outputs)
      /\ PyRead(package).outputs = package.outputs
  BY <1>1, PlatformIs, ReadIs
<1>3. AreGood(package.outputs)
  BY <1>1, <1>2, SpecsAreGood
<1>4. AreUsual(setup.graph)
  <2>1. setup.graph.parts \in Seq(Seq(ItemsOf(setup.graph)))
    BY <1>2 DEF IsGraph
  <2>2. ToSet(FlattenSeq(setup.graph.parts)) = ItemsOf(setup.graph)
    BY <2>1, FlattenHas DEF ItemsOf
  <2> QED
    BY <1>1, <2>2 DEF Differs, AreUsual
<1>5. Forward = PyTorch(setup.graph, PyRead(package), Sent)
  BY DEF Forward
<1>5a. NoDefaults(setup.graph, DOMAIN Sent)
  BY <1>1, SentIs DEF Differs, NoDefaults, ToSet
<1>5b. Filled(setup.graph, Sent) = Sent
  BY <1>5a, SentIs, FilledIs
<1>6. PyCalled(setup.graph, Sent) <=> Takes(setup.graph, Sent) /\ Forwards(setup.graph, ArgsOf(setup.graph, Sent))
  <2>1. IsDict(setup.graph) => \A n \in DOMAIN Sent : IsString(Sent[n]) = (Own(setup.graph)[1].kind = "strings")
    BY <1>1, SentIs DEF Lossy, IsString
  <2>2. \A n \in DOMAIN Sent : Sent[n] # Null
    BY SentIs
  <2> QED
    BY <1>2, <1>5a, <2>1, <2>2, CalledAlike
<1>7. ~PyCalled(setup.graph, Sent) => Forward = Failed
  BY <1>5, Zenon DEF PyTorch, PyCalled
<1>8. PICK out : out = Collected(setup.graph, Specs(package.outputs), Sent)
  OBVIOUS
<1>9. PICK config : config = PyRead(package)
  OBVIOUS
<1>10. PyCalled(setup.graph, Sent) => /\ out # Failed => Forward = out
                                      /\ out = Failed => Forward = Failed \/ ~PyValidates(Forward, package.outputs)
  BY <1>2, <1>3, <1>4, <1>5, <1>8, <1>9, <1>5b, CollectedAlike
<1>11. ~ReadsPastEnd(setup.graph, model.outputs)
  BY <1>2, <1>4, FirstIs DEF ReadsPastEnd, AreUsual
<1> QED
  BY <1>2, <1>6, <1>7, <1>8, <1>10, <1>11

LEMMA FeedTorchAgrees == Inv /\ FaithInv /\ AgreeInv /\ FeedTorch => AgreeInv'
<1> SUFFICES ASSUME Inv, FaithInv, AgreeInv, FeedTorch PROVE AgreeInv'
  OBVIOUS
<1>0. /\ call.at = "sealed" /\ UNCHANGED <<setup, package, model>> /\ Platform = "torchscript"
      /\ InputsInv /\ model # Null /\ call.sealed = Sent
  BY DEF FeedTorch, At, Inv, InputsInv, FaithInv
<1>1. PICK args : args = ArgsOf(setup.graph, Sent)
  OBVIOUS
<1>2. CASE ~Takes(setup.graph, Sent)
  <2>1. Goto("failed")
    BY <1>0, <1>2 DEF FeedTorch
  <2>2. Comparable => Refused
    BY <1>0, <1>2, TorchIs, PyAnswerIs
  <2> QED
    BY <1>0, <2>1, <2>2, FailsAlike
<1>3. CASE Takes(setup.graph, Sent)
  <2>1. call' = [call EXCEPT !.at = "fed", !.fed = args]
    BY <1>0, <1>1, <1>3 DEF FeedTorch
  <2>2. Keeps /\ call'.at = "fed" /\ call'.fed = args
    BY <1>0, <2>1, CallFields DEF Keeps
  <2>3. (Takes(setup.graph, Sent))' /\ ArgsOf(setup.graph, Sent)' = args
    BY <1>0, <1>1, <1>3, <2>2, AgreeFrames
  <2>4. Comparable => Accepted
    BY <1>0 DEF AgreeInv
  <2> QED
    BY <1>0, <2>2, <2>3, <2>4, AgreeFrames DEF AgreeInv
<1> QED
  BY <1>2, <1>3

LEMMA RunTorchAgrees == Inv /\ FaithInv /\ AgreeInv /\ RunTorch => AgreeInv'
<1> SUFFICES ASSUME Inv, FaithInv, AgreeInv, RunTorch PROVE AgreeInv'
  OBVIOUS
<1>0. /\ call.at = "fed" /\ UNCHANGED <<setup, package, model>> /\ Platform = "torchscript"
      /\ InputsInv /\ model # Null
  BY DEF RunTorch, At, Inv, InputsInv
<1>1. PICK out : out = Collected(setup.graph, model.outputs, Bindings(setup.graph, call.fed))
  OBVIOUS
<1>2. \/ Goto("failed") /\ ~Forwards(setup.graph, call.fed)
      \/ ReadsPastEnd(setup.graph, model.outputs) /\ (Goto("failed") \/ Goto("crashed"))
      \/ Goto("failed") /\ out = Failed /\ Forwards(setup.graph, call.fed)
      \/ out # Failed /\ Forwards(setup.graph, call.fed) /\ call' = [call EXCEPT !.at = "ran", !.out = out]
  BY <1>1, Zenon DEF RunTorch
<1>3. ASSUME Comparable
      PROVE  /\ Takes(setup.graph, Sent) /\ call.fed = ArgsOf(setup.graph, Sent) /\ Accepted
             /\ out = Collected(setup.graph, model.outputs, Sent)
  BY <1>0, <1>1, <1>3 DEF AgreeInv, FaithInv, Comparable
<1>4. CASE Goto("failed") /\ ~Forwards(setup.graph, call.fed)
  <2>1. Comparable => Refused
    BY <1>0, <1>3, <1>4, TorchIs, PyAnswerIs
  <2> QED
    BY <1>0, <1>4, <2>1, FailsAlike
<1>5. CASE ReadsPastEnd(setup.graph, model.outputs) /\ (Goto("failed") \/ Goto("crashed"))
  <2>1. ~Comparable
    BY <1>0, <1>5, TorchIs
  <2>2. CASE Goto("failed")
    BY <1>0, <2>1, <2>2, FailsAlike
  <2>3. CASE Goto("crashed")
    BY <1>0, <2>3, GotoIs, NothingToCompare
  <2> QED
    BY <1>5, <2>2, <2>3
<1>6. CASE Goto("failed") /\ out = Failed /\ Forwards(setup.graph, call.fed)
  <2>1. Comparable => Refused
    BY <1>0, <1>3, <1>6, TorchIs, PyAnswerIs
  <2> QED
    BY <1>0, <1>6, <2>1, FailsAlike
<1>7. CASE out # Failed /\ Forwards(setup.graph, call.fed) /\ call' = [call EXCEPT !.at = "ran", !.out = out]
  <2>1. Keeps /\ call'.at = "ran" /\ call'.out = out
    BY <1>0, <1>7, CallFields DEF Keeps
  <2>2. Comparable => out = Forward
    BY <1>0, <1>3, <1>7, TorchIs
  <2> QED
    BY <1>0, <1>3, <2>1, <2>2, AgreeFrames DEF AgreeInv
<1> QED
  BY <1>2, <1>4, <1>5, <1>6, <1>7

LEMMA AgreeHolds == Spec => []AgreeInv
<1>1. Init => AgreeInv
  BY DEF Init, NoCall, AgreeInv
<1>2. ASSUME Inv, FaithInv, AgreeInv, [Next]_vars PROVE AgreeInv'
  <2>1. CASE UNCHANGED vars
    <3>1. Keeps
      BY <2>1, <1>2 DEF vars, Keeps, Inv, InputsInv
    <3>2. UNCHANGED <<setup, package, model, call>>
      BY <2>1 DEF vars
    <3> QED
      BY <1>2, <3>1, <3>2, AgreeFrames DEF AgreeInv
  <2>2. CASE Package \/ Load
    <3>1. call.at = "none" /\ UNCHANGED call
      BY <1>2, <2>2 DEF Inv, PackageInv, InputsInv, Package, Load
    <3> QED
      BY <3>1, NothingToCompare
  <2>3. CASE Infer
    BY <2>3, NothingToCompare DEF Infer, NoCall
  <2>4. CASE RunPython
    <3>1. Platform = "python" /\ UNCHANGED <<setup, package, model>> /\ InputsInv
      BY <1>2, <2>4 DEF RunPython, At, Inv
    <3>2. PICK out : Goto("failed") \/ call' = [call EXCEPT !.at = "ran", !.out = out]
      BY <2>4, Zenon DEF RunPython
    <3>3. Keeps
      BY <3>1, <3>2, CallFields DEF Keeps, Goto
    <3>4. Platform' = Platform
      BY <3>1, <3>3, AgreeFrames
    <3> QED
      BY <3>1, <3>4 DEF AgreeInv, Comparable
  <2> QED
    BY <1>2, <2>1, <2>2, <2>3, <2>4, ValidateAgrees, SealAgrees, FeedTensorflowAgrees, GetCallableAgrees,
       RunCallableAgrees, FeedTorchAgrees, RunTorchAgrees, FilterAgrees, AnswerAgrees DEF Next
<1> QED
  BY <1>1, <1>2, InvHolds, FaithHolds, PTL DEF Spec

\* The native library refuses the calls that the Python executors refuse, and gives the answers that
\* they give.  What Lossy and Differs name is excluded because the two do disagree there: strided
\* results and empty lists of TorchScript, and arguments whose default one of them uses and the other
\* does not, are among it.
THEOREM ExecutorsGiveTheSame == Spec => []ExecutorsAgree
<1>1. ASSUME Inv, AgreeInv PROVE ExecutorsAgree
  <2>1. SUFFICES ASSUME call.at \in {"answered", "failed"}, call.requested = <<>>, ~setup.unchecked,
                        Platform # "python", ~Lossy, ~Differs
                 PROVE  PyAnswer(PyRead(package), setup.graph, Sent) = IF call.at = "answered" THEN call.out ELSE Failed
    BY DEF ExecutorsAgree, Sent
  <2>2. Comparable /\ model # Null
    BY <1>1, <2>1 DEF Comparable, Inv, InputsInv
  <2>3. CASE call.at = "failed"
    BY <1>1, <2>2, <2>3 DEF AgreeInv, Refused
  <2>4. CASE call.at = "answered"
    <3>1. /\ Accepted /\ call.out = Forward /\ PyValidates(Forward, package.outputs)
          /\ Platform \in {"tensorflow", "torchscript"}
      BY <1>1, <2>2, <2>4 DEF AgreeInv
    <3> QED
      BY <1>1, <2>2, <2>4, <3>1, PyAnswerIs
  <2> QED
    BY <2>1, <2>3, <2>4
<1> QED
  BY <1>1, InvHolds, AgreeHolds, PTL
=============================================================================
