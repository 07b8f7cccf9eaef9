-------------------------- MODULE TensorLayoutProofs --------------------------
(***************************************************************************)
(* Theorems about TensorLayout, for tensors of any rank and size and any   *)
(* values: strides give each index of a tensor a cell of its own, in       *)
(* row-major order, and the calls answer as TensorContents promises.       *)
(***************************************************************************)
EXTENDS TensorLayout, SequenceTheorems, FiniteSetTheorems, WellFoundedInduction, TLAPS

\* A set of natural numbers has a least one: a statement about all numbers is
\* proved by looking at the first for which it fails.
Less == {pair \in Nat \X Nat : pair[1] < pair[2]}

LEMMA LeastNumber ==
  ASSUME NEW T, T \subseteq Nat, T # {}
  PROVE  \E n \in T : \A m \in T : n <= m
<1>1. OpToRel(<, Nat) = Less
  BY Zenon DEF OpToRel, Less
<1>2. \E n \in T : \A m \in T : ~ (<<m, n>> \in Less)
  BY <1>1, WFMin, NatLessThanWellFounded, Zenon
<1>3. \A m, n \in Nat : m < n => <<m, n>> \in Less
  BY DEF Less
<1>4. \A m, n \in Nat : ~ (m < n) => n <= m
  OBVIOUS
<1> QED
  BY <1>2, <1>3, <1>4

\* A set of numbers up to N that has 0 and, with each other number, the one before it
\* has them all.
LEMMA UpTo ==
  ASSUME NEW N \in Nat, NEW T, 0 \in T, \A n \in 1 .. N : n - 1 \in T => n \in T
  PROVE  0 .. N \subseteq T
<1> DEFINE F == {n \in 0 .. N : n \notin T}
<1>1. SUFFICES ASSUME F # {} PROVE FALSE
  OBVIOUS
<1>2. F \subseteq Nat
  OBVIOUS
<1>3. PICK n \in F : \A m \in F : n <= m
  BY <1>1, <1>2, LeastNumber
<1>4. n \in 1 .. N /\ n - 1 \in 0 .. N /\ ~ (n <= n - 1)
  BY <1>3
<1> QED
  BY <1>3, <1>4

\* The same downwards.
LEMMA DownFrom ==
  ASSUME NEW N \in Nat, NEW T, N \in T, \A n \in 0 .. N - 1 : n + 1 \in T => n \in T
  PROVE  0 .. N \subseteq T
<1> DEFINE U == {n \in 0 .. N : N - n \in T}
<1>1. 0 \in U
  OBVIOUS
<1>2. ASSUME NEW n \in 1 .. N, n - 1 \in U PROVE n \in U
  <2>1. N - n \in 0 .. N - 1 /\ (N - n) + 1 = N - (n - 1)
    OBVIOUS
  <2> QED
    BY <1>2, <2>1
<1>3. 0 .. N \subseteq U
  <2> HIDE DEF U
  <2> QED
    BY <1>1, <1>2, UpTo
<1>4. ASSUME NEW n \in 0 .. N PROVE n \in T
  <2>1. N - n \in 0 .. N /\ N - (N - n) = n
    OBVIOUS
  <2> QED
    BY <1>3, <2>1
<1> QED
  BY <1>4

\* A function can be defined by its value at 0 and a step.
Steps(f, v, N, D) == f[0] = v /\ \A n \in 1 .. N : f[n] = D[<<n, f[n - 1]>>]

LEMMA Recursion ==
  ASSUME NEW V, NEW v \in V, NEW N \in Nat, NEW D \in [(1 .. N) \X V -> V]
  PROVE  \E f \in [0 .. N -> V] : Steps(f, v, N, D)
<1> DEFINE T == {m \in 0 .. N : \E f \in [0 .. m -> V] : Steps(f, v, m, D)}
<1>1. 0 \in T
  <2>1. [k \in 0 .. 0 |-> v] \in [0 .. 0 -> V] /\ Steps([k \in 0 .. 0 |-> v], v, 0, D)
    BY DEF Steps
  <2> QED
    BY <2>1
<1>2. ASSUME NEW n \in 1 .. N, n - 1 \in T PROVE n \in T
  <2>1. PICK f \in [0 .. n - 1 -> V] : Steps(f, v, n - 1, D)
    BY <1>2
  <2> DEFINE g == [k \in 0 .. n |-> IF k < n THEN f[k] ELSE D[<<n, f[n - 1]>>]]
  <2>2. n - 1 \in 0 .. n - 1 /\ n \in 1 .. N
    OBVIOUS
  <2>3. f[n - 1] \in V
    BY <2>1, <2>2
  <2>4. D[<<n, f[n - 1]>>] \in V
    BY <2>3
  <2>5. g \in [0 .. n -> V]
    BY <2>1, <2>4
  <2>6. ASSUME NEW k \in 1 .. n PROVE g[k] = D[<<k, g[k - 1]>>]
    <3>1. k - 1 \in 0 .. n /\ k - 1 < n /\ k \in 0 .. n
      OBVIOUS
    <3>2. g[k - 1] = f[k - 1]
      BY <3>1
    <3>3. CASE k = n
      BY <3>1, <3>2, <3>3
    <3>4. CASE k # n
      <4>1. k \in 1 .. n - 1 /\ k < n
        BY <3>4
      <4>2. f[k] = D[<<k, f[k - 1]>>]
        BY <2>1, <4>1 DEF Steps
      <4> QED
        BY <3>1, <3>2, <4>1, <4>2
    <3> QED
      BY <3>3, <3>4
  <2>7. g[0] = v
    BY <2>1 DEF Steps
  <2> HIDE DEF g
  <2>8. Steps(g, v, n, D)
    BY <2>6, <2>7 DEF Steps
  <2> QED
    BY <2>5, <2>8
<1>3. 0 .. N \subseteq T
  <2> HIDE DEF T
  <2> QED
    BY <1>1, <1>2, UpTo
<1> QED
  BY <1>3

-----------------------------------------------------------------------------
\* How many numbers there are in the rows of n + 1, n + 2, ... brackets: Strides without
\* its recursion.
Volumes(v, dims) == /\ v \in [0 .. Len(dims) -> Nat]
                    /\ v[Len(dims)] = 1
                    /\ \A n \in 1 .. Len(dims) : v[n - 1] = v[n] * dims[n]

LEMMA ProductNat ==
  ASSUME NEW a \in Nat, NEW b \in Nat
  PROVE  a * b \in Nat
  OBVIOUS

LEMMA StridesAreVolumes ==
  ASSUME NEW dims \in Seq(Nat)
  PROVE  \E v : Volumes(v, dims) /\ Strides(dims) = [n \in DOMAIN dims |-> v[n]]
<1> DEFINE N == Len(dims)
           Eq(f) == f = [n \in 0 .. Len(dims) |-> IF n = Len(dims) THEN 1 ELSE f[n + 1] * dims[n + 1]]
           F == CHOOSE f : Eq(f)
<1>1. N \in Nat /\ DOMAIN dims = 1 .. N /\ \A n \in 1 .. N : dims[n] \in Nat
  OBVIOUS
<1>0. N = Len(dims)
  OBVIOUS
<1> HIDE DEF N
<1>2. \E f : Eq(f)
  <2> DEFINE D == [p \in (1 .. N) \X Nat |-> p[2] * dims[N - p[1] + 1]]
  <2>1. D \in [(1 .. N) \X Nat -> Nat]
    <3>1. ASSUME NEW p \in (1 .. N) \X Nat PROVE p[2] * dims[N - p[1] + 1] \in Nat
      <4>1. p[1] \in 1 .. N /\ p[2] \in Nat
        OBVIOUS
      <4>2. N - p[1] + 1 \in 1 .. N
        BY <4>1, <1>1
      <4> QED
        BY <1>1, <4>1, <4>2, ProductNat
    <3> QED
      BY <3>1
  <2>2. PICK h \in [0 .. N -> Nat] : Steps(h, 1, N, D)
    <3> HIDE DEF D
    <3> QED
      BY <2>1, <1>1, Recursion
  <2> DEFINE g == [n \in 0 .. N |-> h[N - n]]
  <2>3. ASSUME NEW n \in 0 .. N PROVE g[n] = IF n = N THEN 1 ELSE g[n + 1] * dims[n + 1]
    <3>1. CASE n = N
      BY <1>1, <2>2, <3>1 DEF Steps
    <3>2. CASE n # N
      <4>1. N - n \in 1 .. N /\ n + 1 \in 0 .. N /\ N - (n + 1) = (N - n) - 1 /\ N - (N - n) + 1 = n + 1
        BY <1>1, <3>2
      <4>2. h[N - n] = D[<<N - n, h[(N - n) - 1]>>]
        BY <2>2, <4>1 DEF Steps
      <4>3. h[(N - n) - 1] \in Nat
        BY <2>2, <4>1, <1>1
      <4>4. D[<<N - n, h[(N - n) - 1]>>] = h[(N - n) - 1] * dims[n + 1]
        BY <4>1, <4>3
      <4> QED
        BY <3>2, <4>1, <4>2, <4>4
    <3> QED
      BY <3>1, <3>2
  <2>4. g = [n \in 0 .. Len(dims) |-> g[n]]
    BY <1>0
  <2> HIDE DEF g
  <2>5. Eq(g)
    BY <2>3, <2>4, <1>0
  <2> QED
    BY <2>5
<1>3. Eq(F)
  BY <1>2
<1>4. Strides(dims) = [n \in DOMAIN dims |-> F[n]]
  BY Zenon DEF Strides
<1> HIDE DEF F
<1>5. ASSUME NEW n \in 0 .. N PROVE F[n] = IF n = N THEN 1 ELSE F[n + 1] * dims[n + 1]
  BY <1>3, <1>0
<1>6. 0 .. N \subseteq {n \in 0 .. N : F[n] \in Nat}
  <2> DEFINE T == {n \in 0 .. N : F[n] \in Nat}
  <2>1. N \in T
    BY <1>1, <1>5
  <2>2. ASSUME NEW n \in 0 .. N - 1, n + 1 \in T PROVE n \in T
    <3>1. n \in 0 .. N /\ n # N /\ n + 1 \in 1 .. N
      BY <1>1
    <3> QED
      BY <2>2, <3>1, <1>1, <1>5, ProductNat
  <2> HIDE DEF T
  <2>3. 0 .. N \subseteq T
    BY <2>1, <2>2, <1>1, DownFrom
  <2> QED
    BY <2>3 DEF T
<1>7. DOMAIN F = 0 .. N
  BY <1>3, <1>0
<1>8. F \in [0 .. N -> Nat]
  BY <1>3, <1>6, <1>7, <1>0
<1>9. ASSUME NEW n \in 1 .. N PROVE F[n - 1] = F[n] * dims[n]
  <2>1. n - 1 \in 0 .. N /\ n - 1 # N /\ (n - 1) + 1 = n
    BY <1>1
  <2> QED
    BY <2>1, <1>5
<1>10. F[N] = 1
  BY <1>1, <1>5
<1>11. Volumes(F, dims)
  BY <1>0, <1>8, <1>9, <1>10 DEF Volumes
<1> QED
  BY <1>4, <1>11

Volume(dims) == CHOOSE v : Volumes(v, dims) /\ Strides(dims) = [n \in DOMAIN dims |-> v[n]]

LEMMA VolumeOf ==
  ASSUME NEW dims \in Seq(Nat)
  PROVE  Volumes(Volume(dims), dims) /\ Strides(dims) = [n \in DOMAIN dims |-> Volume(dims)[n]]
  BY StridesAreVolumes DEF Volume

LEMMA VolumeFacts ==
  ASSUME NEW dims \in Seq(Nat)
  PROVE  /\ Len(dims) \in Nat /\ DOMAIN dims = 1 .. Len(dims)
         /\ \A n \in 1 .. Len(dims) : dims[n] \in Nat
         /\ \A n \in 0 .. Len(dims) : Volume(dims)[n] \in Nat
         /\ Volume(dims)[Len(dims)] = 1
         /\ \A n \in 1 .. Len(dims) : Volume(dims)[n - 1] = Volume(dims)[n] * dims[n]
<1>1. Volumes(Volume(dims), dims)
  BY VolumeOf
<1>2. \A n \in 0 .. Len(dims) : Volume(dims)[n] \in Nat
  BY <1>1 DEF Volumes
<1>3. /\ Len(dims) \in Nat /\ DOMAIN dims = 1 .. Len(dims)
      /\ \A n \in 1 .. Len(dims) : dims[n] \in Nat
  OBVIOUS
<1> QED
  BY <1>1, <1>2, <1>3, Zenon DEF Volumes

\* The indices are the sequences of numbers below the dims.
LEMMA IndicesAre ==
  ASSUME NEW dims \in Seq(Nat)
  PROVE  Indices(dims) = {i \in [1 .. Len(dims) -> Nat] : \A k \in 1 .. Len(dims) : i[k] < dims[k]}
<1> DEFINE N == Len(dims)
           J == {i \in [1 .. N -> Nat] : \A k \in 1 .. N : i[k] < dims[k]}
           U == UNION {0 .. dims[k] - 1 : k \in DOMAIN dims}
<1>1. DOMAIN dims = 1 .. N /\ \A k \in 1 .. N : dims[k] \in Nat
  OBVIOUS
<1>2. U \subseteq Nat
  BY <1>1
<1>3. ASSUME NEW i \in J PROVE i \in [1 .. N -> U]
  <2>1. ASSUME NEW k \in 1 .. N PROVE i[k] \in U
    <3>1. i[k] \in 0 .. dims[k] - 1
      BY <1>1
    <3> QED
      BY <3>1, <1>1
  <2> QED
    BY <2>1
<1>4. Indices(dims) = {i \in [1 .. N -> U] : \A k \in 1 .. N : i[k] < dims[k]}
  BY <1>1, Zenon DEF Indices
<1> HIDE DEF U
<1> QED
  BY <1>2, <1>3, <1>4
-----------------------------------------------------------------------------
\* Offset without its recursion: what the first n brackets add up to.
Sums(o, dims, i) == /\ o \in [0 .. Len(dims) -> Nat]
                    /\ o[0] = 0
                    /\ \A n \in 1 .. Len(dims) : o[n] = o[n - 1] + Volume(dims)[n] * i[n]

LEMMA OffsetIsSum ==
  ASSUME NEW dims \in Seq(Nat), NEW i \in [1 .. Len(dims) -> Nat]
  PROVE  \E o : Sums(o, dims, i) /\ Offset(dims, i) = o[Len(dims)]
<1> DEFINE N == Len(dims)
           v == Volume(dims)
           Eq(f) == f = [n \in 0 .. Len(dims) |->
                           IF n = 0 THEN 0
                           ELSE f[n - 1] + (IF n = Len(dims) THEN i[n] ELSE Strides(dims)[n] * i[n])]
           F == CHOOSE f : Eq(f)
<1>1. /\ N \in Nat /\ N = Len(dims) /\ DOMAIN dims = 1 .. N /\ \A n \in 1 .. N : i[n] \in Nat
      /\ \A n \in 0 .. N : v[n] \in Nat
      /\ v[N] = 1
      /\ \A n \in 1 .. N : Strides(dims)[n] = v[n]
  BY VolumeOf, VolumeFacts
<1> HIDE DEF N, v
<1>2. ASSUME NEW n \in 1 .. N
      PROVE  (IF n = N THEN i[n] ELSE Strides(dims)[n] * i[n]) = v[n] * i[n] /\ v[n] * i[n] \in Nat
  BY <1>1, ProductNat
<1>3. \E f : Eq(f)
  <2> DEFINE D == [p \in (1 .. N) \X Nat |-> p[2] + v[p[1]] * i[p[1]]]
  <2>1. D \in [(1 .. N) \X Nat -> Nat]
    <3>1. ASSUME NEW p \in (1 .. N) \X Nat PROVE p[2] + v[p[1]] * i[p[1]] \in Nat
      <4>1. p[1] \in 1 .. N /\ p[2] \in Nat
        OBVIOUS
      <4>2. v[p[1]] * i[p[1]] \in Nat
        BY <4>1, <1>2
      <4> QED
        BY <4>1, <4>2
    <3> QED
      BY <3>1
  <2>2. PICK h \in [0 .. N -> Nat] : Steps(h, 0, N, D)
    <3> HIDE DEF D
    <3> QED
      BY <2>1, <1>1, Recursion
  <2>3. ASSUME NEW n \in 0 .. N
        PROVE  h[n] = IF n = 0 THEN 0
                      ELSE h[n - 1] + (IF n = N THEN i[n] ELSE Strides(dims)[n] * i[n])
    <3>1. CASE n = 0
      BY <2>2, <3>1 DEF Steps
    <3>2. CASE n # 0
      <4>1. n \in 1 .. N /\ n - 1 \in 0 .. N
        BY <1>1, <3>2
      <4>2. h[n] = D[<<n, h[n - 1]>>] /\ h[n - 1] \in Nat
        BY <2>2, <4>1 DEF Steps
      <4>3. D[<<n, h[n - 1]>>] = h[n - 1] + v[n] * i[n]
        BY <4>1, <4>2
      <4> QED
        BY <3>2, <4>1, <4>2, <4>3, <1>2
    <3> QED
      BY <3>1, <3>2
  <2>4. h = [n \in 0 .. N |-> h[n]]
    BY <2>2
  <2>5. Eq(h)
    BY <2>3, <2>4, <1>1
  <2> QED
    BY <2>5
<1>4. Eq(F)
  BY <1>3
<1>5. Offset(dims, i) = F[Len(dims)]
  BY Zenon DEF Offset
<1> HIDE DEF F
<1>6. ASSUME NEW n \in 0 .. N
      PROVE  F[n] = IF n = 0 THEN 0
                    ELSE F[n - 1] + (IF n = N THEN i[n] ELSE Strides(dims)[n] * i[n])
  BY <1>1, <1>4
<1>7. F[0] = 0
  BY <1>1, <1>6
<1>8. ASSUME NEW n \in 1 .. N PROVE F[n] = F[n - 1] + v[n] * i[n]
  <2>1. n \in 0 .. N /\ n # 0
    BY <1>1
  <2> QED
    BY <2>1, <1>2, <1>6
<1>9. 0 .. N \subseteq {n \in 0 .. N : F[n] \in Nat}
  <2> DEFINE T == {n \in 0 .. N : F[n] \in Nat}
  <2>1. 0 \in T
    BY <1>1, <1>7
  <2>2. ASSUME NEW n \in 1 .. N, n - 1 \in T PROVE n \in T
    <3>1. n \in 0 .. N /\ F[n - 1] \in Nat
      BY <1>1, <2>2
    <3> QED
      BY <3>1, <1>2, <1>8
  <2> HIDE DEF T
  <2>3. 0 .. N \subseteq T
    BY <2>1, <2>2, <1>1, UpTo
  <2> QED
    BY <2>3 DEF T
<1>10. F = [n \in 0 .. N |-> F[n]]
  BY <1>1, <1>4
<1>11. F \in [0 .. N -> Nat]
  BY <1>9, <1>10
<1>12. Sums(F, dims, i)
  BY <1>1, <1>7, <1>8, <1>11 DEF Sums, v
<1> QED
  BY <1>5, <1>12

LEMMA SumsUnique ==
  ASSUME NEW dims \in Seq(Nat), NEW i, NEW o, NEW p, Sums(o, dims, i), Sums(p, dims, i)
  PROVE  o[Len(dims)] = p[Len(dims)]
<1> DEFINE N == Len(dims)
           T == {n \in 0 .. N : o[n] = p[n]}
<1>1. N \in Nat
  OBVIOUS
<1>2. 0 \in T
  BY <1>1 DEF Sums
<1>3. ASSUME NEW n \in 1 .. N, n - 1 \in T PROVE n \in T
  <2>1. n \in 0 .. N /\ o[n - 1] = p[n - 1]
    BY <1>1, <1>3
  <2>2. /\ o[n] = o[n - 1] + Volume(dims)[n] * i[n]
        /\ p[n] = p[n - 1] + Volume(dims)[n] * i[n]
    BY DEF Sums
  <2> QED
    BY <2>1, <2>2
<1> HIDE DEF N, T
<1>4. 0 .. N \subseteq T
  BY <1>1, <1>2, <1>3, UpTo
<1>5. N \in T
  BY <1>1, <1>4
<1> QED
  BY <1>5 DEF T, N

\* Two products of natural numbers.
LEMMA ProductGrows ==
  ASSUME NEW a \in Nat, NEW b \in Nat, NEW c \in Nat, b <= c
  PROVE  a * b <= a * c
<1>1. PICK d \in Nat : c = b + d
  <2>1. c - b \in Nat /\ c = b + (c - b)
    OBVIOUS
  <2> QED
    BY <2>1
<1>2. a * c = a * b + a * d
  BY <1>1
<1>3. a * d \in Nat /\ a * b \in Nat
  BY ProductNat
<1> QED
  BY <1>2, <1>3

LEMMA RowFits ==
  ASSUME NEW a \in Nat, NEW b \in Nat, NEW c \in Nat, b < c
  PROVE  a * b \in Nat /\ a * b + a <= a * c
<1>1. b + 1 \in Nat /\ b + 1 <= c
  OBVIOUS
<1>2. a * (b + 1) <= a * c
  BY <1>1, ProductGrows
<1>3. a * (b + 1) = a * b + a
  OBVIOUS
<1> QED
  BY <1>2, <1>3, ProductNat

\* After n brackets the rest adds less than a row of n brackets has.
LEMMA RestIsSmall ==
  ASSUME NEW dims \in Seq(Nat), NEW i \in Indices(dims), NEW o, Sums(o, dims, i),
         NEW m \in 0 .. Len(dims), NEW n \in m .. Len(dims)
  PROVE  o[m] <= o[n] /\ o[n] + Volume(dims)[n] <= o[m] + Volume(dims)[m]
<1> DEFINE N == Len(dims)
           v == Volume(dims)
           T == {k \in 0 .. N - m : o[m] <= o[m + k] /\ o[m + k] + v[m + k] <= o[m] + v[m]}
<1>1. /\ N \in Nat /\ \A k \in 0 .. N : v[k] \in Nat /\ o[k] \in Nat
      /\ \A k \in 1 .. N : v[k - 1] = v[k] * dims[k] /\ dims[k] \in Nat
      /\ \A k \in 1 .. N : i[k] \in Nat /\ i[k] < dims[k]
      /\ \A k \in 1 .. N : o[k] = o[k - 1] + v[k] * i[k]
  BY VolumeFacts, IndicesAre DEF Sums
<1>0. m \in 0 .. N /\ n \in m .. N
  OBVIOUS
<1> HIDE DEF N, v
<1>2. 0 \in T
  BY <1>0, <1>1
<1>3. ASSUME NEW k \in 1 .. N - m, k - 1 \in T PROVE k \in T
  <2>1. /\ m + k \in 1 .. N /\ m + (k - 1) = (m + k) - 1 /\ (m + k) - 1 \in 0 .. N
        /\ m \in 0 .. N /\ m + k \in 0 .. N /\ k \in 0 .. N - m
    BY <1>0, <1>1
  <2> DEFINE j == m + k
  <2>2. o[m] <= o[j - 1] /\ o[j - 1] + v[j - 1] <= o[m] + v[m]
    BY <1>3, <2>1
  <2>3. /\ o[j] = o[j - 1] + v[j] * i[j] /\ v[j - 1] = v[j] * dims[j]
        /\ i[j] \in Nat /\ dims[j] \in Nat /\ i[j] < dims[j] /\ v[j] \in Nat
        /\ o[m] \in Nat /\ o[j] \in Nat /\ o[j - 1] \in Nat /\ v[m] \in Nat /\ v[j - 1] \in Nat
        /\ j \in Nat /\ m \in Nat
    BY <1>1, <2>1
  <2> HIDE DEF j
  <2> DEFINE x == v[j] * i[j]
  <2>4. x \in Nat /\ x + v[j] <= v[j - 1]
    <3>1. v[j] * i[j] \in Nat /\ v[j] * i[j] + v[j] <= v[j] * dims[j]
      BY <2>3, RowFits, Zenon
    <3> QED
      BY <2>3, <3>1, Zenon
  <2>5. o[j] = o[j - 1] + x
    BY <2>3
  <2>6. o[m] <= o[j] /\ o[j] + v[j] <= o[m] + v[m]
    <3>1. /\ o[m] \in Nat /\ o[j] \in Nat /\ o[j - 1] \in Nat /\ v[m] \in Nat /\ v[j] \in Nat /\ v[j - 1] \in Nat
      BY <2>3
    <3> HIDE DEF x
    <3>2. o[m] <= o[j]
      BY <2>2, <2>4, <2>5, <3>1
    <3>3. o[j] + v[j] = o[j - 1] + (x + v[j])
      BY <2>4, <2>5, <3>1
    <3>4. o[j] + v[j] <= o[j - 1] + v[j - 1]
      BY <2>4, <3>3, <3>1
    <3> QED
      BY <2>2, <3>1, <3>2, <3>4
  <2> QED
    BY <2>1, <2>6 DEF j
<1> HIDE DEF T
<1>4. 0 .. N - m \subseteq T
  <2>1. N - m \in Nat
    BY <1>0, <1>1
  <2> QED
    BY <2>1, <1>2, <1>3, UpTo
<1>5. n - m \in 0 .. N - m /\ m + (n - m) = n
  BY <1>0, <1>1
<1>6. n - m \in T
  BY <1>4, <1>5
<1> QED
  BY <1>5, <1>6 DEF T, v

-----------------------------------------------------------------------------
\* How many elements there are.
Size(dims) == Volume(dims)[0]

\* An offset is below the number of elements.
LEMMA OffsetInRange ==
  ASSUME NEW dims \in Seq(Nat), NEW i \in Indices(dims)
  PROVE  Offset(dims, i) \in 0 .. Size(dims) - 1
<1> DEFINE N == Len(dims)
<1>1. i \in [1 .. N -> Nat]
  BY IndicesAre
<1>2. PICK o : Sums(o, dims, i) /\ Offset(dims, i) = o[N]
  BY <1>1, OffsetIsSum
<1>3. N \in Nat /\ 0 \in 0 .. N /\ N \in 0 .. N
  OBVIOUS
<1>4. o[N] + Volume(dims)[N] <= o[0] + Volume(dims)[0]
  BY <1>2, <1>3, RestIsSmall
<1>5. o[0] = 0 /\ o[N] \in Nat
  BY <1>2, <1>3 DEF Sums
<1>6. Volume(dims)[N] = 1 /\ Volume(dims)[0] \in Nat
  BY <1>3, VolumeFacts
<1> QED
  BY <1>2, <1>4, <1>5, <1>6 DEF Size

\* An index that comes before another one has a smaller offset.
LEMMA OffsetsAreOrdered ==
  ASSUME NEW dims \in Seq(Nat), NEW i \in Indices(dims), NEW j \in Indices(dims), Contents!Before(i, j)
  PROVE  Offset(dims, i) < Offset(dims, j)
<1> DEFINE N == Len(dims)
           v == Volume(dims)
<1>1. /\ N \in Nat
      /\ i \in [1 .. N -> Nat] /\ j \in [1 .. N -> Nat]
      /\ \A k \in 0 .. N : v[k] \in Nat
      /\ v[N] = 1
  BY IndicesAre, VolumeFacts
<1>2. PICK k \in 1 .. N : i[k] < j[k] /\ \A l \in 1 .. k - 1 : i[l] = j[l]
  BY <1>1, Zenon DEF Contents!Before
<1>3. PICK o : Sums(o, dims, i) /\ Offset(dims, i) = o[N]
  BY <1>1, OffsetIsSum
<1>4. PICK p : Sums(p, dims, j) /\ Offset(dims, j) = p[N]
  BY <1>1, OffsetIsSum
<1>5. /\ k - 1 \in 0 .. N /\ k \in 0 .. N /\ N \in k .. N /\ k - 1 \in Nat
      /\ i[k] \in Nat /\ j[k] \in Nat /\ v[k] \in Nat
  BY <1>1, <1>2
<1>6. /\ \A n \in 0 .. N : o[n] \in Nat /\ p[n] \in Nat
      /\ o[0] = p[0]
      /\ \A n \in 1 .. N : o[n] = o[n - 1] + v[n] * i[n] /\ p[n] = p[n - 1] + v[n] * j[n]
  BY <1>3, <1>4 DEF Sums
<1> HIDE DEF N, v
<1>7. 0 .. k - 1 \subseteq {n \in 0 .. k - 1 : o[n] = p[n]}
  <2> DEFINE T == {n \in 0 .. k - 1 : o[n] = p[n]}
  <2>1. 0 \in T
    BY <1>5, <1>6
  <2>2. ASSUME NEW n \in 1 .. k - 1, n - 1 \in T PROVE n \in T
    <3>1. n \in 1 .. N /\ o[n - 1] = p[n - 1]
      BY <1>1, <2>2
    <3>2. i[n] = j[n]
      BY <1>2
    <3> QED
      BY <1>6, <3>1, <3>2
  <2> HIDE DEF T
  <2>3. 0 .. k - 1 \subseteq T
    BY <2>1, <2>2, <1>5, UpTo
  <2> QED
    BY <2>3 DEF T
<1>8. o[k - 1] = p[k - 1]
  BY <1>5, <1>7
<1>9. v[k] * i[k] \in Nat /\ v[k] * i[k] + v[k] <= v[k] * j[k] /\ v[k] * j[k] \in Nat
  BY <1>2, <1>5, RowFits, ProductNat, Zenon
<1>10. o[k] + v[k] <= p[k]
  <2> DEFINE x == v[k] * i[k]
             y == v[k] * j[k]
  <2>1. o[k] = o[k - 1] + x /\ p[k] = o[k - 1] + y
    BY <1>2, <1>6, <1>8
  <2>2. x \in Nat /\ y \in Nat /\ x + v[k] <= y /\ o[k - 1] \in Nat /\ v[k] \in Nat
    BY <1>5, <1>6, <1>9
  <2> HIDE DEF x, y
  <2> QED
    BY <2>1, <2>2
<1>11. o[N] + v[N] <= o[k] + v[k] /\ p[k] <= p[N]
  BY <1>3, <1>4, <1>5, RestIsSmall DEF N, v
<1>12. o[N] \in Nat /\ p[N] \in Nat /\ o[k] \in Nat /\ p[k] \in Nat
  BY <1>1, <1>5, <1>6
<1>13. o[N] < p[N]
  <2>1. v[N] = 1 /\ v[k] \in Nat
    BY <1>1, <1>5
  <2> QED
    BY <2>1, <1>10, <1>11, <1>12
<1> QED
  BY <1>3, <1>4, <1>13 DEF N

\* Of two indices one comes before the other.
LEMMA IndicesAreOrdered ==
  ASSUME NEW dims \in Seq(Nat), NEW i \in Indices(dims), NEW j \in Indices(dims), i # j
  PROVE  Contents!Before(i, j) \/ Contents!Before(j, i)
<1> DEFINE N == Len(dims)
           T == {k \in 1 .. N : i[k] # j[k]}
<1>1. N \in Nat /\ i \in [1 .. N -> Nat] /\ j \in [1 .. N -> Nat]
  BY IndicesAre
<1>2. T # {} /\ T \subseteq Nat
  BY <1>1
<1>3. PICK k \in T : \A l \in T : k <= l
  BY <1>2, LeastNumber
<1>4. \A l \in 1 .. k - 1 : i[l] = j[l] /\ j[l] = i[l]
  BY <1>1, <1>3
<1>5. i[k] < j[k] \/ j[k] < i[k]
  <2>1. i[k] \in Nat /\ j[k] \in Nat /\ i[k] # j[k]
    BY <1>1, <1>3
  <2> QED
    BY <2>1
<1>6. k \in DOMAIN i /\ k \in DOMAIN j
  BY <1>1
<1> QED
  BY <1>4, <1>5, <1>6, Zenon DEF Contents!Before

LEMMA OffsetsDiffer ==
  ASSUME NEW dims \in Seq(Nat), NEW i \in Indices(dims), NEW j \in Indices(dims),
         Offset(dims, i) = Offset(dims, j)
  PROVE  i = j
<1>1. SUFFICES ASSUME i # j PROVE FALSE
  OBVIOUS
<1>2. Contents!Before(i, j) \/ Contents!Before(j, i)
  BY <1>1, IndicesAreOrdered
<1>3. Offset(dims, i) < Offset(dims, j) \/ Offset(dims, j) < Offset(dims, i)
  BY <1>2, OffsetsAreOrdered
<1>4. Offset(dims, i) \in Nat /\ Offset(dims, j) \in Nat
  BY OffsetInRange, VolumeFacts
<1> QED
  BY <1>3, <1>4

\* Division, for a quotient that is bounded by a product.
LEMMA Quotient ==
  ASSUME NEW a \in Nat, NEW b \in Nat, NEW x \in Nat, x < a * b
  PROVE  \E q \in Nat : q < b /\ a * q <= x /\ x < a * q + a
<1> DEFINE T == {n \in 0 .. b : x < a * n}
<1>1. b \in T /\ T \subseteq Nat
  OBVIOUS
<1>2. PICK n \in T : \A m \in T : n <= m
  BY <1>1, LeastNumber
<1>3. n # 0
  <2>1. a * 0 = 0
    OBVIOUS
  <2> QED
    BY <1>2, <2>1
<1> DEFINE q == n - 1
<1>4. q \in Nat /\ q < b /\ q + 1 = n /\ q \in 0 .. b /\ ~ (n <= q)
  BY <1>2, <1>3
<1>5. ~ (x < a * q)
  BY <1>2, <1>4
<1>6. x < a * (q + 1)
  BY <1>2, <1>4
<1> HIDE DEF q
<1>7. a * (q + 1) = a * q + a /\ a * q \in Nat
  BY <1>4, ProductNat
<1>8. a * q <= x
  BY <1>5, <1>7
<1>9. x < a * q + a
  BY <1>6, <1>7
<1> QED
  BY <1>4, <1>8, <1>9

LEMMA Difference ==
  ASSUME NEW a \in Nat, NEW b \in Nat, NEW c \in Nat, b <= a, a < b + c
  PROVE  a - b \in Nat /\ a - b < c
  OBVIOUS

LEMMA DifferenceBack ==
  ASSUME NEW a \in Nat, NEW b \in Nat, NEW c \in Nat, NEW d \in Nat, d <= a - b, a - b < d + c
  PROVE  b + d <= a /\ a < (b + d) + c
  OBVIOUS

\* Each cell is reached.
LEMMA OffsetsReachAll ==
  ASSUME NEW dims \in Seq(Nat), NEW x \in 0 .. Size(dims) - 1
  PROVE  \E i \in Indices(dims) : Offset(dims, i) = x
<1> DEFINE N == Len(dims)
           v == Volume(dims)
           Reaches(n, i, o) == /\ o[0] = 0
                               /\ \A k \in 1 .. n : i[k] < dims[k] /\ o[k] = o[k - 1] + v[k] * i[k]
                               /\ o[n] <= x /\ x < o[n] + v[n]
           T == {n \in 0 .. N : \E i \in [1 .. n -> Nat], o \in [0 .. n -> Nat] : Reaches(n, i, o)}
<1>1. /\ N \in Nat /\ \A k \in 0 .. N : v[k] \in Nat
      /\ \A k \in 1 .. N : v[k - 1] = v[k] * dims[k] /\ dims[k] \in Nat
      /\ v[N] = 1
      /\ x \in Nat /\ x < v[0]
  BY VolumeFacts DEF Size
<1> HIDE DEF N, v
<1>2. 0 \in T
  <2>1. [k \in 1 .. 0 |-> 0] \in [1 .. 0 -> Nat] /\ [k \in 0 .. 0 |-> 0] \in [0 .. 0 -> Nat]
    OBVIOUS
  <2>2. Reaches(0, [k \in 1 .. 0 |-> 0], [k \in 0 .. 0 |-> 0])
    BY <1>1
  <2>3. 0 \in 0 .. N
    BY <1>1
  <2> QED
    BY <2>1, <2>2, <2>3, Zenon
<1>3. ASSUME NEW n \in 1 .. N, n - 1 \in T PROVE n \in T
  <2>1. PICK i \in [1 .. n - 1 -> Nat], o \in [0 .. n - 1 -> Nat] : Reaches(n - 1, i, o)
    BY <1>3
  <2>2. /\ n - 1 \in 0 .. n - 1 /\ n \in 0 .. N /\ n - 1 \in 0 .. N
        /\ v[n] \in Nat /\ dims[n] \in Nat /\ v[n - 1] \in Nat
        /\ o[n - 1] \in Nat
    BY <1>1, <2>1
  <2> DEFINE y == x - o[n - 1]
  <2>3. y \in Nat /\ y < v[n] * dims[n]
    <3>1. o[n - 1] <= x /\ x < o[n - 1] + v[n - 1]
      BY <2>1
    <3>2. y \in Nat /\ y < v[n - 1]
      <4>1. x \in Nat
        BY <1>1
      <4> QED
        BY <2>2, <3>1, <4>1, Difference
    <3>3. v[n - 1] = v[n] * dims[n]
      BY <1>1
    <3> QED
      BY <3>2, <3>3
  <2>4. PICK q \in Nat : q < dims[n] /\ v[n] * q <= y /\ y < v[n] * q + v[n]
    <3> HIDE DEF y
    <3> QED
      BY <2>2, <2>3, Quotient
  <2> DEFINE j == [k \in 1 .. n |-> IF k < n THEN i[k] ELSE q]
             z == v[n] * q
             p == [k \in 0 .. n |-> IF k < n THEN o[k] ELSE o[n - 1] + z]
  <2>5. z \in Nat /\ o[n - 1] + z \in Nat
    <3>1. z \in Nat
      BY <2>2, <2>4, ProductNat
    <3> HIDE DEF z
    <3> QED
      BY <2>2, <3>1
  <2>6. /\ o[n - 1] + z <= x
        /\ x < (o[n - 1] + z) + v[n]
    <3>1. z <= y /\ y < z + v[n]
      BY <2>4
    <3>2. x \in Nat
      BY <1>1
    <3> HIDE DEF z
    <3> QED
      BY <2>2, <2>5, <3>1, <3>2, DifferenceBack
  <2>7. j \in [1 .. n -> Nat]
    BY <2>1, <2>4
  <2>8. p \in [0 .. n -> Nat]
    <3> HIDE DEF z
    <3> QED
      BY <2>1, <2>5
  <2>9. ASSUME NEW k \in 1 .. n PROVE j[k] < dims[k] /\ p[k] = p[k - 1] + v[k] * j[k]
    <3>1. CASE k = n
      <4>1. p[k] = o[n - 1] + z /\ p[k - 1] = o[n - 1] /\ j[k] = q
        BY <3>1
      <4> QED
        BY <3>1, <4>1, <2>4
    <3>2. CASE k # n
      <4>1. k \in 1 .. n - 1 /\ k < n /\ k - 1 < n /\ k - 1 \in 0 .. n /\ k \in 0 .. n
        BY <3>2
      <4>2. i[k] < dims[k] /\ o[k] = o[k - 1] + v[k] * i[k]
        BY <2>1, <4>1
      <4>3. j[k] = i[k] /\ p[k] = o[k] /\ p[k - 1] = o[k - 1]
        BY <4>1
      <4> QED
        BY <4>2, <4>3
    <3> QED
      BY <3>1, <3>2
  <2>10. p[0] = 0 /\ p[n] = o[n - 1] + z
    BY <2>1
  <2> HIDE DEF j, p, z, y
  <2>11. Reaches(n, j, p)
    BY <2>6, <2>9, <2>10
  <2> HIDE DEF Reaches
  <2> QED
    BY <2>2, <2>7, <2>8, <2>11
<1> HIDE DEF T
<1>4. N \in T
  <2>1. 0 .. N \subseteq T
    BY <1>1, <1>2, <1>3, UpTo
  <2> QED
    BY <1>1, <2>1
<1>5. PICK i \in [1 .. N -> Nat], o \in [0 .. N -> Nat] : Reaches(N, i, o)
  BY <1>4 DEF T
<1>6. i \in Indices(dims)
  BY <1>5, IndicesAre DEF N
<1>7. Sums(o, dims, i)
  BY <1>5 DEF Sums, N, v
<1>8. o[N] = x
  BY <1>1, <1>5
<1>9. PICK p : Sums(p, dims, i) /\ Offset(dims, i) = p[N]
  BY <1>5, OffsetIsSum DEF N
<1>10. p[N] = o[N]
  BY <1>7, <1>9, SumsUnique DEF N
<1> QED
  BY <1>6, <1>8, <1>9, <1>10

-----------------------------------------------------------------------------
\* Counting by a one-to-one map to the numbers below n.
Counts(f, S, n) == /\ f \in [S -> 0 .. n - 1]
                   /\ \A a, b \in S : f[a] = f[b] => a = b
                   /\ \A x \in 0 .. n - 1 : \E a \in S : f[a] = x

LEMMA Counted ==
  ASSUME NEW S, NEW n \in Nat, NEW f, Counts(f, S, n)
  PROVE  IsFiniteSet(S) /\ Cardinality(S) = n
<1> DEFINE T == 0 .. n - 1
<1>1. IsFiniteSet(T) /\ Cardinality(T) = n
  <2>1. 0 \in Int /\ n - 1 \in Int
    OBVIOUS
  <2>2. IsFiniteSet(0 .. n - 1) /\ Cardinality(0 .. n - 1) = IF 0 > n - 1 THEN 0 ELSE n - 1 - 0 + 1
    BY <2>1, FS_Interval
  <2> QED
    BY <2>2
<1> HIDE DEF T
<1>2. f \in Injection(S, T)
  BY Zenon DEF Counts, Injection, IsInjective, T
<1>3. f \in Surjection(S, T)
  BY Zenon DEF Counts, Surjection, T
<1> QED
  BY <1>1, <1>2, <1>3, FS_Injection

\* There are as many indices as the product of the dims.
LEMMA IndicesAreCounted ==
  ASSUME NEW dims \in Seq(Nat)
  PROVE  IsFiniteSet(Indices(dims)) /\ Cardinality(Indices(dims)) = Size(dims) /\ Size(dims) \in Nat
<1>0. PICK f : f = [i \in Indices(dims) |-> Offset(dims, i)]
  OBVIOUS
<1>1. Size(dims) \in Nat
  <2>1. Len(dims) \in Nat /\ 0 \in 0 .. Len(dims)
    OBVIOUS
  <2> QED
    BY <2>1, VolumeFacts DEF Size
<1>2. f \in [Indices(dims) -> 0 .. Size(dims) - 1]
  BY <1>0, OffsetInRange
<1>3. \A i, j \in Indices(dims) : f[i] = f[j] => i = j
  BY <1>0, OffsetsDiffer
<1>4. \A x \in 0 .. Size(dims) - 1 : \E i \in Indices(dims) : f[i] = x
  BY <1>0, OffsetsReachAll
<1>5. Counts(f, Indices(dims), Size(dims))
  BY <1>2, <1>3, <1>4 DEF Counts
<1> QED
  BY <1>1, <1>5, Counted

LEMMA CardinalitiesAgree ==
  ASSUME NEW S
  PROVE  Contents!Cardinality(S) = Cardinality(S)
  BY Zenon DEF Contents!Cardinality, Cardinality

LEMMA IndicesAgree ==
  ASSUME NEW dims
  PROVE  Contents!Indices(dims) = Indices(dims)
  BY DEF Contents!Indices, Indices

\* An offset is the number of indices that come before.
LEMMA OffsetIsPlace ==
  ASSUME NEW dims \in Seq(Nat), NEW i \in Indices(dims)
  PROVE  Contents!Place(dims, i) = Offset(dims, i)
<1> DEFINE S == {j \in Indices(dims) : Contents!Before(j, i)}
           n == Offset(dims, i)
           f == [j \in S |-> Offset(dims, j)]
<1>1. Size(dims) \in Nat /\ n \in 0 .. Size(dims) - 1 /\ n \in Nat
  BY OffsetInRange, IndicesAreCounted
<1>2. ASSUME NEW j \in S PROVE Offset(dims, j) \in 0 .. n - 1
  <2>1. Offset(dims, j) \in Nat
    BY OffsetInRange, <1>1
  <2>2. Offset(dims, j) < n
    BY OffsetsAreOrdered
  <2> QED
    BY <1>1, <2>1, <2>2
<1>3. f \in [S -> 0 .. n - 1]
  BY <1>2
<1>4. \A a, b \in S : f[a] = f[b] => a = b
  BY OffsetsDiffer
<1>5. ASSUME NEW x \in 0 .. n - 1 PROVE \E a \in S : f[a] = x
  <2>1. x \in 0 .. Size(dims) - 1 /\ x \in Nat /\ x < n
    BY <1>1
  <2>2. PICK j \in Indices(dims) : Offset(dims, j) = x
    BY <2>1, OffsetsReachAll
  <2>3. j # i /\ ~ (n < Offset(dims, j))
    BY <1>1, <2>1, <2>2
  <2>4. Contents!Before(j, i)
    BY <2>3, IndicesAreOrdered, OffsetsAreOrdered
  <2> QED
    BY <2>2, <2>4
<1>6. Counts(f, S, n)
  BY <1>3, <1>4, <1>5, Zenon DEF Counts
<1>7. Cardinality(S) = n
  BY <1>1, <1>6, Counted
<1> QED
  BY <1>7, IndicesAgree, CardinalitiesAgree, Zenon DEF Contents!Place

-----------------------------------------------------------------------------
\* What NumElements multiplies.
Products(p, dims) == /\ p \in [0 .. Len(dims) -> Int]
                     /\ p[0] = 1
                     /\ \A n \in 1 .. Len(dims) : p[n] = ToInt(p[n - 1] * dims[n])

LEMMA ToIntIsInt ==
  ASSUME NEW x \in Int
  PROVE  /\ ToInt(x) \in Int
         /\ x <= IntMax => ToInt(x) = x
<1>1. IntMax \in Nat \ {0}
  BY LayoutAssumption
<1>2. 2 * (IntMax + 1) \in Nat \ {0}
  BY <1>1
<1>3. (x + IntMax + 1) % (2 * (IntMax + 1)) \in Int
  BY <1>1, <1>2
<1> QED
  BY <1>1, <1>3 DEF ToInt

LEMMA NumElementsIsProduct ==
  ASSUME NEW dims \in Seq(Nat)
  PROVE  \E p : Products(p, dims) /\ NumElements(dims) = p[Len(dims)]
<1> DEFINE N == Len(dims)
           Eq(f) == f = [n \in 0 .. Len(dims) |-> IF n = 0 THEN 1 ELSE ToInt(f[n - 1] * dims[n])]
           F == CHOOSE f : Eq(f)
<1>1. N \in Nat /\ N = Len(dims) /\ DOMAIN dims = 1 .. N /\ \A n \in 1 .. N : dims[n] \in Nat
  OBVIOUS
<1> HIDE DEF N
<1>2. ASSUME NEW x \in Int, NEW n \in 1 .. N PROVE ToInt(x * dims[n]) \in Int
  <2>1. x * dims[n] \in Int
    BY <1>1
  <2> QED
    BY <2>1, ToIntIsInt
<1>3. \E f : Eq(f)
  <2> DEFINE D == [p \in (1 .. N) \X Int |-> ToInt(p[2] * dims[p[1]])]
  <2>1. D \in [(1 .. N) \X Int -> Int]
    BY <1>2
  <2>2. PICK h \in [0 .. N -> Int] : Steps(h, 1, N, D)
    <3> HIDE DEF D
    <3> QED
      BY <2>1, <1>1, 1 \in Int, Recursion
  <2>3. ASSUME NEW n \in 0 .. N PROVE h[n] = IF n = 0 THEN 1 ELSE ToInt(h[n - 1] * dims[n])
    <3>1. CASE n = 0
      BY <2>2, <3>1 DEF Steps
    <3>2. CASE n # 0
      <4>1. n \in 1 .. N /\ n - 1 \in 0 .. N
        BY <1>1, <3>2
      <4>2. h[n] = D[<<n, h[n - 1]>>] /\ h[n - 1] \in Int
        BY <2>2, <4>1 DEF Steps
      <4>3. D[<<n, h[n - 1]>>] = ToInt(h[n - 1] * dims[n])
        BY <4>1, <4>2
      <4> QED
        BY <3>2, <4>2, <4>3
    <3> QED
      BY <3>1, <3>2
  <2>4. h = [n \in 0 .. N |-> h[n]]
    BY <2>2
  <2>5. Eq(h)
    BY <2>3, <2>4, <1>1
  <2> QED
    BY <2>5
<1>4. Eq(F)
  BY <1>3
<1>5. NumElements(dims) = F[Len(dims)]
  BY Zenon DEF NumElements
<1> HIDE DEF F
<1>6. ASSUME NEW n \in 0 .. N PROVE F[n] = IF n = 0 THEN 1 ELSE ToInt(F[n - 1] * dims[n])
  BY <1>1, <1>4
<1>7. F[0] = 1
  BY <1>1, <1>6
<1>8. ASSUME NEW n \in 1 .. N PROVE F[n] = ToInt(F[n - 1] * dims[n])
  <2>1. n \in 0 .. N /\ n # 0
    BY <1>1
  <2> QED
    BY <2>1, <1>6
<1>9. 0 .. N \subseteq {n \in 0 .. N : F[n] \in Int}
  <2> DEFINE T == {n \in 0 .. N : F[n] \in Int}
  <2>1. 0 \in T
    BY <1>1, <1>7
  <2>2. ASSUME NEW n \in 1 .. N, n - 1 \in T PROVE n \in T
    <3>1. n \in 0 .. N /\ F[n - 1] \in Int
      BY <1>1, <2>2
    <3> QED
      BY <3>1, <1>2, <1>8
  <2> HIDE DEF T
  <2>3. 0 .. N \subseteq T
    BY <2>1, <2>2, <1>1, UpTo
  <2> QED
    BY <2>3 DEF T
<1>10. F = [n \in 0 .. N |-> F[n]]
  BY <1>1, <1>4
<1>11. F \in [0 .. N -> Int]
  BY <1>9, <1>10
<1>12. Products(F, dims)
  BY <1>1, <1>7, <1>8, <1>11 DEF Products
<1> QED
  BY <1>5, <1>12

\* The count is right as long as it is an int, even if the product of some of the dims
\* overflows: then another one is zero.
LEMMA NumElementsCounts ==
  ASSUME NEW dims \in Seq(Nat), Size(dims) <= IntMax
  PROVE  NumElements(dims) = Size(dims)
<1> DEFINE N == Len(dims)
           v == Volume(dims)
<1>1. /\ N \in Nat /\ \A n \in 0 .. N : v[n] \in Nat
      /\ v[N] = 1
      /\ \A n \in 1 .. N : dims[n] \in Nat
      /\ IntMax \in Nat
  BY VolumeFacts, LayoutAssumption
<1>2. \A n \in 1 .. N : v[n - 1] = v[n] * dims[n]
  BY VolumeFacts
<1>3. PICK p : Products(p, dims) /\ NumElements(dims) = p[N]
  BY NumElementsIsProduct
<1>4. /\ p \in [0 .. N -> Int] /\ p[0] = 1
      /\ \A n \in 1 .. N : p[n] = ToInt(p[n - 1] * dims[n])
  BY <1>3 DEF Products
<1>5. Size(dims) = v[0] /\ v[0] \in Nat
  BY <1>1 DEF Size
<1> HIDE DEF N, v
<1>6. CASE v[0] = 0
  <2> DEFINE T == {n \in 0 .. N : v[n] # 0}
  <2>1. N \in T /\ T \subseteq Nat
    BY <1>1
  <2>2. PICK m \in T : \A n \in T : m <= n
    BY <2>1, LeastNumber
  <2>3. m \in 1 .. N /\ m - 1 \in 0 .. N /\ m \in Nat
    BY <1>1, <1>6, <2>2
  <2>4. v[m - 1] = 0
    <3>1. m - 1 \notin T
      BY <2>2, <2>3
    <3> QED
      BY <2>3, <3>1
  <2>5. v[m] \in Nat /\ v[m] # 0 /\ dims[m] \in Nat /\ 0 = v[m] * dims[m]
    BY <1>1, <1>2, <2>2, <2>3, <2>4
  <2>6. dims[m] = 0
    BY <2>5
  <2> DEFINE U == {k \in 0 .. N - m : p[m + k] = 0}
  <2>7. ASSUME NEW n \in 1 .. N, p[n - 1] = 0 \/ dims[n] = 0 PROVE p[n] = 0
    <3>1. p[n - 1] \in Int /\ dims[n] \in Int
      <4>1. n - 1 \in 0 .. N
        BY <1>1
      <4> QED
        BY <1>1, <1>4, <4>1
    <3>2. p[n - 1] * dims[n] = 0
      BY <2>7, <3>1
    <3>3. ToInt(0) = 0
      BY <1>1, ToIntIsInt
    <3> QED
      BY <1>4, <3>2, <3>3
  <2>8. 0 \in U
    <3>1. m + 0 = m /\ 0 \in 0 .. N - m
      BY <1>1, <2>3
    <3>2. p[m] = 0
      BY <2>3, <2>6, <2>7
    <3> QED
      BY <3>1, <3>2
  <2>9. ASSUME NEW k \in 1 .. N - m, k - 1 \in U PROVE k \in U
    <3>1. m + k \in 1 .. N /\ m + (k - 1) = (m + k) - 1 /\ k \in 0 .. N - m
      BY <1>1, <2>3
    <3>2. p[(m + k) - 1] = 0
      BY <2>9, <3>1
    <3>3. p[m + k] = 0
      BY <3>1, <3>2, <2>7
    <3> QED
      BY <3>1, <3>3
  <2> HIDE DEF U
  <2>10. 0 .. N - m \subseteq U
    <3>1. N - m \in Nat
      BY <1>1, <2>3
    <3> QED
      BY <3>1, <2>8, <2>9, UpTo
  <2>11. N - m \in U /\ m + (N - m) = N
    BY <1>1, <2>3, <2>10
  <2>12. p[N] = 0
    BY <2>11 DEF U
  <2> QED
    BY <1>3, <1>5, <1>6, <2>12
<1>7. CASE v[0] # 0
  <2> DEFINE T == {n \in 0 .. N : p[n] \in Nat /\ v[n] # 0 /\ p[n] * v[n] = v[0]}
  <2>1. 0 \in T
    BY <1>1, <1>4, <1>7
  <2>2. ASSUME NEW n \in 1 .. N, n - 1 \in T PROVE n \in T
    <3>1. /\ n \in 0 .. N /\ n - 1 \in 0 .. N /\ v[n] \in Nat /\ dims[n] \in Nat /\ v[n - 1] \in Nat
          /\ p[n - 1] \in Nat /\ v[n - 1] # 0
      BY <1>1, <2>2
    <3>2. v[n - 1] = v[n] * dims[n] /\ p[n - 1] * v[n - 1] = v[0]
      BY <1>2, <2>2
    <3>3. v[n] # 0
      BY <3>1, <3>2
    <3> DEFINE x == p[n - 1] * dims[n]
    <3>4. x \in Nat
      BY <3>1, ProductNat
    <3>5. x * v[n] = v[0]
      BY <3>1, <3>2
    <3> HIDE DEF x
    <3>6. x <= x * v[n]
      <4>1. 1 \in Nat /\ 1 <= v[n] /\ x * 1 = x
        BY <3>1, <3>3, <3>4
      <4>2. x * 1 <= x * v[n]
        BY <3>1, <3>4, <4>1, ProductGrows
      <4> QED
        BY <4>1, <4>2
    <3>7. x <= IntMax
      BY <1>1, <1>5, <3>4, <3>5, <3>6
    <3>8. p[n] = x
      BY <1>4, <3>4, <3>7, ToIntIsInt DEF x
    <3> QED
      BY <3>1, <3>3, <3>4, <3>5, <3>8
  <2> HIDE DEF T
  <2>3. 0 .. N \subseteq T
    BY <1>1, <2>1, <2>2, UpTo
  <2>4. p[N] \in Nat /\ p[N] * v[N] = v[0]
    BY <1>1, <2>3 DEF T
  <2>5. p[N] = v[0]
    BY <1>1, <2>4
  <2> QED
    BY <1>3, <1>5, <2>5
<1> QED
  BY <1>6, <1>7

-----------------------------------------------------------------------------
\* arange: what val is.
Vals(val, r) == /\ val \in [0 .. RangeSize(r) -> Int]
                /\ val[0] = 0
                /\ \A k \in 1 .. RangeSize(r) : val[k] = (val[k - 1] * Unit + r.step) \div Unit

LEMMA RangeFacts ==
  ASSUME NEW r \in Ranges
  PROVE  r.start \in Int /\ r.end \in Int /\ r.start <= r.end /\ r.step \in Nat \ {0} /\ Unit \in Nat \ {0}
  BY LayoutAssumption

LEMMA QuotientIsInt ==
  ASSUME NEW a \in Int, NEW b \in Nat \ {0}
  PROVE  a \div b \in Int /\ a * b \in Int
  OBVIOUS

LEMMA RangeDataIs ==
  ASSUME NEW r \in Ranges, RangeSize(r) \in Nat
  PROVE  \E val : /\ Vals(val, r)
                  /\ RangeData(r) = [k \in 1 .. RangeSize(r) |-> r.start + val[k - 1] * Unit]
<1> DEFINE N == RangeSize(r)
           Eq(f) == f = [k \in 0 .. RangeSize(r) |-> IF k = 0 THEN 0 ELSE (f[k - 1] * Unit + r.step) \div Unit]
           F == CHOOSE f : Eq(f)
<1>1. N \in Nat /\ N = RangeSize(r)
  OBVIOUS
<1> HIDE DEF N
<1>2. ASSUME NEW x \in Int PROVE (x * Unit + r.step) \div Unit \in Int
  <2>1. Unit \in Nat \ {0} /\ r.step \in Nat
    BY RangeFacts
  <2>2. x * Unit \in Int
    BY <2>1, QuotientIsInt
  <2>3. x * Unit + r.step \in Int
    BY <2>1, <2>2
  <2> QED
    BY <2>1, <2>3, QuotientIsInt
<1>3. \E f : Eq(f)
  <2> DEFINE D == [p \in (1 .. N) \X Int |-> (p[2] * Unit + r.step) \div Unit]
  <2>1. D \in [(1 .. N) \X Int -> Int]
    BY <1>2
  <2>2. PICK h \in [0 .. N -> Int] : Steps(h, 0, N, D)
    <3> HIDE DEF D
    <3> QED
      BY <2>1, <1>1, 0 \in Int, Recursion
  <2>3. ASSUME NEW n \in 0 .. N PROVE h[n] = IF n = 0 THEN 0 ELSE (h[n - 1] * Unit + r.step) \div Unit
    <3>1. CASE n = 0
      BY <2>2, <3>1 DEF Steps
    <3>2. CASE n # 0
      <4>1. n \in 1 .. N /\ n - 1 \in 0 .. N
        BY <1>1, <3>2
      <4>2. h[n] = D[<<n, h[n - 1]>>] /\ h[n - 1] \in Int
        BY <2>2, <4>1 DEF Steps
      <4>3. D[<<n, h[n - 1]>>] = (h[n - 1] * Unit + r.step) \div Unit
        BY <4>1, <4>2
      <4> QED
        BY <3>2, <4>2, <4>3
    <3> QED
      BY <3>1, <3>2
  <2>4. h = [n \in 0 .. N |-> h[n]]
    BY <2>2
  <2>5. Eq(h)
    BY <2>3, <2>4, <1>1
  <2> QED
    BY <2>5
<1>4. Eq(F)
  BY <1>3
<1>5. RangeData(r) = [k \in 1 .. RangeSize(r) |-> r.start + F[k - 1] * Unit]
  BY Zenon DEF RangeData
<1> HIDE DEF F
<1>6. ASSUME NEW n \in 0 .. N PROVE F[n] = IF n = 0 THEN 0 ELSE (F[n - 1] * Unit + r.step) \div Unit
  BY <1>1, <1>4
<1>7. F[0] = 0
  BY <1>1, <1>6
<1>8. ASSUME NEW n \in 1 .. N PROVE F[n] = (F[n - 1] * Unit + r.step) \div Unit
  <2>1. n \in 0 .. N /\ n # 0
    BY <1>1
  <2> QED
    BY <2>1, <1>6
<1>9. 0 .. N \subseteq {n \in 0 .. N : F[n] \in Int}
  <2> DEFINE T == {n \in 0 .. N : F[n] \in Int}
  <2>1. 0 \in T
    BY <1>1, <1>7
  <2>2. ASSUME NEW n \in 1 .. N, n - 1 \in T PROVE n \in T
    <3>1. n \in 0 .. N /\ F[n - 1] \in Int
      BY <1>1, <2>2
    <3> QED
      BY <3>1, <1>2, <1>8
  <2> HIDE DEF T
  <2>3. 0 .. N \subseteq T
    BY <2>1, <2>2, <1>1, UpTo
  <2> QED
    BY <2>3 DEF T
<1>10. F = [n \in 0 .. N |-> F[n]]
  BY <1>1, <1>4
<1>11. F \in [0 .. N -> Int]
  BY <1>9, <1>10
<1>12. Vals(F, r)
  BY <1>1, <1>7, <1>8, <1>11 DEF Vals
<1> QED
  BY <1>5, <1>12

LEMMA RangeDataType ==
  ASSUME NEW r \in Ranges, RangeSize(r) \in Nat
  PROVE  RangeData(r) \in [1 .. RangeSize(r) -> Int]
<1>1. PICK val : Vals(val, r) /\ RangeData(r) = [k \in 1 .. RangeSize(r) |-> r.start + val[k - 1] * Unit]
  BY RangeDataIs
<1>2. ASSUME NEW k \in 1 .. RangeSize(r) PROVE r.start + val[k - 1] * Unit \in Int
  <2>1. k - 1 \in 0 .. RangeSize(r)
    OBVIOUS
  <2>2. val[k - 1] \in Int
    BY <1>1, <2>1 DEF Vals
  <2>3. val[k - 1] * Unit \in Int
    BY <2>2, RangeFacts, QuotientIsInt
  <2> QED
    BY <2>3, RangeFacts
<1> QED
  BY <1>1, <1>2

-----------------------------------------------------------------------------
\* What the callers see to: the number of elements is an int, and a generic string
\* tensor is given as many strings as it has.  Models see to it that what they return is
\* contiguous.
CallersCount == /\ Careful
                /\ \A t \in Tensors : \A make \in Makes[t] : Cardinality(Indices(make.dims)) <= IntMax

LEMMA MakeFacts ==
  ASSUME CallersCount, NEW t \in Tensors, NEW make \in Makes[t]
  PROVE  /\ make.type \in {"number", "string"} /\ make.dims \in Seq(Nat)
         /\ Size(make.dims) \in Nat /\ Size(make.dims) <= IntMax
         /\ NumElements(make.dims) = Size(make.dims)
         /\ Cells(make) = Size(make.dims)
         /\ make \in UNION Range(Makes)
<1>1. make.type \in {"number", "string"} /\ make.dims \in Seq(Nat)
  BY MakesAssumption, ValuesAssumption
<1>2. Cardinality(Indices(make.dims)) = Size(make.dims) /\ Size(make.dims) \in Nat
  BY <1>1, IndicesAreCounted
<1>3. Size(make.dims) <= IntMax
  BY <1>2 DEF CallersCount
<1>4. NumElements(make.dims) = Size(make.dims)
  BY <1>1, <1>3, NumElementsCounts
<1>5. Cells(make) = Size(make.dims)
  BY <1>2, <1>4 DEF Cells
<1>6. make \in UNION Range(Makes)
  BY MakesAssumption DEF Range
<1> QED
  BY <1>1, <1>2, <1>3, <1>4, <1>5, <1>6

\* What a name can refer to: a cell for each index.
Buffer(t, x) ==
  \E make \in Makes[t] : x \in [kind : {make.kind}, type : {make.type}, dims : {make.dims},
                                data : [1 .. Size(make.dims) -> Cell]]

\* A function on 1 .. n is a sequence.
LEMMA FunctionIsSeq ==
  ASSUME NEW S, NEW n \in Nat, NEW f \in [1 .. n -> S]
  PROVE  f \in Seq(S) /\ Len(f) = n /\ SubSeq(f, 1, n) = f
<1>1. f \in Seq(S) /\ Len(f) = n
  OBVIOUS
<1>2. SubSeq(f, 1, n) = f
  BY <1>1, SubSeqFull
<1> QED
  BY <1>1, <1>2

LEMMA BufferFacts ==
  ASSUME CallersCount, NEW t \in Tensors, NEW x, Buffer(t, x)
  PROVE  /\ x.type \in {"number", "string"} /\ x.dims \in Seq(Nat)
         /\ Size(x.dims) \in Nat /\ Size(x.dims) <= IntMax
         /\ NumElements(x.dims) = Size(x.dims)
         /\ x.data \in [1 .. Size(x.dims) -> Cell] /\ Len(x.data) = Size(x.dims)
         /\ x = [kind |-> x.kind, type |-> x.type, dims |-> x.dims, data |-> x.data]
         /\ x # Null
<1>1. PICK make \in Makes[t] : x \in [kind : {make.kind}, type : {make.type}, dims : {make.dims},
                                      data : [1 .. Size(make.dims) -> Cell]]
  BY DEF Buffer
<1>2. x.type = make.type /\ x.dims = make.dims /\ x.kind = make.kind
  BY <1>1
<1>3. x.data \in [1 .. Size(x.dims) -> Cell]
  BY <1>1, <1>2
<1>4. x = [kind |-> x.kind, type |-> x.type, dims |-> x.dims, data |-> x.data]
  BY <1>1
<1>5. Size(make.dims) \in Nat /\ make \in UNION Range(Makes)
  BY MakeFacts
<1>6. x.data \in Seq(Cell) /\ Len(x.data) = Size(x.dims)
  BY <1>2, <1>3, <1>5, FunctionIsSeq
<1>7. x # Null
  <2>1. x \in [kind : {make.kind}, type : {make.type}, dims : {make.dims}, data : Seq(Cell)]
    BY <1>2, <1>4, <1>6
  <2>2. Null \notin [kind : {make.kind}, type : {make.type}, dims : {make.dims}, data : Seq(Cell)]
    BY <1>5, NullAssumption
  <2> QED
    BY <2>1, <2>2, Zenon
<1> QED
  BY <1>2, <1>3, <1>4, <1>6, <1>7, MakeFacts

LEMMA TensorIsBuffer ==
  ASSUME CallersCount, NEW t \in Tensors, NEW make \in Makes[t],
         NEW data \in [1 .. Size(make.dims) -> Cell]
  PROVE  Buffer(t, Tensor(make, data))
<1>1. Tensor(make, data) \in [kind : {make.kind}, type : {make.type}, dims : {make.dims},
                              data : [1 .. Size(make.dims) -> Cell]]
  BY DEF Tensor
<1> QED
  BY <1>1 DEF Buffer

LEMMA BufferKeepsData ==
  ASSUME CallersCount, NEW t \in Tensors, NEW x, Buffer(t, x), NEW data \in [1 .. Size(x.dims) -> Cell]
  PROVE  Buffer(t, [x EXCEPT !.data = data])
<1>1. PICK make \in Makes[t] : x \in [kind : {make.kind}, type : {make.type}, dims : {make.dims},
                                      data : [1 .. Size(make.dims) -> Cell]]
  BY DEF Buffer
<1>2. [x EXCEPT !.data = data] \in [kind : {make.kind}, type : {make.type}, dims : {make.dims},
                                    data : [1 .. Size(make.dims) -> Cell]]
  BY <1>1
<1> QED
  BY <1>2 DEF Buffer

\* The values that are set and filled in.
LEMMA ValuesAreCells ==
  /\ Values["number"] \subseteq Cell /\ Values["string"] \subseteq Cell /\ Int \subseteq Cell
  /\ Blank \in Cell /\ Unit \in Cell /\ 0 \in Cell
  BY ValuesAssumption, LayoutAssumption DEF Cell

\* The inductive invariant: each name refers to nothing or to a buffer with a cell for
\* each index.
BuffersFit == /\ tensor = [t \in Tensors |-> tensor[t]]
              /\ \A t \in Tensors : tensor[t] # Null => Buffer(t, tensor[t])

\* Steps that change one name, or none.
LEMMA Replaced ==
  ASSUME BuffersFit, NEW t \in Tensors, NEW x, x # Null => Buffer(t, x), Becomes(t, x)
  PROVE  BuffersFit'
<1>1. tensor' = [tensor EXCEPT ![t] = x]
  BY DEF Becomes
<1>2. tensor' = [u \in Tensors |-> tensor'[u]]
  BY <1>1 DEF BuffersFit
<1>3. ASSUME NEW u \in Tensors, tensor'[u] # Null PROVE Buffer(u, tensor'[u])
  BY <1>1, <1>3 DEF BuffersFit
<1> QED
  BY <1>2, <1>3 DEF BuffersFit

LEMMA Kept ==
  ASSUME BuffersFit, UNCHANGED tensor
  PROVE  BuffersFit'
  BY DEF BuffersFit, Buffer, Cell

-----------------------------------------------------------------------------
\* What each call leaves behind.
LEMMA AllocateFits ==
  ASSUME CallersCount, BuffersFit, NEW t \in Tensors, Allocate(t)
  PROVE  BuffersFit'
<1>1. PICK make \in Makes[t] :
        IF Allocates(make) THEN \E data \in Buffers(make) : Becomes(t, Tensor(make, data))
        ELSE Answers(t, "unsupported")
  BY DEF Allocate
<1>2. CASE Allocates(make)
  <2>1. PICK data \in Buffers(make) : Becomes(t, Tensor(make, data))
    BY <1>1, <1>2
  <2>2. data \in [1 .. Size(make.dims) -> Cell]
    BY <2>1, MakeFacts, ValuesAreCells DEF Buffers
  <2>3. Buffer(t, Tensor(make, data))
    BY <2>2, TensorIsBuffer
  <2> QED
    BY <2>1, <2>3, Replaced
<1>3. CASE ~ Allocates(make)
  BY <1>1, <1>3, Kept DEF Answers
<1> QED
  BY <1>2, <1>3

\* As many elements as a tensor has fit its buffer.
LEMMA ElementsFit ==
  ASSUME CallersCount, NEW t \in Tensors, NEW make \in Makes[t], NEW elements \in Vectors[make.type],
         Len(elements) = Cardinality(Indices(make.dims))
  PROVE  elements \in [1 .. Size(make.dims) -> Values[make.type]] /\ elements \in [1 .. Size(make.dims) -> Cell]
<1>1. make.type \in {"number", "string"} /\ make.dims \in Seq(Nat)
  BY MakeFacts
<1>2. elements \in Seq(Values[make.type])
  BY <1>1, ValuesAssumption
<1>3. Len(elements) = Size(make.dims)
  BY <1>1, IndicesAreCounted
<1>4. elements \in [1 .. Size(make.dims) -> Values[make.type]]
  BY <1>2, <1>3
<1>5. Values[make.type] \subseteq Cell
  BY <1>1, ValuesAreCells
<1> QED
  BY <1>4, <1>5

LEMMA WrapsFit ==
  ASSUME CallersCount, BuffersFit, NEW t \in Tensors, NEW make \in Makes[t], NEW elements \in Vectors[make.type],
         Len(elements) = Cardinality(Indices(make.dims)), Wraps(t, make, elements, elements)
  PROVE  BuffersFit'
<1>1. Buffer(t, Tensor(make, elements))
  BY ElementsFit, TensorIsBuffer
<1>2. tensor' = [tensor EXCEPT ![t] = Tensor(make, elements)]
  BY DEF Wraps
<1> HIDE DEF BuffersFit
<1>3. ASSUME NEW u \in Tensors, tensor'[u] # Null PROVE Buffer(u, tensor'[u])
  BY <1>1, <1>2, <1>3 DEF BuffersFit
<1>4. tensor' = [u \in Tensors |-> tensor'[u]]
  BY <1>2 DEF BuffersFit
<1> QED
  BY <1>3, <1>4 DEF BuffersFit

\* Both ways of wrapping leave the tensor with the elements for its memory.
LEMMA WrapIs ==
  ASSUME CallersCount, NEW t \in Tensors, Wrap(t) \/ WrapNative(t)
  PROVE  /\ ~ Holds(t)
         /\ \/ Answers(t, "unsupported")
            \/ \E make \in Makes[t] : \E elements \in Vectors[make.type] :
                 Len(elements) = Cardinality(Indices(make.dims)) /\ Wraps(t, make, elements, elements)
<1>1. CASE Wrap(t)
  <2>1. PICK make \in Makes[t] :
          /\ ~ Holds(t)
          /\ IF make.type = "string" THEN Answers(t, "unsupported")
             ELSE \E memory \in Vectors["number"] :
                    Len(memory) = Cardinality(Indices(make.dims)) /\ Wraps(t, make, memory, memory)
    BY <1>1 DEF Wrap
  <2>2. make.type = "string" \/ make.type = "number"
    BY MakeFacts
  <2> QED
    BY <2>1, <2>2
<1>2. CASE WrapNative(t)
  <2>1. PICK make \in Makes[t] : \E elements \in Vectors[make.type] :
          /\ ~ Holds(t)
          /\ Len(elements) = Cardinality(Indices(make.dims))
          /\ \E memory \in Memories(make, elements) : Wraps(t, make, memory, elements)
    BY <1>2 DEF WrapNative
  <2>2. PICK elements \in Vectors[make.type] :
          /\ ~ Holds(t)
          /\ Len(elements) = Cardinality(Indices(make.dims))
          /\ \E memory \in Memories(make, elements) : Wraps(t, make, memory, elements)
    BY <2>1
  <2>3. Memories(make, elements) = {elements}
    BY DEF Memories, CallersCount
  <2>4. Wraps(t, make, elements, elements)
    BY <2>2, <2>3
  <2> QED
    BY <2>2, <2>4
<1> QED
  BY <1>1, <1>2

LEMMA WrapFits ==
  ASSUME CallersCount, BuffersFit, NEW t \in Tensors, Wrap(t) \/ WrapNative(t)
  PROVE  BuffersFit'
<1>1. CASE Answers(t, "unsupported")
  BY <1>1, Kept DEF Answers
<1>2. CASE \E make \in Makes[t] : \E elements \in Vectors[make.type] :
             Len(elements) = Cardinality(Indices(make.dims)) /\ Wraps(t, make, elements, elements)
  BY <1>2, WrapsFit
<1> QED
  BY <1>1, <1>2, WrapIs

\* Every cell is filled: there is no rest.
LEMMA FilledIs ==
  ASSUME CallersCount, NEW t \in Tensors, NEW make \in Makes[t], NEW v \in Cell, NEW rest
  PROVE  Filled(make, v, rest) = [k \in 1 .. Size(make.dims) |-> v]
<1>1. Cells(make) = Size(make.dims) /\ NumElements(make.dims) = Size(make.dims) /\ Size(make.dims) \in Nat
  BY MakeFacts
<1> QED
  BY <1>1 DEF Filled

LEMMA FullFits ==
  ASSUME CallersCount, BuffersFit, NEW t \in Tensors, Full(t)
  PROVE  BuffersFit'
<1>1. PICK make \in Makes[t], v \in Values["number"] :
        \E rest \in Rest(make) : Becomes(t, Tensor(make, Filled(make, v, rest)))
  BY DEF Full
<1>2. PICK rest \in Rest(make) : Becomes(t, Tensor(make, Filled(make, v, rest)))
  BY <1>1
<1>3. v \in Cell
  BY <1>1, ValuesAreCells
<1>4. Filled(make, v, rest) = [k \in 1 .. Size(make.dims) |-> v]
  BY <1>3, FilledIs
<1>5. Buffer(t, Tensor(make, Filled(make, v, rest)))
  BY <1>3, <1>4, TensorIsBuffer
<1> QED
  BY <1>2, <1>5, Replaced

LEMMA EyeDataIs ==
  ASSUME CallersCount, NEW t \in Tensors, NEW make \in Makes[t], NEW rest
  PROVE  [k \in 1 .. Cells(make) |-> IF k \in Diagonal(make.dims) THEN Unit ELSE Filled(make, 0, rest)[k]]
         = [k \in 1 .. Size(make.dims) |-> IF k \in Diagonal(make.dims) THEN Unit ELSE 0]
<1>1. Cells(make) = Size(make.dims) /\ Size(make.dims) \in Nat
  BY MakeFacts
<1>2. Filled(make, 0, rest) = [k \in 1 .. Size(make.dims) |-> 0]
  BY FilledIs, ValuesAreCells
<1> QED
  BY <1>1, <1>2

LEMMA EyeFits ==
  ASSUME CallersCount, BuffersFit, NEW t \in Tensors, Eye(t)
  PROVE  BuffersFit'
<1>1. PICK make \in Makes[t] : \E rest \in Rest(make) :
        Becomes(t, Tensor(make, [k \in 1 .. Cells(make) |->
          IF k \in Diagonal(make.dims) THEN Unit ELSE Filled(make, 0, rest)[k]]))
  BY DEF Eye
<1> DEFINE data == [k \in 1 .. Size(make.dims) |-> IF k \in Diagonal(make.dims) THEN Unit ELSE 0]
<1>2. Becomes(t, Tensor(make, data))
  BY <1>1, EyeDataIs
<1>3. data \in [1 .. Size(make.dims) -> Cell]
  BY ValuesAreCells
<1>4. Buffer(t, Tensor(make, data))
  BY <1>3, TensorIsBuffer
<1> QED
  BY <1>2, <1>4, Replaced

\* A vector of n numbers.
LEMMA SizeOfRow ==
  ASSUME NEW n \in Nat
  PROVE  Size(<<n>>) = n
<1> DEFINE dims == <<n>>
<1>1. dims \in Seq(Nat) /\ Len(dims) = 1 /\ dims[1] = n
  OBVIOUS
<1> HIDE DEF dims
<1>2. /\ Volume(dims)[Len(dims)] = 1
      /\ \A m \in 1 .. Len(dims) : Volume(dims)[m - 1] = Volume(dims)[m] * dims[m]
  BY <1>1, VolumeFacts
<1>3. Volume(dims)[1] = 1 /\ Volume(dims)[0] = Volume(dims)[1] * dims[1]
  BY <1>1, <1>2
<1>4. Size(dims) = n
  BY <1>1, <1>3 DEF Size
<1> QED
  BY <1>4 DEF dims

LEMMA ArangeFits ==
  ASSUME CallersCount, BuffersFit, NEW t \in Tensors, Arange(t)
  PROVE  BuffersFit'
<1>1. PICK r \in Ranges, make \in Makes[t] :
        make.dims = <<RangeSize(r)>> /\ tensor' = [tensor EXCEPT ![t] = Tensor(make, RangeData(r))]
  BY DEF Arange
<1>2. make.dims \in Seq(Nat)
  BY MakeFacts
<1>3. RangeSize(r) \in Nat
  BY <1>1, <1>2
<1>4. Size(make.dims) = RangeSize(r)
  BY <1>1, <1>3, SizeOfRow
<1>5. RangeData(r) \in [1 .. Size(make.dims) -> Int]
  BY <1>3, <1>4, RangeDataType
<1>6. RangeData(r) \in [1 .. Size(make.dims) -> Cell]
  BY <1>5, ValuesAreCells
<1>7. Buffer(t, Tensor(make, RangeData(r)))
  BY <1>6, TensorIsBuffer
<1> HIDE DEF BuffersFit
<1>8. ASSUME NEW u \in Tensors, tensor'[u] # Null PROVE Buffer(u, tensor'[u])
  BY <1>1, <1>7, <1>8 DEF BuffersFit
<1>9. tensor' = [u \in Tensors |-> tensor'[u]]
  BY <1>1 DEF BuffersFit
<1> QED
  BY <1>8, <1>9 DEF BuffersFit

LEMMA SetFits ==
  ASSUME CallersCount, BuffersFit, NEW t \in Tensors, Holds(t),
         NEW i \in Indices(tensor[t].dims), NEW v \in Values[tensor[t].type], Set(t, i, v)
  PROVE  BuffersFit'
<1> DEFINE at == Offset(tensor[t].dims, i)
           data == [tensor[t].data EXCEPT ![at + 1] = v]
<1>1. Buffer(t, tensor[t])
  BY DEF BuffersFit, Holds
<1>2. /\ tensor[t].type \in {"number", "string"} /\ tensor[t].data \in [1 .. Size(tensor[t].dims) -> Cell]
      /\ tensor[t] = [kind |-> tensor[t].kind, type |-> tensor[t].type, dims |-> tensor[t].dims, data |-> tensor[t].data]
  BY <1>1, BufferFacts
<1>3. v \in Cell
  BY <1>2, ValuesAreCells
<1>4. data \in [1 .. Size(tensor[t].dims) -> Cell]
  BY <1>2, <1>3
<1>5. [tensor[t] EXCEPT !.data[at + 1] = v] = [tensor[t] EXCEPT !.data = data]
  BY <1>2
<1>6. Becomes(t, [tensor[t] EXCEPT !.data = data])
  BY <1>5 DEF Set
<1> HIDE DEF data
<1>7. Buffer(t, [tensor[t] EXCEPT !.data = data])
  BY <1>1, <1>4, BufferKeepsData
<1> QED
  BY <1>6, <1>7, Replaced

LEMMA OverwrittenIs ==
  ASSUME NEW n \in Nat, NEW data \in [1 .. n -> Cell], NEW S, NEW vector \in Seq(S), Len(vector) = n
  PROVE  Overwritten(data, vector) = vector
<1>1. DOMAIN data = 1 .. n /\ vector = [k \in 1 .. n |-> vector[k]]
  OBVIOUS
<1> QED
  BY <1>1 DEF Overwritten

\* The data that copy_from leaves are the vector.
LEMMA CopyFromIs ==
  ASSUME CallersCount, BuffersFit, NEW t \in Tensors, Holds(t),
         NEW vector \in Vectors[tensor[t].type], CopyFrom(t, vector)
  PROVE  \/ Len(vector) # Size(tensor[t].dims) /\ Answers(t, "wrong size")
         \/ Len(vector) = Size(tensor[t].dims) /\ Becomes(t, [tensor[t] EXCEPT !.data = vector])
<1>1. Buffer(t, tensor[t])
  BY DEF BuffersFit, Holds
<1>2. /\ tensor[t].type \in {"number", "string"} /\ Size(tensor[t].dims) \in Nat
      /\ tensor[t].data \in [1 .. Size(tensor[t].dims) -> Cell] /\ Len(tensor[t].data) = Size(tensor[t].dims)
      /\ Numel(t) = Size(tensor[t].dims)
      /\ tensor[t] = [kind |-> tensor[t].kind, type |-> tensor[t].type, dims |-> tensor[t].dims, data |-> tensor[t].data]
  BY <1>1, BufferFacts DEF Numel
<1>3. Expected(t) = Size(tensor[t].dims)
  BY <1>2 DEF Expected
<1>4. vector \in Seq(Values[tensor[t].type])
  BY <1>2, ValuesAssumption
<1>5. CASE tensor[t].kind = "generic" /\ tensor[t].type = "string"
  BY <1>2, <1>5 DEF CopyFrom, Callable, CallersCount
<1>6. CASE ~ (tensor[t].kind = "generic" /\ tensor[t].type = "string")
  <2>1. CASE Len(vector) # Expected(t)
    BY <1>3, <1>6, <2>1 DEF CopyFrom
  <2>2. CASE Len(vector) = Expected(t)
    <3>1. Becomes(t, [tensor[t] EXCEPT !.data = Overwritten(@, vector)])
      BY <1>6, <2>2 DEF CopyFrom
    <3>2. Overwritten(tensor[t].data, vector) = vector
      BY <1>2, <1>3, <1>4, <2>2, OverwrittenIs
    <3>3. [tensor[t] EXCEPT !.data = Overwritten(@, vector)] = [tensor[t] EXCEPT !.data = vector]
      BY <3>2
    <3> QED
      BY <1>3, <2>2, <3>1, <3>3
  <2> QED
    BY <2>1, <2>2
<1> QED
  BY <1>5, <1>6

LEMMA CopyFromFits ==
  ASSUME CallersCount, BuffersFit, NEW t \in Tensors, Holds(t),
         NEW vector \in Vectors[tensor[t].type], CopyFrom(t, vector)
  PROVE  BuffersFit'
<1>1. CASE Answers(t, "wrong size")
  BY <1>1, Kept DEF Answers
<1>2. CASE Len(vector) = Size(tensor[t].dims) /\ Becomes(t, [tensor[t] EXCEPT !.data = vector])
  <2>1. Buffer(t, tensor[t])
    BY DEF BuffersFit, Holds
  <2>2. tensor[t].type \in {"number", "string"} /\ Size(tensor[t].dims) \in Nat
    BY <2>1, BufferFacts
  <2>3. vector \in Seq(Values[tensor[t].type])
    BY <2>2, ValuesAssumption
  <2>4. vector \in [1 .. Size(tensor[t].dims) -> Cell]
    BY <1>2, <2>2, <2>3, ValuesAreCells
  <2>5. Buffer(t, [tensor[t] EXCEPT !.data = vector])
    BY <2>1, <2>4, BufferKeepsData
  <2> QED
    BY <1>2, <2>5, Replaced
<1> QED
  BY <1>1, <1>2, CopyFromIs

LEMMA BuffersFitInductive ==
  ASSUME CallersCount
  PROVE  /\ Init => BuffersFit
         /\ BuffersFit /\ [Next]_vars => BuffersFit'
<1>1. Init => BuffersFit
  BY DEF Init, BuffersFit
<1>2. ASSUME BuffersFit, UNCHANGED tensor PROVE BuffersFit'
  BY <1>2, Kept
<1>3. ASSUME BuffersFit, NEW t \in Tensors, Free(t) PROVE BuffersFit'
  BY <1>3, Replaced DEF Free
<1>4. ASSUME BuffersFit, Next PROVE BuffersFit'
  <2>1. PICK t \in Tensors :
          \/ Allocate(t) \/ Wrap(t) \/ WrapNative(t) \/ Full(t) \/ Eye(t) \/ Arange(t) \/ Free(t)
          \/ \E type \in DOMAIN Values, rank \in 1 .. 2 : Access(t, type, rank)
          \/ /\ Holds(t)
             /\ \/ \E i \in Indices(tensor[t].dims), v \in Values[tensor[t].type] : Set(t, i, v)
                \/ \E vector \in Vectors[tensor[t].type] : CopyFrom(t, vector)
          \/ GetDataAsVector(t) \/ Iterate(t) \/ AsScalar(t)
          \/ \E u \in Tensors : Compare(t, u)
    BY <1>4 DEF Next
  <2>2. CASE Allocate(t) \/ Wrap(t) \/ WrapNative(t) \/ Full(t) \/ Eye(t) \/ Arange(t) \/ Free(t)
    BY <1>4, <1>3, <2>2, AllocateFits, WrapFits, FullFits, EyeFits, ArangeFits
  <2>3. CASE \E type \in DOMAIN Values, rank \in 1 .. 2 : Access(t, type, rank)
    BY <1>2, <1>4, <2>3 DEF Access, Answers
  <2>4. CASE Holds(t) /\ \E i \in Indices(tensor[t].dims), v \in Values[tensor[t].type] : Set(t, i, v)
    BY <1>4, <2>4, SetFits
  <2>5. CASE Holds(t) /\ \E vector \in Vectors[tensor[t].type] : CopyFrom(t, vector)
    BY <1>4, <2>5, CopyFromFits
  <2>6. CASE GetDataAsVector(t) \/ Iterate(t) \/ AsScalar(t) \/ \E u \in Tensors : Compare(t, u)
    BY <1>2, <1>4, <2>6 DEF GetDataAsVector, Iterate, AsScalar, Compare, Returns, Answers
  <2> QED
    BY <2>1, <2>2, <2>3, <2>4, <2>5, <2>6
<1>5. ASSUME BuffersFit, UNCHANGED vars PROVE BuffersFit'
  BY <1>2, <1>5 DEF vars
<1> QED
  BY <1>1, <1>4, <1>5

LEMMA BuffersReachAll ==
  ASSUME CallersCount, BuffersFit
  PROVE  AccessorsReachAllCells
<1>1. SUFFICES ASSUME NEW t \in Tensors, Holds(t)
      PROVE  LET dims == tensor[t].dims
             IN /\ {Offset(dims, i) : i \in Indices(dims)} = 0 .. Len(tensor[t].data) - 1
                /\ \A i, j \in Indices(dims) : Offset(dims, i) = Offset(dims, j) => i = j
                /\ Len(tensor[t].data) = Numel(t)
  BY DEF AccessorsReachAllCells
<1> DEFINE dims == tensor[t].dims
<1>2. /\ dims \in Seq(Nat) /\ Size(dims) \in Nat
      /\ Len(tensor[t].data) = Size(dims) /\ Numel(t) = Size(dims)
  BY <1>1, BufferFacts DEF BuffersFit, Holds, Numel
<1> HIDE DEF dims
<1>3. \A i \in Indices(dims) : Offset(dims, i) \in 0 .. Size(dims) - 1
  BY <1>2, OffsetInRange
<1>4. \A c \in 0 .. Size(dims) - 1 : \E i \in Indices(dims) : Offset(dims, i) = c
  BY <1>2, OffsetsReachAll
<1>5. \A i, j \in Indices(dims) : Offset(dims, i) = Offset(dims, j) => i = j
  BY <1>2, OffsetsDiffer
<1>6. {Offset(dims, i) : i \in Indices(dims)} = 0 .. Size(dims) - 1
  BY <1>3, <1>4
<1> QED
  BY <1>2, <1>5, <1>6 DEF dims

\* However a tensor is made, filled, copied into and used, its accessors reach each cell
\* of its buffer by exactly one index and no cell outside, and get_num_elements counts
\* the cells: for all ranks, sizes and values whose callers count.
THEOREM EveryCellIsReached ==
  ASSUME CallersCount
  PROVE  Spec => []AccessorsReachAllCells
<1>1. Init => BuffersFit
  BY BuffersFitInductive
<1>2. BuffersFit /\ [Next]_vars => BuffersFit'
  BY BuffersFitInductive
<1>3. BuffersFit => AccessorsReachAllCells
  BY BuffersReachAll
<1> QED
  BY <1>1, <1>2, <1>3, PTL DEF Spec

-----------------------------------------------------------------------------
\* Rows of c elements each, one after the other.
Laid(s, rows, m, c) ==
  /\ DOMAIN s = 1 .. m * c
  /\ \A p \in 1 .. m * c : \E j \in 1 .. m, x \in 1 .. c : p = (j - 1) * c + x /\ s[p] = rows[j][x]

LEMMA RowAdded ==
  ASSUME NEW m \in Nat \ {0}, NEW c \in Nat
  PROVE  (m - 1) * c \in Nat /\ m * c = (m - 1) * c + c /\ m * c \in Nat
  OBVIOUS

LEMMA LaidNext ==
  ASSUME NEW S, NEW m \in Nat, NEW c \in Nat, NEW rows \in [1 .. m -> [1 .. c -> S]],
         NEW n \in 1 .. m, NEW s \in Seq(S), Laid(s, rows, n - 1, c)
  PROVE  s \o rows[n] \in Seq(S) /\ Laid(s \o rows[n], rows, n, c)
<1> DEFINE a == (n - 1) * c
           b == n * c
<1>1. a \in Nat /\ b = a + c /\ b \in Nat
  BY RowAdded
<1>2. rows[n] \in [1 .. c -> S]
  OBVIOUS
<1>3. rows[n] \in Seq(S) /\ Len(rows[n]) = c
  BY <1>2
<1>4. DOMAIN s = 1 .. a /\ Len(s) \in Nat /\ DOMAIN s = 1 .. Len(s)
  BY DEF Laid
<1>5. \A p \in 1 .. a : \E j \in 1 .. n - 1, x \in 1 .. c : p = (j - 1) * c + x /\ s[p] = rows[j][x]
  BY DEF Laid
<1> DEFINE row == (n - 1) * c
<1> HIDE DEF a, b
<1>6. Len(s) = a
  BY <1>1, <1>4
<1>7. /\ s \o rows[n] \in Seq(S) /\ Len(s \o rows[n]) = b
      /\ \A p \in 1 .. b : (s \o rows[n])[p] = IF p <= a THEN s[p] ELSE rows[n][p - a]
  BY <1>1, <1>3, <1>6, ConcatProperties
<1>8. DOMAIN (s \o rows[n]) = 1 .. b
  BY <1>7
<1>9. ASSUME NEW p \in 1 .. b
      PROVE  \E j \in 1 .. n, x \in 1 .. c : p = (j - 1) * c + x /\ (s \o rows[n])[p] = rows[j][x]
  <2>1. CASE p <= a
    <3>1. p \in 1 .. a
      BY <1>1, <2>1
    <3>2. PICK j \in 1 .. n - 1, x \in 1 .. c : p = (j - 1) * c + x /\ s[p] = rows[j][x]
      BY <1>5, <3>1
    <3>3. (s \o rows[n])[p] = s[p]
      BY <1>7, <2>1
    <3>4. j \in 1 .. n
      BY <3>2
    <3> QED
      BY <3>2, <3>3, <3>4
  <2>2. CASE ~ (p <= a)
    <3>1. p - a \in 1 .. c /\ p = a + (p - a) /\ n \in 1 .. n
      BY <1>1, <2>2
    <3>2. (s \o rows[n])[p] = rows[n][p - a]
      BY <1>7, <2>2
    <3>3. p = (n - 1) * c + (p - a)
      BY <3>1 DEF a
    <3> QED
      BY <3>1, <3>2, <3>3
  <2> QED
    BY <2>1, <2>2
<1>10. DOMAIN (s \o rows[n]) = 1 .. n * c
  BY <1>8 DEF b
<1>11. \A p \in 1 .. n * c : \E j \in 1 .. n, x \in 1 .. c : p = (j - 1) * c + x /\ (s \o rows[n])[p] = rows[j][x]
  BY <1>9 DEF b
<1> QED
  BY <1>7, <1>10, <1>11 DEF Laid

LEMMA FlattenSeqIs ==
  ASSUME NEW S, NEW m \in Nat, NEW c \in Nat, NEW rows \in [1 .. m -> [1 .. c -> S]]
  PROVE  FlattenSeq(rows) \in Seq(S) /\ Laid(FlattenSeq(rows), rows, m, c)
<1>1. Len(rows) = m /\ DOMAIN rows = 1 .. m
  OBVIOUS
<1>2. CASE m = 0
  <2>1. FlattenSeq(rows) = rows
    BY <1>1, <1>2 DEF FlattenSeq
  <2>2. rows = <<>>
    BY <1>1, <1>2
  <2>3. DOMAIN rows = 1 .. 0 * c
    BY <1>1, <1>2
  <2>4. \A p : p \notin 1 .. 0 * c
    OBVIOUS
  <2> QED
    BY <1>2, <2>1, <2>2, <2>3, <2>4 DEF Laid
<1>3. CASE m # 0
  <2> DEFINE Eq(f) == f = [i \in 1 .. Len(rows) |-> IF i = 1 THEN rows[i] ELSE f[i - 1] \o rows[i]]
             F == CHOOSE f : Eq(f)
  <2>1. FlattenSeq(rows) = F[m]
    BY Zenon, <1>1, <1>3 DEF FlattenSeq
  <2>2. ASSUME NEW n \in 1 .. m, NEW s \in Seq(S) PROVE s \o rows[n] \in Seq(S) /\ rows[n] \in Seq(S)
    <3>1. rows[n] \in [1 .. c -> S]
      OBVIOUS
    <3>2. rows[n] \in Seq(S)
      BY <3>1
    <3> QED
      BY <3>2, ConcatProperties
  <2>3. \E f : Eq(f)
    <3> DEFINE D == [q \in (1 .. m) \X Seq(S) |-> IF q[1] = 1 THEN rows[q[1]] ELSE q[2] \o rows[q[1]]]
    <3>1. D \in [(1 .. m) \X Seq(S) -> Seq(S)]
      <4>1. ASSUME NEW q \in (1 .. m) \X Seq(S)
            PROVE  (IF q[1] = 1 THEN rows[q[1]] ELSE q[2] \o rows[q[1]]) \in Seq(S)
        <5>1. q[1] \in 1 .. m /\ q[2] \in Seq(S)
          OBVIOUS
        <5> QED
          BY <5>1, <2>2
      <4> QED
        BY <4>1
    <3>2. PICK h \in [0 .. m -> Seq(S)] : Steps(h, <<>>, m, D)
      <4> HIDE DEF D
      <4>1. <<>> \in Seq(S)
        OBVIOUS
      <4> QED
        BY <3>1, <4>1, Recursion
    <3> DEFINE f == [n \in 1 .. m |-> h[n]]
    <3>3. ASSUME NEW n \in 1 .. m PROVE f[n] = IF n = 1 THEN rows[n] ELSE f[n - 1] \o rows[n]
      <4>1. n - 1 \in 0 .. m
        OBVIOUS
      <4>2. h[n] = D[<<n, h[n - 1]>>] /\ h[n - 1] \in Seq(S)
        BY <3>2, <4>1 DEF Steps
      <4>3. D[<<n, h[n - 1]>>] = IF n = 1 THEN rows[n] ELSE h[n - 1] \o rows[n]
        BY <4>2
      <4>4. CASE n = 1
        BY <4>2, <4>3, <4>4
      <4>5. CASE n # 1
        <5>1. n - 1 \in 1 .. m
          BY <4>5
        <5>2. f[n - 1] = h[n - 1] /\ f[n] = h[n]
          BY <5>1
        <5> QED
          BY <4>2, <4>3, <4>5, <5>2
      <4> QED
        BY <4>4, <4>5
    <3>4. Eq(f)
      <4> HIDE DEF f
      <4>1. f = [n \in 1 .. m |-> f[n]]
        BY DEF f
      <4> QED
        BY <1>1, <3>3, <4>1
    <3> QED
      BY <3>4
  <2>4. Eq(F)
    BY <2>3
  <2> HIDE DEF F
  <2>5. ASSUME NEW n \in 1 .. m PROVE F[n] = IF n = 1 THEN rows[n] ELSE F[n - 1] \o rows[n]
    BY <1>1, <2>4
  <2> DEFINE T == {n \in 0 .. m : n = 0 \/ (F[n] \in Seq(S) /\ Laid(F[n], rows, n, c))}
  <2>6. 0 \in T
    OBVIOUS
  <2>7. ASSUME NEW n \in 1 .. m, n - 1 \in T PROVE n \in T
    <3>1. CASE n = 1
      <4>1. F[n] = rows[1] /\ rows[1] \in [1 .. c -> S]
        BY <2>5, <3>1
      <4>2. F[n] \in Seq(S) /\ DOMAIN F[n] = 1 .. c /\ 1 * c = c
        BY <4>1
      <4>3. \A p \in 1 .. c : p = (1 - 1) * c + p
        OBVIOUS
      <4>4. Laid(F[n], rows, 1, c)
        BY <4>1, <4>2, <4>3 DEF Laid
      <4> QED
        BY <3>1, <4>2, <4>4
    <3>2. CASE n # 1
      <4>1. F[n - 1] \in Seq(S) /\ Laid(F[n - 1], rows, n - 1, c)
        BY <2>7, <3>2
      <4>2. F[n] = F[n - 1] \o rows[n]
        BY <2>5, <3>2
      <4> DEFINE s == F[n - 1]
      <4> HIDE DEF s
      <4>3. s \o rows[n] \in Seq(S) /\ Laid(s \o rows[n], rows, n, c)
        <5>1. s \in Seq(S) /\ Laid(s, rows, n - 1, c)
          BY <4>1 DEF s
        <5> QED
          BY <2>7, <5>1, LaidNext
      <4>4. F[n] \in Seq(S) /\ Laid(F[n], rows, n, c)
        BY <4>2, <4>3 DEF s
      <4> QED
        BY <4>4
    <3> QED
      BY <3>1, <3>2
  <2> HIDE DEF T
  <2>8. 0 .. m \subseteq T
    BY <2>6, <2>7, UpTo
  <2>9. m \in T
    BY <2>8
  <2> QED
    BY <1>3, <2>1, <2>9 DEF T
<1> QED
  BY <1>2, <1>3


-----------------------------------------------------------------------------
\* The first n brackets of the element with m rows of n brackets before it.
Prefix(s, n, dims, m) ==
  /\ s \in [1 .. n -> Nat]
  /\ \A k \in 1 .. n : s[k] < dims[k]
  /\ \E o \in [0 .. n -> Nat] : /\ o[0] = 0
                                /\ \A k \in 1 .. n : o[k] = o[k - 1] + Volume(dims)[k] * s[k]
                                /\ o[n] = m * Volume(dims)[n]

LEMMA Distributes ==
  ASSUME NEW a \in Nat, NEW b \in Nat, NEW c \in Nat, NEW d \in Nat
  PROVE  a * (b * c) + b * d = (a * c + d) * b /\ a * c + d \in Nat /\ b * d \in Nat /\ (a * c + d) * b \in Nat
<1>1. a * c \in Nat
  BY ProductNat
<1>2. a * (b * c) = (a * c) * b
  OBVIOUS
<1> DEFINE e == a * c
<1> HIDE DEF e
<1>3. e \in Nat
  BY <1>1 DEF e
<1>4. (e + d) * b = e * b + d * b /\ d * b = b * d
  BY <1>3
<1>5. b * d \in Nat /\ e + d \in Nat
  BY <1>3, ProductNat
<1>6. (e + d) * b \in Nat
  BY <1>5, ProductNat
<1> QED
  BY <1>2, <1>4, <1>5, <1>6 DEF e

LEMMA PrefixGrows ==
  ASSUME NEW dims \in Seq(Nat), NEW n \in 1 .. Len(dims), NEW s, NEW m \in Nat, Prefix(s, n - 1, dims, m),
         NEW x \in 0 .. dims[n] - 1
  PROVE  Prefix(Append(s, x), n, dims, m * dims[n] + x)
<1> DEFINE v == Volume(dims)
           q == Append(s, x)
<1>1. /\ n \in Nat /\ n - 1 \in Nat /\ dims[n] \in Nat /\ x \in Nat /\ x < dims[n]
      /\ v[n - 1] = v[n] * dims[n] /\ v[n] \in Nat
  BY VolumeFacts
<1>2. s \in [1 .. n - 1 -> Nat] /\ \A k \in 1 .. n - 1 : s[k] < dims[k]
  BY DEF Prefix
<1>3. PICK o \in [0 .. n - 1 -> Nat] : /\ o[0] = 0
                                       /\ \A k \in 1 .. n - 1 : o[k] = o[k - 1] + v[k] * s[k]
                                       /\ o[n - 1] = m * v[n - 1]
  BY DEF Prefix
<1>4. s \in Seq(Nat) /\ Len(s) = n - 1
  BY <1>1, <1>2
<1>5. /\ q \in [1 .. n -> Nat] /\ q[n] = x
      /\ \A k \in 1 .. n - 1 : q[k] = s[k]
  <2>1. q \in Seq(Nat) /\ Len(q) = n /\ q[n] = x /\ \A k \in 1 .. n - 1 : q[k] = s[k]
    BY <1>1, <1>4, AppendProperties
  <2> HIDE DEF q
  <2> HIDE DEF q
  <2>2. q \in [1 .. Len(q) -> Nat]
    BY <2>1, LenProperties
  <2> QED
    BY <2>1, <2>2
<1> HIDE DEF v, q
<1>6. ASSUME NEW k \in 1 .. n PROVE q[k] < dims[k]
  <2>1. CASE k = n
    BY <1>1, <1>5, <2>1
  <2>2. CASE k # n
    <3>1. k \in 1 .. n - 1
      BY <1>1, <2>2
    <3> QED
      BY <1>2, <1>5, <3>1
  <2> QED
    BY <2>1, <2>2
<1> DEFINE y == v[n] * x
           z == (m * dims[n] + x) * v[n]
           g == [k \in 0 .. n |-> IF k = n THEN z ELSE o[k]]
<1>7. o[n - 1] + y = z /\ z \in Nat
  <2>1. m * (v[n] * dims[n]) + v[n] * x = z /\ z \in Nat
    <3>1. x \in Nat
      BY <1>1
    <3>2. PICK b \in Nat : b = v[n]
      BY <1>1
    <3>3. PICK c \in Nat : c = dims[n]
      BY <1>1
    <3>4. m * (b * c) + b * x = (m * c + x) * b
      BY <3>1, Distributes
    <3>5. (m * c + x) * b \in Nat
      BY <3>1, Distributes
    <3> QED
      BY <3>2, <3>3, <3>4, <3>5, Zenon
  <2>2. o[n - 1] = m * (v[n] * dims[n])
    BY <1>1, <1>3
  <2> QED
    BY <2>1, <2>2, Zenon
<1>8. y = v[n] * q[n]
  BY <1>5
<1> HIDE DEF y, z
<1>9. g \in [0 .. n -> Nat] /\ g[0] = 0 /\ g[n] = z
  BY <1>1, <1>3, <1>7
<1>10. ASSUME NEW k \in 1 .. n PROVE g[k] = g[k - 1] + v[k] * q[k]
  <2>1. k - 1 \in 0 .. n /\ k \in 0 .. n /\ k - 1 # n
    BY <1>1
  <2>2. g[k - 1] = o[k - 1]
    BY <2>1
  <2>3. CASE k = n
    BY <1>7, <1>8, <1>9, <2>2, <2>3
  <2>4. CASE k # n
    <3>1. k \in 1 .. n - 1
      BY <1>1, <2>4
    <3>2. g[k] = o[k] /\ q[k] = s[k]
      BY <1>5, <2>1, <2>4, <3>1
    <3> QED
      BY <1>3, <2>2, <3>1, <3>2
  <2> QED
    BY <2>3, <2>4
<1> HIDE DEF g
<1>11. g[n] = (m * dims[n] + x) * v[n]
  BY <1>9 DEF z
<1> QED
  BY <1>5, <1>6, <1>9, <1>10, <1>11 DEF Prefix, v, q

LEMMA PrefixWhole ==
  ASSUME NEW dims \in Seq(Nat), NEW s, NEW m \in Nat, Prefix(s, Len(dims), dims, m)
  PROVE  s \in Indices(dims) /\ Offset(dims, s) = m
<1> DEFINE N == Len(dims)
<1>1. s \in [1 .. N -> Nat] /\ \A k \in 1 .. N : s[k] < dims[k]
  BY DEF Prefix
<1>2. s \in Indices(dims)
  BY <1>1, IndicesAre
<1>3. PICK o \in [0 .. N -> Nat] : /\ o[0] = 0
                                   /\ \A k \in 1 .. N : o[k] = o[k - 1] + Volume(dims)[k] * s[k]
                                   /\ o[N] = m * Volume(dims)[N]
  BY DEF Prefix
<1>4. Sums(o, dims, s)
  BY <1>3 DEF Sums
<1>5. PICK p : Sums(p, dims, s) /\ Offset(dims, s) = p[N]
  BY <1>1, OffsetIsSum
<1>6. Offset(dims, s) = o[N]
  BY <1>4, <1>5, SumsUnique
<1>7. Volume(dims)[N] = 1
  BY VolumeFacts
<1>8. o[N] = m * 1
  BY <1>3, <1>7
<1> QED
  BY <1>2, <1>6, <1>8

\* What the loops have visited after n of them: the prefixes of n brackets in order.
InOrder(s, n, dims) == s \in Seq(Seq(Nat)) /\ \A k \in DOMAIN s : Prefix(s[k], n, dims, k - 1)

\* One loop more.
Longer(s, d) == FlattenSeq([k \in DOMAIN s |-> [x \in 1 .. d |-> Append(s[k], x - 1)]])

LEMMA LongerLaid ==
  ASSUME NEW d \in Nat, NEW s \in Seq(Seq(Nat))
  PROVE  /\ Longer(s, d) \in Seq(Seq(Nat))
         /\ Laid(Longer(s, d), [k \in DOMAIN s |-> [x \in 1 .. d |-> Append(s[k], x - 1)]], Len(s), d)
<1> DEFINE rows == [k \in DOMAIN s |-> [x \in 1 .. d |-> Append(s[k], x - 1)]]
<1>1. Len(s) \in Nat /\ DOMAIN s = 1 .. Len(s)
  OBVIOUS
<1>2. ASSUME NEW k \in DOMAIN s, NEW x \in 1 .. d PROVE Append(s[k], x - 1) \in Seq(Nat)
  <2>1. s[k] \in Seq(Nat) /\ x - 1 \in Nat
    BY <1>1
  <2> QED
    BY <2>1, AppendProperties
<1>3. rows \in [1 .. Len(s) -> [1 .. d -> Seq(Nat)]]
  BY <1>1, <1>2
<1> HIDE DEF rows
<1>4. FlattenSeq(rows) \in Seq(Seq(Nat)) /\ Laid(FlattenSeq(rows), rows, Len(s), d)
  BY <1>1, <1>3, FlattenSeqIs
<1> QED
  BY <1>4 DEF rows, Longer

LEMMA InOrderNext ==
  ASSUME NEW dims \in Seq(Nat), NEW n \in 1 .. Len(dims), NEW s, InOrder(s, n - 1, dims)
  PROVE  InOrder(Longer(s, dims[n]), n, dims) /\ Len(Longer(s, dims[n])) = Len(s) * dims[n]
<1> DEFINE d == dims[n]
           rows == [k \in DOMAIN s |-> [x \in 1 .. d |-> Append(s[k], x - 1)]]
           z == Longer(s, d)
<1>1. s \in Seq(Seq(Nat)) /\ Len(s) \in Nat /\ DOMAIN s = 1 .. Len(s) /\ d \in Nat
  BY DEF InOrder
<1>2. \A k \in 1 .. Len(s) : Prefix(s[k], n - 1, dims, k - 1)
  BY <1>1 DEF InOrder
<1>3. z \in Seq(Seq(Nat)) /\ Laid(z, rows, Len(s), d)
  BY <1>1, LongerLaid
<1>4. Len(s) * d \in Nat
  BY <1>1, ProductNat
<1>5. \A k \in 1 .. Len(s), x \in 1 .. d : rows[k][x] = Append(s[k], x - 1)
  BY <1>1
<1> HIDE DEF z, rows
<1>6. DOMAIN z = 1 .. Len(s) * d
  BY <1>3 DEF Laid
<1>7. ASSUME NEW p \in DOMAIN z PROVE Prefix(z[p], n, dims, p - 1)
  <2>1. PICK k \in 1 .. Len(s), x \in 1 .. d : p = (k - 1) * d + x /\ z[p] = rows[k][x]
    BY <1>3, <1>6 DEF Laid
  <2>2. z[p] = Append(s[k], x - 1)
    BY <1>5, <2>1
  <2>3. k - 1 \in Nat /\ x - 1 \in 0 .. d - 1 /\ Prefix(s[k], n - 1, dims, k - 1)
    BY <1>1, <1>2, <2>1
  <2>4. Prefix(Append(s[k], x - 1), n, dims, (k - 1) * d + (x - 1))
    BY <2>3, PrefixGrows
  <2>5. (k - 1) * d \in Nat
    BY <1>1, <2>3, ProductNat
  <2> DEFINE a == (k - 1) * d
  <2>6. a + (x - 1) = p - 1
    <3>1. p = a + x /\ a \in Nat
      BY <2>1, <2>5
    <3> HIDE DEF a
    <3> QED
      BY <2>1, <3>1
  <2> QED
    BY <2>2, <2>4, <2>6
<1>8. Len(z) = Len(s) * d
  <2> DEFINE a == Len(s) * d
  <2>1. a \in Nat /\ DOMAIN z = 1 .. a
    BY <1>4, <1>6
  <2> HIDE DEF a
  <2>2. Len(z) = a
    BY <2>1, <1>3
  <2> QED
    BY <2>2 DEF a
<1> QED
  BY <1>3, <1>7, <1>8 DEF InOrder, z

LEMMA VisitedInOrder ==
  ASSUME NEW dims \in Seq(Nat)
  PROVE  InOrder(Visited(dims), Len(dims), dims) /\ Len(Visited(dims)) = Size(dims)
<1> DEFINE N == Len(dims)
           v == Volume(dims)
           Eq(f) == f = [n \in 0 .. Len(dims) |->
                           IF n = 0 THEN << <<>> >>
                           ELSE FlattenSeq([k \in DOMAIN f[n - 1] |->
                                  [x \in 1 .. dims[n] |-> Append(f[n - 1][k], x - 1)]])]
           F == CHOOSE f : Eq(f)
<1>1. N \in Nat /\ N = Len(dims) /\ \A n \in 1 .. N : dims[n] \in Nat
  OBVIOUS
<1>2. Visited(dims) = F[N]
  BY Zenon DEF Visited
<1> HIDE DEF N
<1>3. << <<>> >> \in Seq(Seq(Nat))
  OBVIOUS
<1>4. \E f : Eq(f)
  <2> DEFINE D == [q \in (1 .. N) \X Seq(Seq(Nat)) |-> Longer(q[2], dims[q[1]])]
  <2>1. D \in [(1 .. N) \X Seq(Seq(Nat)) -> Seq(Seq(Nat))]
    <3>1. ASSUME NEW q \in (1 .. N) \X Seq(Seq(Nat)) PROVE Longer(q[2], dims[q[1]]) \in Seq(Seq(Nat))
      <4>1. q[1] \in 1 .. N /\ q[2] \in Seq(Seq(Nat))
        OBVIOUS
      <4>2. dims[q[1]] \in Nat
        BY <1>1, <4>1
      <4> QED
        BY <4>1, <4>2, LongerLaid
    <3> QED
      BY <3>1
  <2>2. PICK h \in [0 .. N -> Seq(Seq(Nat))] : Steps(h, << <<>> >>, N, D)
    <3> HIDE DEF D
    <3> QED
      BY <2>1, <1>1, <1>3, Recursion
  <2>3. ASSUME NEW n \in 0 .. N PROVE h[n] = IF n = 0 THEN << <<>> >> ELSE Longer(h[n - 1], dims[n])
    <3>1. CASE n = 0
      BY <2>2, <3>1 DEF Steps
    <3>2. CASE n # 0
      <4>1. n \in 1 .. N /\ n - 1 \in 0 .. N
        BY <1>1, <3>2
      <4>2. h[n] = D[<<n, h[n - 1]>>] /\ h[n - 1] \in Seq(Seq(Nat))
        BY <2>2, <4>1 DEF Steps
      <4>3. D[<<n, h[n - 1]>>] = Longer(h[n - 1], dims[n])
        BY <4>1, <4>2
      <4> QED
        BY <3>2, <4>2, <4>3
    <3> QED
      BY <3>1, <3>2
  <2>4. h = [n \in 0 .. N |-> h[n]]
    BY <2>2
  <2>5. h = [n \in 0 .. N |-> IF n = 0 THEN << <<>> >> ELSE Longer(h[n - 1], dims[n])]
    BY <2>3, <2>4
  <2>6. Eq(h)
    BY <2>5, <1>1, Zenon DEF Longer
  <2> QED
    BY <2>6
<1>5. Eq(F)
  BY <1>4
<1>6. F = [n \in 0 .. N |-> IF n = 0 THEN << <<>> >> ELSE Longer(F[n - 1], dims[n])]
  BY <1>1, <1>5, Zenon DEF Longer
<1> HIDE DEF F
<1>7. F[0] = << <<>> >>
  BY <1>1, <1>6
<1>8. ASSUME NEW n \in 1 .. N PROVE F[n] = Longer(F[n - 1], dims[n])
  <2>1. n \in 0 .. N /\ n # 0
    BY <1>1
  <2> QED
    BY <1>6, <2>1
\* Its length is what the dims so far multiply to.
<1> DEFINE T == {n \in 0 .. N : InOrder(F[n], n, dims) /\ Len(F[n]) * v[n] = v[0]}
<1>9. 0 \in T
  <2>1. Prefix(<<>>, 0, dims, 0)
    <3> DEFINE o == [k \in 0 .. 0 |-> 0]
    <3>1. o \in [0 .. 0 -> Nat] /\ o[0] = 0
      OBVIOUS
    <3>2. <<>> \in [1 .. 0 -> Nat]
      OBVIOUS
    <3>3. 0 = 0 * Volume(dims)[0]
      BY VolumeFacts, <1>1
    <3>4. \A k \in 1 .. 0 : FALSE
      OBVIOUS
    <3> HIDE DEF o
    <3> QED
      BY <3>1, <3>2, <3>3, <3>4 DEF Prefix
  <2>2. DOMAIN << <<>> >> = {1} /\ Len(<< <<>> >>) = 1 /\ << <<>> >>[1] = <<>>
    OBVIOUS
  <2>3. InOrder(F[0], 0, dims)
    BY <1>3, <1>7, <2>1, <2>2 DEF InOrder
  <2>4. Len(F[0]) * v[0] = v[0]
    BY <1>1, <1>7, <2>2, VolumeFacts
  <2> QED
    BY <1>1, <2>3, <2>4
<1>10. ASSUME NEW n \in 1 .. N, n - 1 \in T PROVE n \in T
  <2>1. InOrder(F[n - 1], n - 1, dims) /\ Len(F[n - 1]) * v[n - 1] = v[0]
    BY <1>10
  <2>2. InOrder(F[n], n, dims) /\ Len(F[n]) = Len(F[n - 1]) * dims[n]
    BY <1>1, <1>8, <2>1, InOrderNext
  <2>3. v[n - 1] = v[n] * dims[n] /\ dims[n] \in Nat /\ v[n] \in Nat
    BY <1>1, VolumeFacts
  <2>4. Len(F[n - 1]) \in Nat
    BY <2>1 DEF InOrder
  <2>5. (Len(F[n - 1]) * dims[n]) * v[n] = Len(F[n - 1]) * (v[n] * dims[n])
    BY <2>3, <2>4
  <2>6. Len(F[n]) * v[n] = v[0]
    BY <2>1, <2>2, <2>3, <2>5
  <2> QED
    BY <1>1, <2>2, <2>6
<1> HIDE DEF T
<1>11. 0 .. N \subseteq T
  BY <1>1, <1>9, <1>10, UpTo
<1>12. N \in T
  BY <1>1, <1>11
<1>13. InOrder(F[N], N, dims) /\ Len(F[N]) * v[N] = v[0]
  BY <1>12 DEF T
<1>14. v[N] = 1
  BY <1>1, VolumeFacts
<1>15. Len(F[N]) \in Nat
  BY <1>13 DEF InOrder
<1>16. Len(F[N]) * 1 = v[0]
  BY <1>13, <1>14
<1>17. Len(F[N]) = v[0]
  BY <1>15, <1>16
<1> QED
  BY <1>1, <1>2, <1>13, <1>17 DEF Size

\* The loops over an accessor visit the elements in the order of the buffer.
LEMMA VisitedIs ==
  ASSUME NEW dims \in Seq(Nat)
  PROVE  /\ DOMAIN Visited(dims) = 1 .. Size(dims)
         /\ \A k \in 1 .. Size(dims) : Visited(dims)[k] \in Indices(dims) /\ Offset(dims, Visited(dims)[k]) = k - 1
<1>1. InOrder(Visited(dims), Len(dims), dims) /\ Len(Visited(dims)) = Size(dims)
  BY VisitedInOrder
<1>2. Visited(dims) \in Seq(Seq(Nat))
  BY <1>1 DEF InOrder
<1>3. DOMAIN Visited(dims) = 1 .. Size(dims)
  BY <1>1, <1>2
<1>4. ASSUME NEW k \in 1 .. Size(dims)
      PROVE  Visited(dims)[k] \in Indices(dims) /\ Offset(dims, Visited(dims)[k]) = k - 1
  <2>1. Prefix(Visited(dims)[k], Len(dims), dims, k - 1)
    BY <1>1, <1>3 DEF InOrder
  <2>2. k - 1 \in Nat
    OBVIOUS
  <2> QED
    BY <2>1, <2>2, PrefixWhole
<1> QED
  BY <1>3, <1>4

-----------------------------------------------------------------------------
\* The contents that a buffer stands for.
Value(x) == [i \in Indices(x.dims) |-> x.data[Offset(x.dims, i) + 1]]
Content(x) == IF x = Null THEN Null ELSE [type |-> x.type, dims |-> x.dims, value |-> Value(x)]
Mapped == [t \in Tensors |-> Content(tensor[t])]

LEMMA HoldsAgree ==
  ASSUME CallersCount, BuffersFit, NEW t \in Tensors
  PROVE  /\ Holds(t) <=> Contents!Holds(t)
         /\ Holds(t) <=> Mapped[t] # Null
         /\ Holds(t) => Buffer(t, tensor[t])
         /\ Holds(t) => Mapped[t] = [type |-> tensor[t].type, dims |-> tensor[t].dims, value |-> Value(tensor[t])]
<1>1. CASE tensor[t] = Null
  BY <1>1 DEF Holds, Contents!Holds, Mapped, Content
<1>2. CASE tensor[t] # Null
  <2> DEFINE x == tensor[t]
  <2>1. Buffer(t, x)
    BY <1>2 DEF BuffersFit
  <2>2. /\ x.dims \in Seq(Nat) /\ Size(x.dims) \in Nat /\ x.data \in [1 .. Size(x.dims) -> Cell]
    BY <2>1, BufferFacts
  <2>3. ASSUME NEW i \in Indices(x.dims) PROVE x.data[Offset(x.dims, i) + 1] \in Cell
    <3>1. Offset(x.dims, i) \in 0 .. Size(x.dims) - 1
      BY <2>2, OffsetInRange
    <3>2. Offset(x.dims, i) + 1 \in 1 .. Size(x.dims)
      BY <2>2, <3>1
    <3> QED
      BY <2>2, <3>2
  <2>4. Value(x) \in [Indices(x.dims) -> Cell]
    BY <2>3 DEF Value
  <2>5. PICK make \in Makes[t] : x.type = make.type /\ x.dims = make.dims
    BY <2>1 DEF Buffer
  <2>6. Null \notin [type : {make.type}, dims : {make.dims}, value : [Indices(make.dims) -> Cell]]
    BY NullAssumption, MakeFacts
  <2> DEFINE c == [type |-> x.type, dims |-> x.dims, value |-> Value(x)]
  <2>7. c \in [type : {make.type}, dims : {make.dims}, value : [Indices(make.dims) -> Cell]]
    BY <2>4, <2>5
  <2>8. c # Null
    BY <2>6, <2>7
  <2>9. Mapped[t] = c
    BY <1>2 DEF Mapped, Content
  <2>10. Contents!Holds(t)
    BY <1>2, <2>8 DEF Contents!Holds, Value
  <2> QED
    BY <1>2, <2>1, <2>8, <2>9, <2>10 DEF Holds
<1> QED
  BY <1>1, <1>2

\* A step that changes a buffer changes its contents.
LEMMA BecomesAgrees ==
  ASSUME BuffersFit, NEW t \in Tensors, NEW x, Becomes(t, x)
  PROVE  Contents!Becomes(t, Content(x))
<1>1. tensor' = [tensor EXCEPT ![t] = x] /\ answer' = <<t, "fine">> /\ items' = <<>>
  BY DEF Becomes
<1>2. tensor = [u \in Tensors |-> tensor[u]]
  BY DEF BuffersFit
<1>3. Mapped' = [Mapped EXCEPT ![t] = Content(x)]
  BY <1>1, <1>2 DEF Mapped, Content, Value
<1> QED
  BY <1>1, <1>3 DEF Contents!Becomes, Mapped, Content, Value

LEMMA KeepsAgree ==
  ASSUME UNCHANGED tensor
  PROVE  Mapped' = Mapped
  BY DEF Mapped, Content, Value

LEMMA AnswersAgree ==
  ASSUME NEW t \in Tensors, NEW a, Answers(t, a)
  PROVE  Contents!Answers(t, a)
<1>1. UNCHANGED tensor /\ answer' = <<t, a>> /\ items' = <<>>
  BY DEF Answers
<1> QED
  BY <1>1, KeepsAgree DEF Contents!Answers, Mapped, Content, Value

LEMMA ReturnsAgree ==
  ASSUME NEW t \in Tensors, NEW list, Returns(t, list)
  PROVE  Contents!Returns(t, list)
<1>1. UNCHANGED tensor /\ answer' = <<t, "items">> /\ items' = list
  BY DEF Returns
<1> QED
  BY <1>1, KeepsAgree DEF Contents!Returns, Mapped, Content, Value

-----------------------------------------------------------------------------
\* Rows and places.
LEMMA CountsAgree ==
  ASSUME NEW dims \in Seq(Nat)
  PROVE  Contents!Cardinality(Contents!Indices(dims)) = Size(dims) /\ Size(dims) \in Nat
<1>1. Contents!Cardinality(Contents!Indices(dims)) = Cardinality(Indices(dims))
  BY IndicesAgree, CardinalitiesAgree, Zenon
<1> QED
  BY <1>1, IndicesAreCounted

LEMMA ListedIs ==
  ASSUME NEW dims \in Seq(Nat), NEW S, NEW data \in [1 .. Size(dims) -> S]
  PROVE  Contents!Listed(dims, [i \in Indices(dims) |-> data[Offset(dims, i) + 1]]) = data
<1> DEFINE value == [i \in Indices(dims) |-> data[Offset(dims, i) + 1]]
           at(k) == CHOOSE i \in Contents!Indices(dims) : Contents!Place(dims, i) = k - 1
<1>1. Size(dims) \in Nat /\ Contents!Cardinality(Contents!Indices(dims)) = Size(dims)
  BY CountsAgree
<1>2. ASSUME NEW k \in 1 .. Size(dims) PROVE value[at(k)] = data[k]
  <2>1. k - 1 \in 0 .. Size(dims) - 1
    BY <1>1
  <2>2. PICK i \in Indices(dims) : Offset(dims, i) = k - 1
    BY <2>1, OffsetsReachAll
  <2>3. Contents!Place(dims, i) = k - 1 /\ i \in Contents!Indices(dims)
    BY <2>2, OffsetIsPlace, IndicesAgree
  <2>4. at(k) \in Contents!Indices(dims) /\ Contents!Place(dims, at(k)) = k - 1
    BY <2>3
  <2> HIDE DEF at
  <2>5. at(k) \in Indices(dims) /\ Offset(dims, at(k)) = k - 1
    BY <2>4, OffsetIsPlace, IndicesAgree
  <2>6. (k - 1) + 1 = k
    OBVIOUS
  <2> QED
    BY <2>5, <2>6
<1>3. Contents!Listed(dims, value) = [k \in 1 .. Size(dims) |-> value[at(k)]]
  BY <1>1, Zenon DEF Contents!Listed
<1> HIDE DEF value, at
<1>4. [k \in 1 .. Size(dims) |-> value[at(k)]] = data
  BY <1>2
<1> QED
  BY <1>3, <1>4 DEF value

LEMMA ArrangedIs ==
  ASSUME NEW dims \in Seq(Nat), NEW vector
  PROVE  Contents!Arranged(dims, vector) = [i \in Indices(dims) |-> vector[Offset(dims, i) + 1]]
<1>1. \A i \in Indices(dims) : Contents!Place(dims, i) = Offset(dims, i)
  BY OffsetIsPlace
<1>2. Contents!Indices(dims) = Indices(dims)
  BY IndicesAgree
<1> QED
  BY <1>1, <1>2 DEF Contents!Arranged

\* The cells at the indices of a tensor that has just been made.
LEMMA MadeIs ==
  ASSUME CallersCount, NEW t \in Tensors, NEW make \in Makes[t], NEW data \in [1 .. Size(make.dims) -> Cell]
  PROVE  /\ Content(Tensor(make, data)) =
              [type |-> make.type, dims |-> make.dims,
               value |-> [i \in Contents!Indices(make.dims) |-> data[Offset(make.dims, i) + 1]]]
         /\ \A i \in Indices(make.dims) : Offset(make.dims, i) + 1 \in 1 .. Size(make.dims)
         /\ make.dims \in {m.dims : m \in UNION Range(Makes)}
<1> DEFINE x == Tensor(make, data)
<1>1. Buffer(t, x)
  BY TensorIsBuffer
<1>2. x # Null
  BY <1>1, BufferFacts
<1>3. x.type = make.type /\ x.dims = make.dims /\ x.data = data
  BY DEF Tensor
<1> HIDE DEF x
<1>4. Content(x) = [type |-> make.type, dims |-> make.dims, value |-> Value(x)]
  BY <1>2, <1>3 DEF Content
<1>5. Value(x) = [i \in Contents!Indices(make.dims) |-> data[Offset(make.dims, i) + 1]]
  BY <1>3, IndicesAgree DEF Value
<1>6. make.dims \in Seq(Nat) /\ Size(make.dims) \in Nat /\ make \in UNION Range(Makes)
  BY MakeFacts
<1>7. ASSUME NEW i \in Indices(make.dims) PROVE Offset(make.dims, i) + 1 \in 1 .. Size(make.dims)
  <2>1. Offset(make.dims, i) \in 0 .. Size(make.dims) - 1
    BY <1>6, OffsetInRange
  <2> QED
    BY <1>6, <2>1
<1> QED
  BY <1>4, <1>5, <1>6, <1>7 DEF x

LEMMA NumberMade ==
  ASSUME CallersCount, BuffersFit, NEW t \in Tensors, ~ Holds(t), NEW make \in Makes[t], make.type = "number",
         NEW data \in [1 .. Size(make.dims) -> Values["number"]], Becomes(t, Tensor(make, data))
  PROVE  Contents!Allocate(t, make.dims) /\ make.dims \in {m.dims : m \in UNION Range(Makes)}
<1> DEFINE value == [i \in Contents!Indices(make.dims) |-> data[Offset(make.dims, i) + 1]]
<1>1. data \in [1 .. Size(make.dims) -> Cell]
  BY ValuesAreCells
<1>2. /\ Content(Tensor(make, data)) = [type |-> "number", dims |-> make.dims, value |-> value]
      /\ \A i \in Indices(make.dims) : Offset(make.dims, i) + 1 \in 1 .. Size(make.dims)
      /\ make.dims \in {m.dims : m \in UNION Range(Makes)}
  BY <1>1, MadeIs
<1>3. value \in [Contents!Indices(make.dims) -> Values["number"]]
  BY <1>2, IndicesAgree
<1>4. Contents!Becomes(t, Content(Tensor(make, data)))
  BY BecomesAgrees
<1> HIDE DEF value
<1>5. Contents!Becomes(t, Contents!Number(make.dims, value))
  BY <1>2, <1>4 DEF Contents!Number
<1>6. ~ Contents!Holds(t)
  BY HoldsAgree
<1> QED
  BY <1>2, <1>3, <1>5, <1>6 DEF Contents!Allocate

LEMMA AllocateAgrees ==
  ASSUME CallersCount, BuffersFit, NEW t \in Tensors, Allocate(t)
  PROVE  Contents!Next
<1>1. PICK make \in Makes[t] :
        /\ ~ Holds(t)
        /\ IF Allocates(make) THEN \E data \in Buffers(make) : Becomes(t, Tensor(make, data))
           ELSE Answers(t, "unsupported")
  BY DEF Allocate
<1>2. CASE Allocates(make)
  <2>1. PICK data \in Buffers(make) : Becomes(t, Tensor(make, data))
    BY <1>1, <1>2
  <2>2. CASE make.type = "number"
    <3>1. data \in [1 .. Size(make.dims) -> Values["number"]]
      BY <2>1, <2>2, MakeFacts DEF Buffers
    <3>2. Contents!Allocate(t, make.dims) /\ make.dims \in {m.dims : m \in UNION Range(Makes)}
      BY <1>1, <2>1, <2>2, <3>1, NumberMade
    <3> QED
      BY <3>2 DEF Contents!Next
  <2>3. CASE make.type = "string"
    <3> DEFINE value == [i \in Contents!Indices(make.dims) |-> Blank]
    <3>1. data \in [1 .. Size(make.dims) -> {Blank}]
      BY <2>1, <2>3, MakeFacts DEF Buffers
    <3>2. data \in [1 .. Size(make.dims) -> Cell]
      BY <3>1, ValuesAreCells
    <3>3. /\ Content(Tensor(make, data)) =
               [type |-> "string", dims |-> make.dims,
                value |-> [i \in Contents!Indices(make.dims) |-> data[Offset(make.dims, i) + 1]]]
          /\ \A i \in Indices(make.dims) : Offset(make.dims, i) + 1 \in 1 .. Size(make.dims)
          /\ make.dims \in {m.dims : m \in UNION Range(Makes)}
      BY <2>3, <3>2, MadeIs
    <3>4. [i \in Contents!Indices(make.dims) |-> data[Offset(make.dims, i) + 1]] = value
      BY <3>1, <3>3, IndicesAgree
    <3>5. Contents!Becomes(t, Content(Tensor(make, data)))
      BY <2>1, BecomesAgrees
    <3> HIDE DEF value
    <3>6. Contents!Becomes(t, Contents!String(make.dims, value))
      BY <3>3, <3>4, <3>5 DEF Contents!String
    <3>7. ~ Contents!Holds(t)
      BY <1>1, HoldsAgree
    <3>8. Contents!Allocate(t, make.dims)
      BY <3>6, <3>7 DEF Contents!Allocate, value
    <3> QED
      BY <3>3, <3>8 DEF Contents!Next
  <2> QED
    BY <2>2, <2>3, MakeFacts
<1>3. CASE ~ Allocates(make)
  <2>1. Contents!Refuse(t)
    BY <1>1, <1>3, HoldsAgree, AnswersAgree DEF Contents!Refuse
  <2> QED
    BY <2>1 DEF Contents!Next
<1> QED
  BY <1>2, <1>3

LEMMA WrapsAgree ==
  ASSUME CallersCount, BuffersFit, NEW t \in Tensors, ~ Holds(t), NEW make \in Makes[t],
         NEW elements \in Vectors[make.type],
         Len(elements) = Cardinality(Indices(make.dims)), Wraps(t, make, elements, elements)
  PROVE  Contents!Next
<1> DEFINE dims == make.dims
           value == Contents!Arranged(dims, elements)
           content == [type |-> make.type, dims |-> dims, value |-> value]
<1>1. dims \in Seq(Nat) /\ make.type \in {"number", "string"} /\ make \in UNION Range(Makes)
  BY MakeFacts
<1>2. elements \in [1 .. Size(dims) -> Cell]
  BY ElementsFit
<1>3. Content(Tensor(make, elements)) =
        [type |-> make.type, dims |-> dims,
         value |-> [i \in Contents!Indices(dims) |-> elements[Offset(dims, i) + 1]]]
  BY <1>2, MadeIs
<1>4. value = [i \in Contents!Indices(dims) |-> elements[Offset(dims, i) + 1]]
  BY <1>1, ArrangedIs, IndicesAgree
<1> HIDE DEF value
<1>5. Content(Tensor(make, elements)) = content
  BY <1>3, <1>4
<1>6. tensor' = [tensor EXCEPT ![t] = Tensor(make, elements)] /\ answer' = <<t, "wrapped">> /\ items' = elements
  BY DEF Wraps
<1>7. Mapped' = [Mapped EXCEPT ![t] = content]
  <2>1. tensor = [u \in Tensors |-> tensor[u]]
    BY DEF BuffersFit
  <2>2. Mapped' = [Mapped EXCEPT ![t] = Content(Tensor(make, elements))]
    BY <1>6, <2>1 DEF Mapped, Content, Value
  <2> QED
    BY <1>5, <2>2
<1>8. ~ Contents!Holds(t)
  BY HoldsAgree
<1>9. Len(elements) = Contents!Cardinality(Contents!Indices(dims))
  BY <1>1, CountsAgree, IndicesAreCounted
<1>10. Contents!Wrap(t, make.type, dims, elements)
  BY <1>6, <1>7, <1>8, <1>9, Zenon DEF Contents!Wrap, Mapped, Content, Value, value, content
<1>11. dims \in {m.dims : m \in UNION Range(Makes)} /\ make.type \in DOMAIN Values
  BY <1>1, ValuesAssumption
<1> QED
  BY <1>10, <1>11 DEF Contents!Next

LEMMA WrapAgrees ==
  ASSUME CallersCount, BuffersFit, NEW t \in Tensors, Wrap(t) \/ WrapNative(t)
  PROVE  Contents!Next
<1>1. ~ Holds(t)
  BY WrapIs
<1>2. CASE Answers(t, "unsupported")
  <2>1. Contents!Refuse(t)
    BY <1>1, <1>2, HoldsAgree, AnswersAgree DEF Contents!Refuse
  <2> QED
    BY <2>1 DEF Contents!Next
<1>3. CASE \E make \in Makes[t] : \E elements \in Vectors[make.type] :
             Len(elements) = Cardinality(Indices(make.dims)) /\ Wraps(t, make, elements, elements)
  BY <1>1, <1>3, WrapsAgree
<1> QED
  BY <1>2, <1>3, WrapIs

LEMMA FullAgrees ==
  ASSUME CallersCount, BuffersFit, NEW t \in Tensors, Full(t)
  PROVE  Contents!Next
<1>1. PICK make \in Makes[t], v \in Values["number"] :
        /\ ~ Holds(t) /\ make.type = "number"
        /\ \E rest \in Rest(make) : Becomes(t, Tensor(make, Filled(make, v, rest)))
  BY DEF Full, Fills
<1>2. PICK rest \in Rest(make) : Becomes(t, Tensor(make, Filled(make, v, rest)))
  BY <1>1
<1> DEFINE data == [k \in 1 .. Size(make.dims) |-> v]
           value == [i \in Contents!Indices(make.dims) |-> v]
<1>3. v \in Cell
  BY <1>1, ValuesAreCells
<1>4. Becomes(t, Tensor(make, data))
  BY <1>2, <1>3, FilledIs
<1>5. data \in [1 .. Size(make.dims) -> Cell]
  BY <1>3
<1>6. /\ Content(Tensor(make, data)) =
           [type |-> "number", dims |-> make.dims,
            value |-> [i \in Contents!Indices(make.dims) |-> data[Offset(make.dims, i) + 1]]]
      /\ \A i \in Indices(make.dims) : Offset(make.dims, i) + 1 \in 1 .. Size(make.dims)
      /\ make.dims \in {m.dims : m \in UNION Range(Makes)}
  <2> HIDE DEF data
  <2> QED
    BY <1>1, <1>5, MadeIs
<1>7. [i \in Contents!Indices(make.dims) |-> data[Offset(make.dims, i) + 1]] = value
  BY <1>6, IndicesAgree
<1> HIDE DEF data, value
<1>8. Contents!Becomes(t, Contents!Number(make.dims, value))
  BY <1>4, <1>6, <1>7, BecomesAgrees DEF Contents!Number
<1>9. Contents!Full(t, make.dims, v)
  BY <1>1, <1>8, HoldsAgree DEF Contents!Full, value
<1> QED
  BY <1>1, <1>6, <1>9 DEF Contents!Next

LEMMA EyeAgrees ==
  ASSUME CallersCount, BuffersFit, NEW t \in Tensors, Eye(t)
  PROVE  Contents!Next
<1>1. PICK make \in Makes[t] :
        /\ ~ Holds(t) /\ make.type = "number" /\ Len(make.dims) = 2
        /\ \E rest \in Rest(make) :
             Becomes(t, Tensor(make, [k \in 1 .. Cells(make) |->
               IF k \in Diagonal(make.dims) THEN Unit ELSE Filled(make, 0, rest)[k]]))
  BY DEF Eye, Fills
<1> DEFINE dims == make.dims
           data == [k \in 1 .. Size(dims) |-> IF k \in Diagonal(dims) THEN Unit ELSE 0]
           value == [i \in Contents!Indices(dims) |-> IF i[1] = i[2] THEN Unit ELSE 0]
<1>2. Becomes(t, Tensor(make, data))
  BY <1>1, EyeDataIs
<1>3. data \in [1 .. Size(dims) -> Cell]
  BY ValuesAreCells
<1>4. dims \in Seq(Nat)
  BY MakeFacts
<1>5. /\ Content(Tensor(make, data)) =
           [type |-> "number", dims |-> dims,
            value |-> [i \in Contents!Indices(dims) |-> data[Offset(dims, i) + 1]]]
      /\ \A i \in Indices(dims) : Offset(dims, i) + 1 \in 1 .. Size(dims)
      /\ dims \in {m.dims : m \in UNION Range(Makes)}
  <2> HIDE DEF data
  <2> QED
    BY <1>1, <1>3, MadeIs
\* The diagonal is where the two numbers of the index agree, as no other index has its cells.
<1>6. ASSUME NEW i \in Indices(dims) PROVE Offset(dims, i) + 1 \in Diagonal(dims) <=> i[1] = i[2]
  <2>1. ASSUME Offset(dims, i) + 1 \in Diagonal(dims) PROVE i[1] = i[2]
    <3>1. PICK j \in Indices(dims) : j[1] = j[2] /\ Offset(dims, i) + 1 = Offset(dims, j) + 1
      BY <2>1 DEF Diagonal
    <3>2. Offset(dims, i) \in 0 .. Size(dims) - 1 /\ Offset(dims, j) \in 0 .. Size(dims) - 1
      BY <1>4, <3>1, OffsetInRange
    <3>3. Offset(dims, i) = Offset(dims, j)
      BY <3>1, <3>2
    <3>4. i = j
      BY <1>4, <3>1, <3>3, OffsetsDiffer
    <3> QED
      BY <3>1, <3>4
  <2>2. i[1] = i[2] => Offset(dims, i) + 1 \in Diagonal(dims)
    BY DEF Diagonal
  <2> QED
    BY <2>1, <2>2
<1>7. [i \in Contents!Indices(dims) |-> data[Offset(dims, i) + 1]] = value
  <2>1. \A i \in Indices(dims) : data[Offset(dims, i) + 1] = IF i[1] = i[2] THEN Unit ELSE 0
    BY <1>5, <1>6
  <2> HIDE DEF data
  <2> QED
    BY <2>1, IndicesAgree
<1> HIDE DEF data, value
<1>8. Contents!Becomes(t, Contents!Number(dims, value))
  BY <1>2, <1>5, <1>7, BecomesAgrees DEF Contents!Number
<1>9. Contents!Eye(t, dims)
  BY <1>1, <1>8, HoldsAgree DEF Contents!Eye, value
<1> QED
  BY <1>5, <1>9 DEF Contents!Next

LEMMA FreeAgrees ==
  ASSUME CallersCount, BuffersFit, NEW t \in Tensors, Free(t)
  PROVE  Contents!Next
<1>1. Holds(t) /\ Becomes(t, Null)
  BY DEF Free
<1>2. Contents!Becomes(t, Content(Null)) /\ Content(Null) = Null
  BY <1>1, BecomesAgrees DEF Content
<1>3. Contents!Free(t)
  BY <1>1, <1>2, HoldsAgree DEF Contents!Free
<1> QED
  BY <1>3 DEF Contents!Next

LEMMA AccessAgrees ==
  ASSUME CallersCount, BuffersFit, NEW t \in Tensors, NEW type, NEW rank, Access(t, type, rank)
  PROVE  Contents!Next
<1>1. Contents!Misuse(t)
  BY HoldsAgree, AnswersAgree DEF Access, Contents!Misuse
<1> QED
  BY <1>1 DEF Contents!Next

-----------------------------------------------------------------------------
\* Division of integers.
LEMMA Division ==
  ASSUME NEW a \in Int, NEW b \in Nat \ {0}
  PROVE  b * (a \div b) <= a /\ a < b * (a \div b) + b /\ a \div b \in Int
  OBVIOUS

LEMMA ProductSign ==
  ASSUME NEW a \in Int, NEW b \in Nat \ {0}
  PROVE  /\ a >= 1 => b * a >= b
         /\ a <= -1 => b * a <= -b
         /\ a >= 0 => b * a >= 0
         /\ b * a \in Int
  OBVIOUS

LEMMA MultipleDivides ==
  ASSUME NEW q \in Int, NEW b \in Nat \ {0}
  PROVE  (q * b) \div b = q
<1> DEFINE a == q * b
           p == a \div b
           e == q - p
           x == b * p
           z == b * e
<1>1. a \in Int /\ p \in Int
  BY Division
<1>2. x <= a /\ a < x + b
  BY <1>1, Division
<1>3. z = a - x /\ e \in Int /\ x \in Int
  BY <1>1
<1>4. (e >= 1 => z >= b) /\ (e <= -1 => z <= -b) /\ z \in Int
  BY <1>3, ProductSign
<1> HIDE DEF a, x, z, e
<1>5. e = 0
  BY <1>1, <1>2, <1>3, <1>4
<1> HIDE DEF p
<1>6. p = q
  BY <1>1, <1>5 DEF e
<1> QED
  BY <1>6 DEF p, a

\* How many steps of p there are from s to e.
LEMMA StepsBefore ==
  ASSUME NEW s \in Int, NEW e \in Int, NEW p \in Nat \ {0}, NEW k \in Int
  PROVE  s + k * p < e <=> k < -((s - e) \div p)
<1> DEFINE q == (s - e) \div p
           z == p * (k + q)
           y == p * q
           x == k * p
<1>1. y <= s - e /\ s - e < y + p /\ q \in Int
  BY Division
<1>2. z = x + y /\ x \in Int /\ y \in Int
  BY <1>1
<1>3. (k + q >= 0 => z >= 0) /\ (k + q <= -1 => z <= -p) /\ z \in Int
  BY <1>1, ProductSign
<1> HIDE DEF x, y, z, q
<1>4. s + x < e <=> k < -q
  BY <1>1, <1>2, <1>3
<1> QED
  BY <1>4 DEF x, q

\* A range whose step is a whole number has that step.
LEMMA RangeOfWholeSteps ==
  ASSUME NEW r \in Ranges, RangeSize(r) \in Nat, Contents!Whole(r)
  PROVE  RangeData(r) = [k \in 1 .. RangeSize(r) |-> r.start + (k - 1) * r.step]
<1> DEFINE N == RangeSize(r)
<1>1. PICK val : Vals(val, r) /\ RangeData(r) = [k \in 1 .. RangeSize(r) |-> r.start + val[k - 1] * Unit]
  BY RangeDataIs
<1>2. PICK c \in 0 .. r.step : r.step = c * Unit
  BY DEF Contents!Whole
<1>3. Unit \in Nat \ {0}
  BY RangeFacts
<1>4. val \in [0 .. N -> Int] /\ val[0] = 0 /\ \A k \in 1 .. N : val[k] = (val[k - 1] * Unit + r.step) \div Unit
  BY <1>1 DEF Vals
<1>5. N \in Nat
  OBVIOUS
<1> HIDE DEF N
<1> DEFINE T == {k \in 0 .. N : val[k] = k * c}
<1>6. 0 \in T
  BY <1>2, <1>4, <1>5
<1>7. ASSUME NEW k \in 1 .. N, k - 1 \in T PROVE k \in T
  <2>1. k \in 0 .. N /\ k - 1 \in 0 .. N /\ val[k - 1] = (k - 1) * c
    BY <1>5, <1>7
  <2>2. val[k - 1] \in Int
    BY <1>4, <2>1
  <2> DEFINE y == val[k - 1]
  <2> HIDE DEF y
  <2>3. y * Unit + c * Unit = (y + c) * Unit /\ y + c \in Int
    BY <1>2, <1>3, <2>2 DEF y
  <2>4. ((y + c) * Unit) \div Unit = y + c
    BY <1>3, <2>3, MultipleDivides
  <2>5. val[k] = y + c
    BY <1>2, <1>4, <2>3, <2>4, Zenon DEF y
  <2>6. (k - 1) * c + c = k * c
    BY <1>2
  <2>7. val[k] = k * c
    BY <2>1, <2>5, <2>6, Zenon DEF y
  <2> QED
    BY <2>1, <2>7
<1> HIDE DEF T
<1>8. 0 .. N \subseteq T
  BY <1>5, <1>6, <1>7, UpTo
<1>9. ASSUME NEW k \in 1 .. N PROVE val[k - 1] * Unit = (k - 1) * r.step
  <2>1. k - 1 \in 0 .. N
    BY <1>5
  <2>2. val[k - 1] = (k - 1) * c
    BY <1>8, <2>1 DEF T
  <2>3. ((k - 1) * c) * Unit = (k - 1) * (c * Unit)
    BY <1>2, <1>3
  <2> QED
    BY <1>2, <2>2, <2>3, Zenon
<1> QED
  BY <1>1, <1>9 DEF N

\* The numbers before the end of a range.
LEMMA TermsAre ==
  ASSUME NEW r \in Ranges, RangeSize(r) \in Nat
  PROVE  Contents!Cardinality(Contents!Terms(r)) = RangeSize(r)
<1> DEFINE n == RangeSize(r)
           d == r.end - r.start
<1>1. r.start \in Int /\ r.end \in Int /\ r.start <= r.end /\ r.step \in Nat \ {0} /\ d \in Nat /\ n \in Nat
  BY RangeFacts
<1>2. ASSUME NEW k \in Nat PROVE r.start + k * r.step < r.end <=> k < n
  BY <1>1, StepsBefore DEF RangeSize
<1>3. ASSUME NEW k \in Nat, k < n PROVE k \in 0 .. d
  <2> DEFINE x == k * r.step
  <2>1. r.start + x < r.end
    BY <1>2, <1>3
  <2>2. x \in Nat /\ k <= x
    <3>1. PICK p \in Nat : r.step = p + 1
      <4>1. r.step - 1 \in Nat /\ r.step = (r.step - 1) + 1
        BY <1>1
      <4> QED
        BY <4>1
    <3>2. k * (p + 1) = k * p + k /\ k * p \in Nat
      BY <3>1, ProductNat
    <3> QED
      BY <3>1, <3>2
  <2> HIDE DEF x
  <2> QED
    BY <1>1, <2>1, <2>2
<1> DEFINE S == {k \in 0 .. d : Contents!Term(r, k) < r.end}
<1> HIDE DEF n
<1>4. S = 0 .. n - 1
  <2>1. ASSUME NEW k \in S PROVE k \in 0 .. n - 1
    <3>1. k \in Nat /\ r.start + k * r.step < r.end
      BY DEF Contents!Term
    <3>2. k < n
      BY <1>2, <3>1
    <3> QED
      BY <1>1, <3>1, <3>2
  <2>2. ASSUME NEW k \in 0 .. n - 1 PROVE k \in S
    <3>1. k \in Nat /\ k < n
      BY <1>1
    <3>2. k \in 0 .. d /\ r.start + k * r.step < r.end
      BY <1>2, <1>3, <3>1
    <3> QED
      BY <3>2 DEF Contents!Term
  <2> QED
    BY <2>1, <2>2
<1>5. Contents!Terms(r) = S
  BY Zenon DEF Contents!Terms
<1> HIDE DEF S
<1>6. Cardinality(0 .. n - 1) = n
  <2>1. 0 \in Int /\ n - 1 \in Int
    BY <1>1
  <2>2. Cardinality(0 .. n - 1) = IF 0 > n - 1 THEN 0 ELSE n - 1 - 0 + 1
    BY <2>1, FS_Interval
  <2> QED
    BY <1>1, <2>2
<1>7. Contents!Cardinality(Contents!Terms(r)) = Cardinality(0 .. n - 1)
  BY <1>4, <1>5, CardinalitiesAgree, Zenon
<1> QED
  BY <1>6, <1>7 DEF n

\* The cell of an index of a row.
LEMMA RowOffset ==
  ASSUME NEW n \in Nat, NEW i \in Indices(<<n>>)
  PROVE  Offset(<<n>>, i) = i[1] /\ i[1] \in Nat
<1> DEFINE dims == <<n>>
<1>1. dims \in Seq(Nat) /\ Len(dims) = 1
  OBVIOUS
<1> HIDE DEF dims
<1>2. i \in [1 .. 1 -> Nat]
  BY <1>1, IndicesAre DEF dims
<1>3. PICK o : Sums(o, dims, i) /\ Offset(dims, i) = o[Len(dims)]
  BY <1>1, <1>2, OffsetIsSum
<1>4. o[0] = 0 /\ o[1] = o[0] + Volume(dims)[1] * i[1]
  BY <1>1, <1>3 DEF Sums
<1>5. Volume(dims)[1] = 1
  BY <1>1, VolumeFacts
<1>6. o[1] = i[1] /\ i[1] \in Nat
  BY <1>2, <1>4, <1>5
<1> QED
  BY <1>1, <1>3, <1>6 DEF dims

\* What is promised of the numbers of a range.
LEMMA RangeNumbers ==
  ASSUME NEW r \in Ranges, RangeSize(r) \in Nat, NEW k \in 1 .. RangeSize(r), k = 1 \/ Contents!Whole(r)
  PROVE  RangeData(r)[k] = Contents!Term(r, k - 1)
<1>1. CASE Contents!Whole(r)
  <2>1. RangeData(r)[k] = r.start + (k - 1) * r.step
    BY <1>1, RangeOfWholeSteps, Zenon
  <2> QED
    BY <2>1 DEF Contents!Term
<1>2. CASE k = 1
  <2>1. PICK val : Vals(val, r) /\ RangeData(r) = [j \in 1 .. RangeSize(r) |-> r.start + val[j - 1] * Unit]
    BY RangeDataIs
  <2>2. val[k - 1] = 0
    BY <1>2, <2>1 DEF Vals
  <2>3. RangeData(r)[k] = r.start + val[k - 1] * Unit
    BY <2>1, Zenon
  <2>4. r.start \in Int /\ r.step \in Int /\ Unit \in Int
    BY RangeFacts
  <2> QED
    BY <1>2, <2>2, <2>3, <2>4 DEF Contents!Term
<1> QED
  BY <1>1, <1>2

LEMMA ArangeAgrees ==
  ASSUME CallersCount, BuffersFit, NEW t \in Tensors, Arange(t)
  PROVE  Contents!Next
<1>1. PICK r \in Ranges, make \in Makes[t] :
        /\ ~ Holds(t) /\ make.type = "number" /\ make.dims = <<RangeSize(r)>>
        /\ tensor' = [tensor EXCEPT ![t] = Tensor(make, RangeData(r))]
        /\ answer' = <<t, "range">> /\ items' = RangeData(r)
  BY DEF Arange
<1> DEFINE n == RangeSize(r)
           dims == <<n>>
           data == RangeData(r)
           value == Contents!Arranged(dims, data)
<1>2. make.dims \in Seq(Nat) /\ make.dims = dims
  BY <1>1, MakeFacts
<1>3. n \in Nat /\ dims \in Seq(Nat)
  BY <1>2
<1>4. Size(dims) = n /\ Size(make.dims) = n
  BY <1>2, <1>3, SizeOfRow
<1>5. data \in [1 .. Size(dims) -> Int]
  BY <1>3, <1>4, RangeDataType
<1>6. \A k \in 1 .. n : k = 1 \/ Contents!Whole(r) => data[k] = Contents!Term(r, k - 1)
  BY <1>3, RangeNumbers
<1>7. Contents!Cardinality(Contents!Terms(r)) = n
  BY <1>3, TermsAre
<1> HIDE DEF data, n
<1>8. data \in [1 .. Size(make.dims) -> Cell]
  BY <1>4, <1>5, ValuesAreCells
<1>9. Content(Tensor(make, data)) =
        [type |-> "number", dims |-> make.dims,
         value |-> [i \in Contents!Indices(make.dims) |-> data[Offset(make.dims, i) + 1]]]
  BY <1>1, <1>8, MadeIs
<1>10. dims[1] = n /\ dims = <<Contents!Cardinality(Contents!Terms(r))>>
  BY <1>7
<1> HIDE DEF dims
<1>11. [i \in Contents!Indices(dims) |-> data[Offset(dims, i) + 1]] = value
  BY <1>3, ArrangedIs, IndicesAgree
<1> HIDE DEF value
<1>12. Content(Tensor(make, data)) = Contents!Number(dims, value)
  BY <1>2, <1>9, <1>11 DEF Contents!Number
<1>13. tensor' = [tensor EXCEPT ![t] = Tensor(make, data)] /\ items' = data
  BY <1>1 DEF data
<1>14. Mapped' = [Mapped EXCEPT ![t] = Contents!Number(dims, value)]
  <2>1. tensor = [u \in Tensors |-> tensor[u]]
    BY DEF BuffersFit
  <2>2. Mapped' = [Mapped EXCEPT ![t] = Content(Tensor(make, data))]
    BY <1>13, <2>1 DEF Mapped, Content, Value
  <2> QED
    BY <1>12, <2>2
<1>15. ~ Contents!Holds(t) /\ answer' = <<t, "range">>
  BY <1>1, HoldsAgree
<1>16. DOMAIN items' = 1 .. dims[1]
  BY <1>4, <1>5, <1>10, <1>13
<1>17. \A k \in 1 .. dims[1] : k = 1 \/ Contents!Whole(r) => items'[k] = Contents!Term(r, k - 1)
  BY <1>6, <1>10, <1>13, Zenon
<1>18. Mapped' = [Mapped EXCEPT ![t] = Contents!Number(dims, Contents!Arranged(dims, items'))]
  BY <1>13, <1>14, Zenon DEF value
<1>19. Contents!Arange(t, r)
  BY <1>10, <1>15, <1>16, <1>17, <1>18, Zenon DEF Contents!Arange, Mapped, Content, Value
<1> QED
  BY <1>19 DEF Contents!Next

LEMMA SetAgrees ==
  ASSUME CallersCount, BuffersFit, NEW t \in Tensors, Holds(t),
         NEW i \in Indices(tensor[t].dims), NEW v \in Values[tensor[t].type], Set(t, i, v)
  PROVE  Contents!Next
<1> DEFINE x == tensor[t]
           dims == x.dims
           at == Offset(dims, i) + 1
<1>0. PICK y : y = [x EXCEPT !.data = [x.data EXCEPT ![at] = v]]
  OBVIOUS
<1>1. Buffer(t, x)
  BY HoldsAgree
<1>2. /\ dims \in Seq(Nat) /\ Size(dims) \in Nat /\ x.type \in {"number", "string"}
      /\ x.data \in [1 .. Size(dims) -> Cell]
      /\ x = [kind |-> x.kind, type |-> x.type, dims |-> x.dims, data |-> x.data]
  BY <1>1, BufferFacts
<1>3. v \in Cell
  BY <1>2, ValuesAreCells
<1>4. Becomes(t, y)
  <2>1. [x EXCEPT !.data[at] = v] = y
    BY <1>0, <1>2
  <2> QED
    BY <2>1 DEF Set
<1>5. Buffer(t, y)
  BY <1>0, <1>1, <1>2, <1>3, BufferKeepsData
<1>6. y # Null
  BY <1>5, BufferFacts
<1>7. y.type = x.type /\ y.dims = dims /\ y.data = [x.data EXCEPT ![at] = v]
  BY <1>0, <1>2
<1>8. \A j \in Indices(dims) : Offset(dims, j) \in 0 .. Size(dims) - 1
  BY <1>2, OffsetInRange
<1>9. \A j \in Indices(dims) : j # i => Offset(dims, j) # Offset(dims, i)
  BY <1>2, OffsetsDiffer
<1>10. ASSUME NEW j \in Indices(dims)
       PROVE  y.data[Offset(dims, j) + 1] = IF j = i THEN v ELSE x.data[Offset(dims, j) + 1]
  <2>1. Offset(dims, j) + 1 \in 1 .. Size(dims) /\ (Offset(dims, j) + 1 = at => Offset(dims, j) = Offset(dims, i))
    BY <1>2, <1>8
  <2> HIDE DEF at
  <2>2. y.data[Offset(dims, j) + 1] = IF Offset(dims, j) + 1 = at THEN v ELSE x.data[Offset(dims, j) + 1]
    BY <1>2, <1>7, <2>1
  <2>3. j = i => Offset(dims, j) + 1 = at
    BY DEF at
  <2> QED
    BY <1>9, <2>1, <2>2, <2>3
<1>11. Value(y) = [Value(x) EXCEPT ![i] = v]
  BY <1>7, <1>10 DEF Value
<1>12. Content(y) = [type |-> x.type, dims |-> dims, value |-> Value(y)]
  BY <1>6, <1>7 DEF Content
<1>13. Mapped[t] = [type |-> x.type, dims |-> dims, value |-> Value(x)]
  BY HoldsAgree
<1>14. Content(y) = [Mapped[t] EXCEPT !.value[i] = v]
  BY <1>11, <1>12, <1>13
<1>15. Contents!Becomes(t, [Mapped[t] EXCEPT !.value[i] = v])
  <2>1. Contents!Becomes(t, Content(y))
    BY <1>4, BecomesAgrees
  <2> QED
    BY <1>14, <2>1 DEF Contents!Becomes
<1>16. Contents!Set(t, i, v)
  BY <1>15, Zenon DEF Contents!Set, Mapped, Content, Value
<1>17. i \in Contents!Indices(Mapped[t].dims) /\ v \in Values[Mapped[t].type]
  BY <1>13, IndicesAgree
<1>18. Contents!Holds(t)
  BY HoldsAgree
<1> QED
  BY <1>16, <1>17, <1>18 DEF Contents!Next, Mapped, Content, Value

LEMMA CopyFromAgrees ==
  ASSUME CallersCount, BuffersFit, NEW t \in Tensors, Holds(t),
         NEW vector \in Vectors[tensor[t].type], CopyFrom(t, vector)
  PROVE  Contents!Next
<1> DEFINE x == tensor[t]
           dims == x.dims
<1>0. PICK y : y = [x EXCEPT !.data = vector]
  OBVIOUS
<1>1. Buffer(t, x)
  BY HoldsAgree
<1>2. /\ dims \in Seq(Nat) /\ Size(dims) \in Nat /\ x.type \in {"number", "string"}
      /\ x = [kind |-> x.kind, type |-> x.type, dims |-> x.dims, data |-> x.data]
  BY <1>1, BufferFacts
<1>3. Mapped[t] = [type |-> x.type, dims |-> dims, value |-> Value(x)]
  BY HoldsAgree
<1>4. Contents!Cardinality(Contents!Indices(Mapped[t].dims)) = Size(dims)
  BY <1>2, <1>3, CountsAgree
<1>5. Contents!Holds(t)
  BY HoldsAgree
<1>6. Contents!CopyFrom(t, vector)
  <2>1. CASE Len(vector) # Size(dims) /\ Answers(t, "wrong size")
    <3>1. Contents!Answers(t, "wrong size")
      BY <2>1, AnswersAgree
    <3> QED
      BY <1>4, <1>5, <2>1, <3>1, Zenon DEF Contents!CopyFrom, Mapped, Content, Value
  <2>2. CASE Len(vector) = Size(dims) /\ Becomes(t, y)
    <3>1. vector \in Seq(Values[x.type])
      BY <1>2, ValuesAssumption
    <3>2. vector \in [1 .. Size(dims) -> Cell]
      BY <1>2, <2>2, <3>1, ValuesAreCells
    <3>3. Buffer(t, y)
      BY <1>0, <1>1, <3>2, BufferKeepsData
    <3>4. y # Null
      BY <3>3, BufferFacts
    <3>5. y.type = x.type /\ y.dims = dims /\ y.data = vector
      BY <1>0, <1>2
    <3>6. Value(y) = Contents!Arranged(dims, vector)
      BY <1>2, <3>5, ArrangedIs DEF Value
    <3>7. Content(y) = [type |-> x.type, dims |-> dims, value |-> Value(y)]
      BY <3>4, <3>5 DEF Content
    <3>8. Content(y) = [Mapped[t] EXCEPT !.value = Contents!Arranged(Mapped[t].dims, vector)]
      BY <1>3, <3>6, <3>7
    <3>9. Contents!Becomes(t, [Mapped[t] EXCEPT !.value = Contents!Arranged(Mapped[t].dims, vector)])
      <4>1. Contents!Becomes(t, Content(y))
        BY <2>2, BecomesAgrees
      <4> QED
        BY <3>8, <4>1 DEF Contents!Becomes
    <3> QED
      BY <1>4, <1>5, <2>2, <3>9, Zenon DEF Contents!CopyFrom, Mapped, Content, Value
  <2> QED
    BY <1>0, <2>1, <2>2, CopyFromIs
<1>7. vector \in Vectors[Mapped[t].type]
  BY <1>3
<1> QED
  BY <1>5, <1>6, <1>7 DEF Contents!Next, Mapped, Content, Value

\* Both ways to read a tensor list its cells.
LEMMA ReadAgrees ==
  ASSUME CallersCount, BuffersFit, NEW t \in Tensors, Holds(t), Returns(t, tensor[t].data)
  PROVE  Contents!Next
<1> DEFINE x == tensor[t]
<1>1. x.dims \in Seq(Nat) /\ x.data \in [1 .. Size(x.dims) -> Cell]
  BY HoldsAgree, BufferFacts
<1>2. Mapped[t] = [type |-> x.type, dims |-> x.dims, value |-> Value(x)] /\ Contents!Holds(t)
  BY HoldsAgree
<1>3. Contents!Listed(x.dims, Value(x)) = x.data
  BY <1>1, ListedIs DEF Value
<1>4. Contents!Listed(Mapped[t].dims, Mapped[t].value) = x.data
  BY <1>2, <1>3
<1>5. Contents!Returns(t, Contents!Listed(Mapped[t].dims, Mapped[t].value))
  BY <1>4, ReturnsAgree
<1>6. Contents!Read(t)
  BY <1>2, <1>5, Zenon DEF Contents!Read, Mapped, Content, Value
<1> QED
  BY <1>6 DEF Contents!Next

LEMMA GetDataAsVectorAgrees ==
  ASSUME CallersCount, BuffersFit, NEW t \in Tensors, GetDataAsVector(t)
  PROVE  Contents!Next
<1>1. Holds(t) /\ Returns(t, SubSeq(tensor[t].data, 1, Numel(t)))
  BY DEF GetDataAsVector, Readable
<1>2. /\ Size(tensor[t].dims) \in Nat /\ tensor[t].data \in [1 .. Size(tensor[t].dims) -> Cell]
      /\ Numel(t) = Size(tensor[t].dims)
  BY <1>1, HoldsAgree, BufferFacts DEF Numel
<1>3. SubSeq(tensor[t].data, 1, Numel(t)) = tensor[t].data
  BY <1>2, FunctionIsSeq
<1> QED
  BY <1>1, <1>3, ReadAgrees

LEMMA IterateAgrees ==
  ASSUME CallersCount, BuffersFit, NEW t \in Tensors, Iterate(t)
  PROVE  Contents!Next
<1> DEFINE x == tensor[t]
           visited == Visited(x.dims)
<1>1. Holds(t) /\ Returns(t, [k \in DOMAIN visited |-> x.data[Offset(x.dims, visited[k]) + 1]])
  BY DEF Iterate, Readable
<1>2. x.dims \in Seq(Nat) /\ Size(x.dims) \in Nat /\ x.data \in [1 .. Size(x.dims) -> Cell]
  BY <1>1, HoldsAgree, BufferFacts
<1>3. DOMAIN visited = 1 .. Size(x.dims) /\ \A k \in 1 .. Size(x.dims) : Offset(x.dims, visited[k]) = k - 1
  BY <1>2, VisitedIs
<1>4. [k \in DOMAIN visited |-> x.data[Offset(x.dims, visited[k]) + 1]] = x.data
  <2>1. ASSUME NEW k \in 1 .. Size(x.dims) PROVE x.data[Offset(x.dims, visited[k]) + 1] = x.data[k]
    <3>1. Offset(x.dims, visited[k]) = k - 1
      BY <1>3
    <3>2. (k - 1) + 1 = k
      OBVIOUS
    <3> QED
      BY <3>1, <3>2
  <2> HIDE DEF visited
  <2> QED
    BY <1>2, <1>3, <2>1
<1> QED
  BY <1>1, <1>4, ReadAgrees

LEMMA AsScalarAgrees ==
  ASSUME CallersCount, BuffersFit, NEW t \in Tensors, AsScalar(t)
  PROVE  Contents!Next
<1> DEFINE x == tensor[t]
<1>1. /\ Holds(t)
      /\ IF x.type = "number" /\ x.dims = <<1>>
         THEN Returns(t, <<x.data[1]>>) ELSE Answers(t, "wrong type or rank")
  BY DEF AsScalar
<1>2. Mapped[t] = [type |-> x.type, dims |-> x.dims, value |-> Value(x)] /\ Contents!Holds(t)
  BY <1>1, HoldsAgree
<1>3. CASE x.type = "number" /\ x.dims = <<1>>
  <2>1. <<0>> \in Indices(<<1>>)
    <3>1. <<1>> \in Seq(Nat) /\ Len(<<1>>) = 1 /\ <<1>>[1] = 1
      OBVIOUS
    <3>2. <<0>> \in [1 .. 1 -> Nat] /\ \A k \in 1 .. 1 : <<0>>[k] < <<1>>[k]
      OBVIOUS
    <3> QED
      BY <3>1, <3>2, IndicesAre
  <2>2. Offset(<<1>>, <<0>>) = 0
    BY <2>1, RowOffset
  <2>3. Value(x)[<<0>>] = x.data[1]
    BY <1>3, <2>1, <2>2 DEF Value
  <2>4. Contents!Returns(t, <<Mapped[t].value[<<0>>]>>)
    BY <1>1, <1>2, <1>3, <2>3, ReturnsAgree
  <2>5. Mapped[t].type = "number" /\ Mapped[t].dims = <<1>>
    BY <1>2, <1>3
  <2>6. Contents!AsScalar(t)
    BY <1>2, <2>4, <2>5, Zenon DEF Contents!AsScalar, Mapped, Content, Value
  <2> QED
    BY <2>6 DEF Contents!Next
<1>4. CASE ~ (x.type = "number" /\ x.dims = <<1>>)
  <2>1. Contents!Answers(t, "wrong type or rank")
    BY <1>1, <1>4, AnswersAgree
  <2>2. ~ (Mapped[t].type = "number" /\ Mapped[t].dims = <<1>>)
    BY <1>2, <1>4
  <2>3. Contents!AsScalar(t)
    BY <1>2, <2>1, <2>2, Zenon DEF Contents!AsScalar, Mapped, Content, Value
  <2> QED
    BY <2>3 DEF Contents!Next
<1> QED
  BY <1>3, <1>4

\* memcmp compares every cell, and each is the value of an index.
LEMMA EqualAgrees ==
  ASSUME CallersCount, BuffersFit, NEW t \in Tensors, NEW u \in Tensors, Holds(t), Holds(u)
  PROVE  Equal(t, u) <=> Mapped[t] = Mapped[u]
<1> DEFINE x == tensor[t]
           y == tensor[u]
           n == Size(x.dims)
<1>1. /\ x.dims \in Seq(Nat) /\ n \in Nat /\ x.data \in [1 .. n -> Cell] /\ Numel(t) = n
      /\ y.dims \in Seq(Nat) /\ y.data \in [1 .. Size(y.dims) -> Cell]
  BY HoldsAgree, BufferFacts DEF Numel
<1>2. /\ Mapped[t] = [type |-> x.type, dims |-> x.dims, value |-> Value(x)]
      /\ Mapped[u] = [type |-> y.type, dims |-> y.dims, value |-> Value(y)]
  BY HoldsAgree
<1>3. Mapped[t] = Mapped[u] <=> x.type = y.type /\ x.dims = y.dims /\ Value(x) = Value(y)
  BY <1>2
<1>4. ASSUME x.dims = y.dims
      PROVE  (\A k \in 1 .. n : x.data[k] = y.data[k]) <=> Value(x) = Value(y)
  <2>1. ASSUME Value(x) = Value(y), NEW k \in 1 .. n PROVE x.data[k] = y.data[k]
    <3>1. k - 1 \in 0 .. n - 1
      BY <1>1
    <3>2. PICK i \in Indices(x.dims) : Offset(x.dims, i) = k - 1
      BY <1>1, <3>1, OffsetsReachAll
    <3>3. Value(x)[i] = x.data[(k - 1) + 1] /\ Value(y)[i] = y.data[(k - 1) + 1]
      BY <1>4, <3>2 DEF Value
    <3>4. (k - 1) + 1 = k
      OBVIOUS
    <3> QED
      BY <2>1, <3>3, <3>4
  <2>2. ASSUME \A k \in 1 .. n : x.data[k] = y.data[k] PROVE Value(x) = Value(y)
    <3>1. ASSUME NEW i \in Indices(x.dims)
          PROVE  x.data[Offset(x.dims, i) + 1] = y.data[Offset(x.dims, i) + 1]
      <4>1. Offset(x.dims, i) \in 0 .. n - 1
        BY <1>1, OffsetInRange
      <4>2. Offset(x.dims, i) + 1 \in 1 .. n
        BY <1>1, <4>1
      <4> QED
        BY <2>2, <4>2
    <3> QED
      BY <1>4, <3>1 DEF Value
  <2> QED
    BY <2>1, <2>2
<1> QED
  BY <1>1, <1>3, <1>4 DEF Equal

LEMMA CompareAgrees ==
  ASSUME CallersCount, BuffersFit, NEW t \in Tensors, NEW u \in Tensors, Compare(t, u)
  PROVE  Contents!Next
<1>1. /\ Holds(t) /\ Holds(u)
      /\ answer' = <<t, IF Equal(t, u) THEN "equals" ELSE "differs from", u>>
      /\ items' = <<>> /\ UNCHANGED tensor
  BY DEF Compare, Readable
<1>2. Contents!Holds(t) /\ Contents!Holds(u)
  BY <1>1, HoldsAgree
<1>3. Equal(t, u) <=> Mapped[t] = Mapped[u]
  BY <1>1, EqualAgrees
<1>4. answer' = <<t, IF Mapped[t] = Mapped[u] THEN "equals" ELSE "differs from", u>>
  BY <1>1, <1>3
<1>5. Mapped' = Mapped
  BY <1>1, KeepsAgree
<1>6. Contents!Compare(t, u)
  BY <1>1, <1>2, <1>4, <1>5, Zenon DEF Contents!Compare, Mapped, Content, Value
<1> QED
  BY <1>6 DEF Contents!Next

\* What a tensor does is what its contents may do.
LEMMA StepsAgree ==
  ASSUME CallersCount
  PROVE  /\ Init => Contents!Init
         /\ BuffersFit /\ [Next]_vars => [Contents!Next]_<<Mapped, answer, items>>
<1>1. Init => Contents!Init
  BY DEF Init, Contents!Init
<1>2. ASSUME BuffersFit, Next PROVE Contents!Next
  <2>1. PICK t \in Tensors :
          \/ Allocate(t) \/ Wrap(t) \/ WrapNative(t) \/ Full(t) \/ Eye(t) \/ Arange(t) \/ Free(t)
          \/ \E type \in DOMAIN Values, rank \in 1 .. 2 : Access(t, type, rank)
          \/ /\ Holds(t)
             /\ \/ \E i \in Indices(tensor[t].dims), v \in Values[tensor[t].type] : Set(t, i, v)
                \/ \E vector \in Vectors[tensor[t].type] : CopyFrom(t, vector)
          \/ GetDataAsVector(t) \/ Iterate(t) \/ AsScalar(t)
          \/ \E u \in Tensors : Compare(t, u)
    BY <1>2 DEF Next
  <2>2. CASE Allocate(t) \/ Wrap(t) \/ WrapNative(t) \/ Full(t) \/ Eye(t) \/ Arange(t) \/ Free(t)
    BY <1>2, <2>2, AllocateAgrees, WrapAgrees, FullAgrees, EyeAgrees, ArangeAgrees, FreeAgrees
  <2>3. CASE \E type \in DOMAIN Values, rank \in 1 .. 2 : Access(t, type, rank)
    BY <1>2, <2>3, AccessAgrees
  <2>4. CASE Holds(t) /\ \E i \in Indices(tensor[t].dims), v \in Values[tensor[t].type] : Set(t, i, v)
    BY <1>2, <2>4, SetAgrees
  <2>5. CASE Holds(t) /\ \E vector \in Vectors[tensor[t].type] : CopyFrom(t, vector)
    BY <1>2, <2>5, CopyFromAgrees
  <2>6. CASE GetDataAsVector(t) \/ Iterate(t) \/ AsScalar(t) \/ \E u \in Tensors : Compare(t, u)
    BY <1>2, <2>6, GetDataAsVectorAgrees, IterateAgrees, AsScalarAgrees, CompareAgrees
  <2> QED
    BY <2>1, <2>2, <2>3, <2>4, <2>5, <2>6
<1>3. ASSUME UNCHANGED vars PROVE UNCHANGED <<Mapped, answer, items>>
  BY <1>3, KeepsAgree DEF vars
<1> QED
  BY <1>1, <1>2, <1>3

\* Whatever the kind of a tensor, its rank, its shape and its values are, and whether
\* Neuropod or a framework made it, the calls that fill, index, iterate over, copy and
\* compare it answer as for a value for each index: TensorLayout implements TensorContents
\* for callers that count and models that return contiguous tensors.
THEOREM TensorsHoldTheirContents ==
  ASSUME CallersCount
  PROVE  Spec => ImplementsContents
<1>1. Init => BuffersFit
  BY BuffersFitInductive
<1>2. BuffersFit /\ [Next]_vars => BuffersFit'
  BY BuffersFitInductive
<1>3. Init => Contents!Init
  BY StepsAgree
<1>4. BuffersFit /\ [Next]_vars => [Contents!Next]_<<Mapped, answer, items>>
  BY StepsAgree
<1> QED
  BY <1>1, <1>2, <1>3, <1>4, PTL DEF Spec, ImplementsContents, Contents!Spec, Mapped, Content, Value
=============================================================================
