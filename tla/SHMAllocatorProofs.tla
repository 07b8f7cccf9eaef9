------------------------- MODULE SHMAllocatorProofs -------------------------
(***************************************************************************)
(* Theorems about SHMAllocator, for every finite set of processes and      *)
(* slots, every set of blocks and every bound on their reuse.              *)
(***************************************************************************)
EXTENDS SHMAllocator, FiniteSetTheorems, TLAPS

\* Adding or removing one element changes a cardinality by one.
Bit(P) == IF P THEN 1 ELSE 0

LEMMA OneMemberChanges ==
  ASSUME NEW S, NEW T, NEW x, IsFiniteSet(S), S \ {x} = T \ {x}
  PROVE  /\ IsFiniteSet(T)
         /\ Cardinality(S) \in Nat
         /\ Cardinality(T) \in Nat
         /\ Cardinality(T) = Cardinality(S) - Bit(x \in S) + Bit(x \in T)
         /\ x \in S => Cardinality(S) > 0
<1> DEFINE R == S \ {x}
<1>1. IsFiniteSet(R) /\ Cardinality(R) \in Nat /\ Cardinality(S) \in Nat
  BY FS_RemoveElement, FS_CardinalityType
<1>2. Cardinality(S) = Cardinality(R) + Bit(x \in S)
  BY FS_RemoveElement, <1>1 DEF Bit
<1>3. IsFiniteSet(T) /\ Cardinality(T) = Cardinality(R) + Bit(x \in T)
  <2>1. CASE x \in T
    <3>1. T = R \cup {x} /\ x \notin R
      BY <2>1
    <3> QED
      BY <3>1, <2>1, <1>1, FS_AddElement DEF Bit
  <2>2. CASE x \notin T
    <3>1. T = R
      BY <2>2
    <3> QED
      BY <3>1, <2>2, <1>1 DEF Bit
  <2> QED
    BY <2>1, <2>2
<1> QED
  BY <1>1, <1>2, <1>3, FS_CardinalityType DEF Bit

-----------------------------------------------------------------------------
\* The strengthening of the invariants: what the block of an id and the names
\* in the system may be.
Known == /\ \A s \in Slots : id[s] # NoID => /\ id[s].block \in drawn
                                             /\ id[s].reuse <= reuse[id[s].block]
         /\ \A p \in Procs : created[p] \subseteq drawn /\ loaded[p] \subseteq drawn
         /\ linked \subseteq drawn
         /\ \A u \in unlinking : u[2] \in drawn
         /\ \A b \in Blocks : b \notin drawn => raw[b] = 0 /\ refcount[b] = 0
         /\ \A b \in Blocks : reuse[b] <= MaxReuse

Names == \A b \in Blocks :
           /\ raw[b] > 0 => b \in linked /\ \A u \in unlinking : u[2] # b
           /\ b \in linked => raw[b] > 0 \/ \E u \in unlinking : u[2] = b

HeldIDs == \A s \in Slots : Held(s) => id[s].reuse = reuse[id[s].block]

IInv == TypeOK /\ Known /\ Names /\ HeldIDs /\ RefcountExact /\ RawRefcountExact /\ OneOwner
-----------------------------------------------------------------------------
\* When one slot changes, the sets of its holders change by that slot at most.
LEMMA SlotCounts ==
  ASSUME NEW s \in Slots, NEW c \in Blocks,
         \A t \in Slots \ {s} : st'[t] = st[t] /\ id'[t] = id[t]
  PROVE  /\ Cardinality(Holders(c)) \in Nat
         /\ Cardinality(Holders(c)') \in Nat
         /\ Cardinality(Holders(c)')
              = Cardinality(Holders(c)) - Bit(s \in Holders(c)) + Bit(s \in Holders(c)')
         /\ s \in Holders(c) => Cardinality(Holders(c)) > 0
         /\ Cardinality(RawSlots(c)) \in Nat
         /\ Cardinality(RawSlots(c)') \in Nat
         /\ Cardinality(RawSlots(c)')
              = Cardinality(RawSlots(c)) - Bit(s \in RawSlots(c)) + Bit(s \in RawSlots(c)')
         /\ s \in RawSlots(c) => Cardinality(RawSlots(c)) > 0
<1>1. IsFiniteSet(Holders(c)) /\ IsFiniteSet(RawSlots(c))
  BY FiniteAssumption, FS_Subset DEF Holders, RawSlots
<1>2. Holders(c) \ {s} = Holders(c)' \ {s} /\ RawSlots(c) \ {s} = RawSlots(c)' \ {s}
  BY DEF Holders, RawSlots, Held
<1> QED
  BY <1>1, <1>2, OneMemberChanges

\* The same for the cache entries of one process.
LEMMA CacheCounts ==
  ASSUME NEW p \in Procs, NEW c \in Blocks,
         \A q \in Procs \ {p} : created'[q] = created[q] /\ loaded'[q] = loaded[q]
  PROVE  /\ Cardinality(RawCreated(c)) \in Nat
         /\ Cardinality(RawCreated(c)') \in Nat
         /\ Cardinality(RawCreated(c)')
              = Cardinality(RawCreated(c)) - Bit(p \in RawCreated(c)) + Bit(p \in RawCreated(c)')
         /\ p \in RawCreated(c) => Cardinality(RawCreated(c)) > 0
         /\ Cardinality(RawLoaded(c)) \in Nat
         /\ Cardinality(RawLoaded(c)') \in Nat
         /\ Cardinality(RawLoaded(c)')
              = Cardinality(RawLoaded(c)) - Bit(p \in RawLoaded(c)) + Bit(p \in RawLoaded(c)')
         /\ p \in RawLoaded(c) => Cardinality(RawLoaded(c)) > 0
<1>1. IsFiniteSet(RawCreated(c)) /\ IsFiniteSet(RawLoaded(c))
  BY FiniteAssumption, FS_Subset DEF RawCreated, RawLoaded
<1>2. /\ RawCreated(c) \ {p} = RawCreated(c)' \ {p}
      /\ RawLoaded(c) \ {p} = RawLoaded(c)' \ {p}
  BY DEF RawCreated, RawLoaded
<1> QED
  BY <1>1, <1>2, OneMemberChanges

\* A block that somebody counts for has a count.
LEMMA CountedIsPositive ==
  ASSUME TypeOK, RefcountExact, RawRefcountExact, NEW b \in Blocks
  PROVE  /\ \A s \in Slots : Held(s) /\ id[s].block = b => refcount[b] > 0
         /\ \A s \in Slots : s \in RawSlots(b) => raw[b] > 0
         /\ \A p \in Procs : b \in created[p] \/ b \in loaded[p] => raw[b] > 0
<1>1. /\ IsFiniteSet(Holders(b)) /\ IsFiniteSet(RawSlots(b))
      /\ IsFiniteSet(RawCreated(b)) /\ IsFiniteSet(RawLoaded(b))
  BY FiniteAssumption, FS_Subset DEF Holders, RawSlots, RawCreated, RawLoaded
<1>2. \A S, x : IsFiniteSet(S) /\ x \in S => Cardinality(S) \in Nat /\ Cardinality(S) > 0
  BY FS_EmptySet, FS_CardinalityType
<1>3. /\ Cardinality(RawSlots(b)) \in Nat /\ Cardinality(RawCreated(b)) \in Nat
      /\ Cardinality(RawLoaded(b)) \in Nat
  BY <1>1, FS_CardinalityType
<1>4. \A s \in Slots : Held(s) /\ id[s].block = b => refcount[b] > 0
  BY <1>1, <1>2 DEF RefcountExact, Holders
<1>5. \A s \in Slots : s \in RawSlots(b) => raw[b] > 0
  BY <1>1, <1>2, <1>3 DEF RawRefcountExact
<1>6. \A p \in Procs : b \in created[p] \/ b \in loaded[p] => raw[b] > 0
  <2> TAKE p \in Procs
  <2>1. b \in created[p] => Cardinality(RawCreated(b)) > 0
    BY <1>1, <1>2 DEF RawCreated
  <2>2. b \in loaded[p] => Cardinality(RawLoaded(b)) > 0
    BY <1>1, <1>2 DEF RawLoaded
  <2> QED
    BY <2>1, <2>2, <1>3 DEF RawRefcountExact
<1> QED
  BY <1>4, <1>5, <1>6

-----------------------------------------------------------------------------
LEMMA ReuseStep ==
  ASSUME IInv, NEW s \in Slots, NEW b \in Blocks, Reuse(s, b)
  PROVE  IInv'
<1> DEFINE p == ProcOf[s]
<1>0. p \in Procs /\ b \in created[p] /\ refcount[b] = 0 /\ st[s] = "idle" /\ id[s] = NoID
  BY ProcOfAssumption DEF IInv, TypeOK, Reuse, Unused, Idle
<1>1. TypeOK'
  BY <1>0, NoIDAssumption DEF IInv, TypeOK, Reuse, Goto, SlotStates, IDs, names
<1>2. Known'
  BY <1>0, MaxReuseAssumption DEF IInv, TypeOK, Known, Reuse, names, IDs
<1>3. Names'
  BY DEF IInv, TypeOK, Names, Reuse, names
<1>4. \A t \in Slots \ {s} : st'[t] = st[t] /\ id'[t] = id[t]
  BY DEF IInv, TypeOK, Reuse, Goto
<1>5. HeldIDs'
  <2>1. \A t \in Slots : Held(t) => id[t].block # b
    BY <1>0, CountedIsPositive DEF IInv
  <2>2. id'[s] = [block |-> b, reuse |-> reuse'[b]]
    BY DEF IInv, TypeOK, Reuse
  <2> SUFFICES ASSUME NEW t \in Slots, Held(t)' PROVE id'[t].reuse = reuse'[id'[t].block]
    BY DEF HeldIDs
  <2>3. CASE t = s
    BY <2>2, <2>3
  <2>4. CASE t # s
    <3>1. Held(t) /\ id'[t] = id[t]
      BY <2>4, <1>4 DEF Held
    <3> QED
      BY <3>1, <2>1 DEF IInv, TypeOK, HeldIDs, Reuse
  <2> QED
    BY <2>3, <2>4
<1>6. RefcountExact'
  <2> SUFFICES ASSUME NEW c \in Blocks PROVE refcount'[c] = Cardinality(Holders(c)')
    BY DEF RefcountExact
  <2>1. s \notin Holders(c) /\ (s \in Holders(c)' <=> c = b)
    BY <1>0 DEF IInv, TypeOK, Holders, Held, Reuse, Goto
  <2>2. refcount'[c] = refcount[c] + Bit(c = b)
    BY DEF IInv, TypeOK, Reuse, Bit
  <2> QED
    BY <2>1, <2>2, <1>4, SlotCounts DEF IInv, RefcountExact, Bit
<1>7. RawRefcountExact'
  <2> SUFFICES ASSUME NEW c \in Blocks
               PROVE  raw'[c] = Cardinality(RawSlots(c)') + Cardinality(RawCreated(c)')
                                  + Cardinality(RawLoaded(c)')
    BY DEF RawRefcountExact
  <2>1. s \notin RawSlots(c) /\ (s \in RawSlots(c)' <=> c = b)
    BY <1>0 DEF IInv, TypeOK, RawSlots, Reuse, Goto
  <2>2. (p \in RawCreated(c) <=> p \in RawCreated(c)' \/ c = b) /\ (c = b => p \notin RawCreated(c)')
    BY <1>0 DEF IInv, TypeOK, RawCreated, Reuse
  <2>3. p \in RawLoaded(c)' <=> p \in RawLoaded(c)
    BY DEF RawLoaded, Reuse
  <2>4. \A q \in Procs \ {p} : created'[q] = created[q] /\ loaded'[q] = loaded[q]
    BY <1>0 DEF IInv, TypeOK, Reuse
  <2>5. raw'[c] = raw[c]
    BY DEF Reuse
  <2> HIDE DEF p
  <2> QED
    BY <1>0, <2>1, <2>2, <2>3, <2>4, <2>5, <1>4, SlotCounts, CacheCounts
       DEF IInv, RawRefcountExact, Bit
<1>8. OneOwner'
  BY <1>0, <1>4 DEF IInv, TypeOK, OneOwner, Owns, Reuse, Goto
<1> QED
  BY <1>1, <1>2, <1>3, <1>5, <1>6, <1>7, <1>8 DEF IInv

LEMMA CreateStep ==
  ASSUME IInv, NEW s \in Slots, NEW b \in Blocks, Create(s, b)
  PROVE  IInv'
<1>0. /\ b \notin drawn /\ raw[b] = 0 /\ refcount[b] = 0 /\ st[s] = "idle" /\ id[s] = NoID
      /\ \A t \in Slots : id[t] # NoID => id[t].block # b
      /\ \A p \in Procs : b \notin created[p] /\ b \notin loaded[p]
      /\ \A u \in unlinking : u[2] # b
  BY DEF IInv, TypeOK, Known, Create, Idle
<1>1. TypeOK'
  BY <1>0, NoIDAssumption DEF IInv, TypeOK, Create, Goto, SlotStates, IDs, caches
<1>2. Known'
  BY <1>0, MaxReuseAssumption DEF IInv, TypeOK, Known, Create, caches
<1>3. Names'
  BY <1>0 DEF IInv, TypeOK, Names, Create
<1>4. \A t \in Slots \ {s} : st'[t] = st[t] /\ id'[t] = id[t]
  BY DEF IInv, TypeOK, Create, Goto
<1>5. HeldIDs'
  <2>1. \A t \in Slots : Held(t) => id[t].block # b
    BY <1>0 DEF IInv, TypeOK, Held
  <2>2. id'[s] = [block |-> b, reuse |-> reuse'[b]]
    BY DEF IInv, TypeOK, Create
  <2> SUFFICES ASSUME NEW t \in Slots, Held(t)' PROVE id'[t].reuse = reuse'[id'[t].block]
    BY DEF HeldIDs
  <2>3. CASE t = s
    BY <2>2, <2>3
  <2>4. CASE t # s
    <3>1. Held(t) /\ id'[t] = id[t]
      BY <2>4, <1>4 DEF Held
    <3> QED
      BY <3>1, <2>1 DEF IInv, TypeOK, HeldIDs, Create
  <2> QED
    BY <2>3, <2>4
<1>6. RefcountExact'
  <2> SUFFICES ASSUME NEW c \in Blocks PROVE refcount'[c] = Cardinality(Holders(c)')
    BY DEF RefcountExact
  <2>1. s \notin Holders(c) /\ (s \in Holders(c)' <=> c = b)
    BY <1>0 DEF IInv, TypeOK, Holders, Held, Create, Goto
  <2>2. refcount'[c] = refcount[c] + Bit(c = b)
    BY <1>0 DEF IInv, TypeOK, Create, Bit
  <2> QED
    BY <2>1, <2>2, <1>4, SlotCounts DEF IInv, RefcountExact, Bit
<1>7. RawRefcountExact'
  <2> SUFFICES ASSUME NEW c \in Blocks
               PROVE  raw'[c] = Cardinality(RawSlots(c)') + Cardinality(RawCreated(c)')
                                  + Cardinality(RawLoaded(c)')
    BY DEF RawRefcountExact
  <2>1. s \notin RawSlots(c) /\ (s \in RawSlots(c)' <=> c = b)
    BY <1>0 DEF IInv, TypeOK, RawSlots, Create, Goto
  <2>2. RawCreated(c)' = RawCreated(c) /\ RawLoaded(c)' = RawLoaded(c)
    BY DEF RawCreated, RawLoaded, Create, caches
  <2>3. raw'[c] = raw[c] + Bit(c = b)
    BY <1>0 DEF IInv, TypeOK, Create, Bit
  <2>4. Cardinality(RawCreated(c)) \in Nat /\ Cardinality(RawLoaded(c)) \in Nat
    BY FiniteAssumption, FS_Subset, FS_CardinalityType DEF RawCreated, RawLoaded
  <2> QED
    BY <2>1, <2>2, <2>3, <2>4, <1>4, SlotCounts DEF IInv, RawRefcountExact, Bit
<1>8. OneOwner'
  BY <1>0, <1>4 DEF IInv, TypeOK, OneOwner, Owns, Create, Goto, caches
<1> QED
  BY <1>1, <1>2, <1>3, <1>5, <1>6, <1>7, <1>8 DEF IInv

LEMMA ReleaseAllocatedStep ==
  ASSUME IInv, NEW s \in Slots, ReleaseAllocated(s)
  PROVE  IInv'
<1> DEFINE p == ProcOf[s]
           b == id[s].block
<1>0. /\ p \in Procs /\ b \in Blocks /\ b \in drawn /\ id[s] # NoID
      /\ st[s] = "allocated" /\ Held(s) /\ Owns(s, b)
  BY ProcOfAssumption DEF IInv, TypeOK, Known, ReleaseAllocated, IDs, Held, Owns
<1>00. refcount[b] > 0 /\ b \notin created[p]
  BY <1>0, CountedIsPositive DEF IInv, OneOwner
<1>1. TypeOK'
  <2>1. refcount' \in [Blocks -> Nat]
    BY <1>0, <1>00 DEF IInv, TypeOK, ReleaseAllocated
  <2> QED
    BY <2>1, <1>0 DEF IInv, TypeOK, ReleaseAllocated, Empty, Goto, SlotStates, names
<1>2. Known'
  BY <1>0 DEF IInv, TypeOK, Known, ReleaseAllocated, Empty, names
<1>3. Names'
  BY DEF IInv, TypeOK, Names, ReleaseAllocated, names
<1>4. /\ \A t \in Slots \ {s} : st'[t] = st[t] /\ id'[t] = id[t]
      /\ st'[s] = "idle" /\ id'[s] = NoID
  BY DEF IInv, TypeOK, ReleaseAllocated, Empty, Goto
<1>5. HeldIDs'
  BY <1>4 DEF IInv, HeldIDs, Held, ReleaseAllocated
<1>6. RefcountExact'
  <2> SUFFICES ASSUME NEW c \in Blocks PROVE refcount'[c] = Cardinality(Holders(c)')
    BY DEF RefcountExact
  <2>1. s \notin Holders(c)' /\ (s \in Holders(c) <=> c = b)
    BY <1>0, <1>4 DEF Holders, Held
  <2>2. refcount'[c] = refcount[c] - Bit(c = b)
    BY <1>0 DEF IInv, TypeOK, ReleaseAllocated, Bit
  <2> HIDE DEF b
  <2> QED
    BY <2>1, <2>2, <1>4, SlotCounts DEF IInv, RefcountExact, Bit
<1>7. RawRefcountExact'
  <2> SUFFICES ASSUME NEW c \in Blocks
               PROVE  raw'[c] = Cardinality(RawSlots(c)') + Cardinality(RawCreated(c)')
                                  + Cardinality(RawLoaded(c)')
    BY DEF RawRefcountExact
  <2>1. s \notin RawSlots(c)' /\ (s \in RawSlots(c) <=> c = b)
    BY <1>0, <1>4 DEF RawSlots
  <2>2. (p \in RawCreated(c)' <=> p \in RawCreated(c) \/ c = b) /\ (c = b => p \notin RawCreated(c))
    BY <1>0, <1>00 DEF IInv, TypeOK, RawCreated, ReleaseAllocated
  <2>3. p \in RawLoaded(c)' <=> p \in RawLoaded(c)
    BY DEF RawLoaded, ReleaseAllocated
  <2>4. \A q \in Procs \ {p} : created'[q] = created[q] /\ loaded'[q] = loaded[q]
    BY <1>0 DEF IInv, TypeOK, ReleaseAllocated
  <2>5. raw'[c] = raw[c]
    BY DEF ReleaseAllocated
  <2> HIDE DEF p, b
  <2> QED
    BY <1>0, <2>1, <2>2, <2>3, <2>4, <2>5, <1>4, SlotCounts, CacheCounts
       DEF IInv, RawRefcountExact, Bit
<1>8. OneOwner'
  <2>1. \A c \in Blocks, t \in Slots : Owns(t, c)' <=> Owns(t, c) /\ t # s
    BY <1>4 DEF Owns
  <2>2. \A c \in Blocks, q \in Procs : c \in created'[q] <=> c \in created[q] \/ (c = b /\ q = p)
    BY <1>0 DEF IInv, TypeOK, ReleaseAllocated
  <2> HIDE DEF p, b
  <2> QED
    BY <2>1, <2>2, <1>0 DEF IInv, OneOwner
<1> QED
  BY <1>1, <1>2, <1>3, <1>5, <1>6, <1>7, <1>8 DEF IInv
-----------------------------------------------------------------------------
\* The steps of load_shm neither own a block nor change a created cache.
LEMMA OwnersUnchanged ==
  ASSUME OneOwner, created' = created,
         \A b \in Blocks, s \in Slots : Owns(s, b)' => Owns(s, b)
  PROVE  OneOwner'
  BY DEF OneOwner

LEMMA LoadBeginStep ==
  ASSUME IInv, NEW s \in Slots, NEW b \in Blocks, NEW k \in 0 .. MaxReuse, LoadBegin(s, b, k)
  PROVE  IInv'
<1> DEFINE p == ProcOf[s]
<1>0. /\ p \in Procs /\ st[s] = "idle" /\ b \in drawn /\ k \in Nat /\ k <= reuse[b]
      /\ [block |-> b, reuse |-> k] \in IDs
  <2>1. p \in Procs /\ st[s] = "idle" /\ b \in drawn /\ k \in 0 .. reuse[b]
    BY ProcOfAssumption DEF LoadBegin, Idle
  <2>2. k \in Nat /\ k <= reuse[b]
    BY <2>1, MaxReuseAssumption DEF IInv, TypeOK
  <2> QED
    BY <2>1, <2>2 DEF IDs
<1>4. /\ \A t \in Slots \ {s} : st'[t] = st[t] /\ id'[t] = id[t]
      /\ st'[s] = IF b \in loaded[p] THEN "checking" ELSE "opening"
      /\ id'[s] = [block |-> b, reuse |-> k]
  BY DEF IInv, TypeOK, LoadBegin, Goto
<1>5. /\ \A q \in Procs \ {p} : created'[q] = created[q] /\ loaded'[q] = loaded[q]
      /\ created'[p] = created[p] /\ loaded'[p] = loaded[p] \ {b}
  BY <1>0 DEF IInv, TypeOK, LoadBegin
<1>1. TypeOK'
  BY <1>0, NoIDAssumption DEF IInv, TypeOK, LoadBegin, Goto, SlotStates, IDs, counts, names
<1>2. Known'
  BY <1>0, <1>4, <1>5 DEF IInv, TypeOK, Known, LoadBegin, counts, names
<1>3. Names'
  BY DEF IInv, Names, LoadBegin, counts, names
<1>6. HeldIDs'
  BY <1>4 DEF IInv, HeldIDs, Held, LoadBegin, counts
<1>7. RefcountExact'
  <2> SUFFICES ASSUME NEW c \in Blocks PROVE refcount'[c] = Cardinality(Holders(c)')
    BY DEF RefcountExact
  <2>1. s \notin Holders(c)' /\ s \notin Holders(c)
    BY <1>0, <1>4 DEF Holders, Held
  <2>2. refcount'[c] = refcount[c]
    BY DEF LoadBegin, counts
  <2> QED
    BY <2>1, <2>2, <1>4, SlotCounts DEF IInv, RefcountExact, Bit
<1>8. RawRefcountExact'
  <2> SUFFICES ASSUME NEW c \in Blocks
               PROVE  raw'[c] = Cardinality(RawSlots(c)') + Cardinality(RawCreated(c)')
                                  + Cardinality(RawLoaded(c)')
    BY DEF RawRefcountExact
  <2>1. s \notin RawSlots(c) /\ (s \in RawSlots(c)' <=> c = b /\ b \in loaded[p])
    BY <1>0, <1>4 DEF RawSlots
  <2>2. p \in RawCreated(c)' <=> p \in RawCreated(c)
    BY <1>5 DEF RawCreated
  <2>3. /\ p \in RawLoaded(c)' <=> p \in RawLoaded(c) /\ c # b
        /\ c = b => (p \in RawLoaded(c) <=> b \in loaded[p])
    BY <1>0, <1>5 DEF RawLoaded
  <2>5. raw'[c] = raw[c]
    BY DEF LoadBegin, counts
  <2> HIDE DEF p
  <2> QED
    BY <1>0, <2>1, <2>2, <2>3, <2>5, <1>4, <1>5, SlotCounts, CacheCounts
       DEF IInv, RawRefcountExact, Bit
<1>9. OneOwner'
  BY <1>0, <1>4, OwnersUnchanged DEF IInv, Owns, LoadBegin
<1> QED
  BY <1>1, <1>2, <1>3, <1>6, <1>7, <1>8, <1>9 DEF IInv

LEMMA OpenStep ==
  ASSUME IInv, NEW s \in Slots, Open(s)
  PROVE  IInv'
<1>4. /\ \A t \in Slots \ {s} : st'[t] = st[t] /\ id'[t] = id[t]
      /\ st[s] = "opening" /\ st'[s] \in {"opened", "idle"}
      /\ st'[s] = "opened" => id'[s] = id[s]
  BY DEF IInv, TypeOK, Open, Empty, Goto
<1>1. TypeOK'
  BY NoIDAssumption DEF IInv, TypeOK, Open, Empty, Goto, SlotStates, counts, names, caches
<1>2. Known'
  BY DEF IInv, TypeOK, Known, Open, Empty, counts, names, caches
<1>3. Names'
  BY DEF IInv, Names, Open, counts, names
<1>6. HeldIDs'
  BY <1>4 DEF IInv, HeldIDs, Held, Open, counts
<1>7. \A c \in Blocks : Holders(c)' = Holders(c) /\ RawSlots(c)' = RawSlots(c)
  BY <1>4 DEF Holders, Held, RawSlots
<1>8. RefcountExact' /\ RawRefcountExact'
  BY <1>7 DEF IInv, RefcountExact, RawRefcountExact, RawCreated, RawLoaded, Open, counts, caches
<1>9. OneOwner'
  BY <1>4, OwnersUnchanged DEF IInv, Owns, Open, caches
<1> QED
  BY <1>1, <1>2, <1>3, <1>6, <1>8, <1>9 DEF IInv

LEMMA RawAcquireStep ==
  ASSUME IInv, NEW s \in Slots, RawAcquire(s)
  PROVE  IInv'
<1> DEFINE b == id[s].block
<1>0. b \in Blocks /\ b \in drawn /\ st[s] = "opened" /\ id[s] # NoID /\ raw[b] \in Nat
  BY DEF IInv, TypeOK, Known, RawAcquire, IDs
<1>4. /\ \A t \in Slots \ {s} : st'[t] = st[t] /\ id'[t] = id[t]
      /\ raw[b] # 0 => st'[s] = "checking" /\ id'[s] = id[s] /\ raw' = [raw EXCEPT ![b] = @ + 1]
      /\ raw[b] = 0 => st'[s] = "idle" /\ id'[s] = NoID /\ raw' = raw
  BY DEF IInv, TypeOK, RawAcquire, Empty, Goto
<1>1. TypeOK'
  BY <1>0, NoIDAssumption DEF IInv, TypeOK, RawAcquire, Empty, Goto, SlotStates, names, caches
<1>2. Known'
  BY <1>0, <1>4 DEF IInv, TypeOK, Known, RawAcquire, names, caches
<1>3. Names'
  BY <1>0, <1>4 DEF IInv, TypeOK, Names, RawAcquire, names
<1>6. HeldIDs'
  BY <1>4 DEF IInv, HeldIDs, Held, RawAcquire
<1>7. RefcountExact'
  <2>1. \A c \in Blocks : Holders(c)' = Holders(c)
    BY <1>0, <1>4 DEF Holders, Held
  <2> QED
    BY <2>1 DEF IInv, RefcountExact, RawAcquire
<1>8. RawRefcountExact'
  <2> SUFFICES ASSUME NEW c \in Blocks
               PROVE  raw'[c] = Cardinality(RawSlots(c)') + Cardinality(RawCreated(c)')
                                  + Cardinality(RawLoaded(c)')
    BY DEF RawRefcountExact
  <2>1. s \notin RawSlots(c) /\ (s \in RawSlots(c)' <=> c = b /\ raw[b] # 0)
    BY <1>0, <1>4 DEF RawSlots
  <2>2. RawCreated(c)' = RawCreated(c) /\ RawLoaded(c)' = RawLoaded(c)
    BY DEF RawCreated, RawLoaded, RawAcquire, caches
  <2>3. raw'[c] = raw[c] + Bit(c = b /\ raw[b] # 0)
    BY <1>0, <1>4 DEF IInv, TypeOK, Bit
  <2>4. Cardinality(RawCreated(c)) \in Nat /\ Cardinality(RawLoaded(c)) \in Nat
    BY FiniteAssumption, FS_Subset, FS_CardinalityType DEF RawCreated, RawLoaded
  <2> HIDE DEF b
  <2> QED
    BY <2>1, <2>2, <2>3, <2>4, <1>4, SlotCounts DEF IInv, RawRefcountExact, Bit
<1>9. OneOwner'
  BY <1>0, <1>4, OwnersUnchanged DEF IInv, Owns, RawAcquire, caches
<1> QED
  BY <1>1, <1>2, <1>3, <1>6, <1>7, <1>8, <1>9 DEF IInv

LEMMA CheckStep ==
  ASSUME IInv, NEW s \in Slots, Check(s)
  PROVE  IInv'
<1> DEFINE b  == id[s].block
           ok == refcount[b] # 0 /\ id[s].reuse = reuse[b]
<1>0. b \in Blocks /\ b \in drawn /\ st[s] = "checking" /\ id[s] # NoID /\ refcount[b] \in Nat
  BY DEF IInv, TypeOK, Known, Check, IDs
<1>4. /\ \A t \in Slots \ {s} : st'[t] = st[t]
      /\ id' = id
      /\ ok => st'[s] = "loaded" /\ refcount' = [refcount EXCEPT ![b] = @ + 1]
      /\ ~ok => st'[s] = "rejected" /\ refcount' = refcount
  BY DEF IInv, TypeOK, Check, Goto
<1>1. TypeOK'
  <2>1. refcount' \in [Blocks -> Nat]
    BY <1>0, <1>4 DEF IInv, TypeOK
  <2> QED
    BY <1>0, <2>1 DEF IInv, TypeOK, Check, Goto, SlotStates, names, caches
<1>2. Known'
  BY <1>0, <1>4 DEF IInv, TypeOK, Known, Check, names, caches
<1>3. Names'
  BY DEF IInv, Names, Check, names
<1>6. HeldIDs'
  BY <1>4 DEF IInv, HeldIDs, Held, Check
<1>7. RefcountExact'
  <2> SUFFICES ASSUME NEW c \in Blocks PROVE refcount'[c] = Cardinality(Holders(c)')
    BY DEF RefcountExact
  <2>1. s \notin Holders(c) /\ (s \in Holders(c)' <=> c = b /\ ok)
    BY <1>0, <1>4 DEF Holders, Held
  <2>2. refcount'[c] = refcount[c] + Bit(c = b /\ ok)
    BY <1>0, <1>4 DEF IInv, TypeOK, Bit
  <2>3. \A t \in Slots \ {s} : st'[t] = st[t] /\ id'[t] = id[t]
    BY <1>4
  <2> HIDE DEF b, ok
  <2> QED
    BY <2>1, <2>2, <2>3, SlotCounts DEF IInv, RefcountExact, Bit
<1>8. RawRefcountExact'
  <2>1. \A c \in Blocks : RawSlots(c)' = RawSlots(c)
    BY <1>0, <1>4 DEF RawSlots
  <2> QED
    BY <2>1 DEF IInv, RawRefcountExact, RawCreated, RawLoaded, Check, caches
<1>9. OneOwner'
  BY <1>0, <1>4, OwnersUnchanged DEF IInv, Owns, Check, caches
<1> QED
  BY <1>1, <1>2, <1>3, <1>6, <1>7, <1>8, <1>9 DEF IInv

-----------------------------------------------------------------------------
\* ~RawSHMBlock keeps the names in step with the counts.
LEMMA DropRawKeepsNames ==
  ASSUME IInv, NEW who, NEW b \in Blocks, raw[b] > 0, DropRaw(who, b), linked' = linked
  PROVE  Names'
<1> SUFFICES ASSUME NEW c \in Blocks
             PROVE  /\ raw'[c] > 0 => c \in linked /\ \A u \in unlinking' : u[2] # c
                    /\ c \in linked => raw'[c] > 0 \/ \E u \in unlinking' : u[2] = c
  BY DEF Names
<1>1. raw[b] \in Nat /\ raw[c] \in Nat
  BY DEF IInv, TypeOK
<1>2. CASE c = b /\ raw[b] = 1
  <2>1. raw'[c] = 0 /\ <<who, b>> \in unlinking' /\ <<who, b>>[2] = c
    BY <1>2 DEF IInv, TypeOK, DropRaw
  <2> QED
    BY <2>1
<1>3. CASE c = b /\ raw[b] # 1
  <2>1. raw'[c] > 0 /\ unlinking' = unlinking
    BY <1>1, <1>3 DEF IInv, TypeOK, DropRaw
  <2> QED
    BY <2>1, <1>3 DEF IInv, Names
<1>4. CASE c # b
  <2>1. raw'[c] = raw[c]
    BY <1>4 DEF IInv, TypeOK, DropRaw
  <2>2. \A u \in unlinking' : u[2] = c => u \in unlinking
    BY <1>4 DEF DropRaw
  <2>3. unlinking \subseteq unlinking'
    BY DEF DropRaw
  <2> QED
    BY <2>1, <2>2, <2>3 DEF IInv, Names
<1> QED
  BY <1>2, <1>3, <1>4

LEMMA DropRawKeepsTypes ==
  ASSUME IInv, NEW who \in Procs \cup Slots, NEW b \in Blocks, raw[b] > 0, b \in drawn,
         DropRaw(who, b)
  PROVE  /\ raw' \in [Blocks -> Nat]
         /\ unlinking' \subseteq (Procs \cup Slots) \X Blocks
         /\ \A u \in unlinking' : u[2] \in drawn
         /\ \A c \in Blocks : raw'[c] = raw[c] - Bit(c = b)
<1>1. raw[b] \in Nat /\ raw[b] - 1 \in Nat
  BY DEF IInv, TypeOK
<1> QED
  BY <1>1 DEF IInv, TypeOK, Known, DropRaw, Bit

LEMMA RejectStep ==
  ASSUME IInv, NEW s \in Slots, Reject(s)
  PROVE  IInv'
<1> DEFINE b == id[s].block
<1>0. b \in Blocks /\ b \in drawn /\ st[s] = "rejected" /\ id[s] # NoID /\ s \in RawSlots(b)
  BY DEF IInv, TypeOK, Known, Reject, IDs, RawSlots
<1>00. raw[b] > 0
  BY <1>0, CountedIsPositive DEF IInv
<1>4. /\ \A t \in Slots \ {s} : st'[t] = st[t] /\ id'[t] = id[t]
      /\ st'[s] = "idle" /\ id'[s] = NoID /\ DropRaw(s, b)
  BY DEF IInv, TypeOK, Reject, Empty, Goto
<1>5. /\ raw' \in [Blocks -> Nat]
      /\ unlinking' \subseteq (Procs \cup Slots) \X Blocks
      /\ \A u \in unlinking' : u[2] \in drawn
      /\ \A c \in Blocks : raw'[c] = raw[c] - Bit(c = b)
  BY <1>0, <1>00, <1>4, DropRawKeepsTypes
<1>1. TypeOK'
  BY <1>0, <1>5 DEF IInv, TypeOK, Reject, Empty, Goto, SlotStates, caches
<1>2. Known'
  BY <1>0, <1>4, <1>5 DEF IInv, TypeOK, Known, Reject, caches, Bit
<1>3. Names'
  BY <1>0, <1>00, <1>4, DropRawKeepsNames DEF Reject
<1>6. HeldIDs'
  BY <1>4 DEF IInv, HeldIDs, Held, Reject
<1>7. RefcountExact'
  <2>1. \A c \in Blocks : Holders(c)' = Holders(c)
    BY <1>0, <1>4 DEF Holders, Held
  <2> QED
    BY <2>1 DEF IInv, RefcountExact, Reject
<1>8. RawRefcountExact'
  <2> SUFFICES ASSUME NEW c \in Blocks
               PROVE  raw'[c] = Cardinality(RawSlots(c)') + Cardinality(RawCreated(c)')
                                  + Cardinality(RawLoaded(c)')
    BY DEF RawRefcountExact
  <2>1. s \notin RawSlots(c)' /\ (s \in RawSlots(c) <=> c = b)
    BY <1>0, <1>4 DEF RawSlots
  <2>2. RawCreated(c)' = RawCreated(c) /\ RawLoaded(c)' = RawLoaded(c)
    BY DEF RawCreated, RawLoaded, Reject, caches
  <2>4. Cardinality(RawCreated(c)) \in Nat /\ Cardinality(RawLoaded(c)) \in Nat
    BY FiniteAssumption, FS_Subset, FS_CardinalityType DEF RawCreated, RawLoaded
  <2> HIDE DEF b
  <2> QED
    BY <2>1, <2>2, <2>4, <1>4, <1>5, SlotCounts DEF IInv, RawRefcountExact, Bit
<1>9. OneOwner'
  BY <1>0, <1>4, OwnersUnchanged DEF IInv, Owns, Reject, caches
<1> QED
  BY <1>1, <1>2, <1>3, <1>6, <1>7, <1>8, <1>9 DEF IInv

LEMMA ReleaseLoadedStep ==
  ASSUME IInv, NEW s \in Slots, ReleaseLoaded(s)
  PROVE  IInv'
<1> DEFINE p == ProcOf[s]
           b == id[s].block
<1>0. /\ p \in Procs /\ b \in Blocks /\ b \in drawn /\ id[s] # NoID
      /\ st[s] = "loaded" /\ Held(s) /\ s \in RawSlots(b)
  BY ProcOfAssumption DEF IInv, TypeOK, Known, ReleaseLoaded, IDs, Held, RawSlots
<1>00. refcount[b] > 0 /\ raw[b] > 0
  BY <1>0, CountedIsPositive DEF IInv
<1>4. /\ \A t \in Slots \ {s} : st'[t] = st[t] /\ id'[t] = id[t]
      /\ st'[s] = "idle" /\ id'[s] = NoID
      /\ \A q \in Procs \ {p} : created'[q] = created[q] /\ loaded'[q] = loaded[q]
      /\ created' = created /\ loaded'[p] = loaded[p] \cup {b}
      /\ b \in loaded[p] => DropRaw(s, b)
      /\ b \notin loaded[p] => raw' = raw /\ unlinking' = unlinking
  BY <1>0 DEF IInv, TypeOK, ReleaseLoaded, Empty, Goto
<1>5. /\ raw' \in [Blocks -> Nat]
      /\ unlinking' \subseteq (Procs \cup Slots) \X Blocks
      /\ \A u \in unlinking' : u[2] \in drawn
      /\ \A c \in Blocks : raw'[c] = raw[c] - Bit(c = b /\ b \in loaded[p])
  <2>1. CASE b \in loaded[p]
    BY <2>1, <1>0, <1>00, <1>4, DropRawKeepsTypes DEF Bit
  <2>2. CASE b \notin loaded[p]
    BY <2>2, <1>4 DEF IInv, TypeOK, Known, Bit
  <2> QED
    BY <2>1, <2>2
<1>1. TypeOK'
  <2>1. refcount' \in [Blocks -> Nat]
    BY <1>0, <1>00 DEF IInv, TypeOK, ReleaseLoaded
  <2> QED
    BY <2>1, <1>0, <1>5 DEF IInv, TypeOK, ReleaseLoaded, Empty, Goto, SlotStates
<1>2. Known'
  <2>1. \A q \in Procs : created'[q] \subseteq drawn' /\ loaded'[q] \subseteq drawn'
    BY <1>0, <1>4 DEF IInv, TypeOK, Known, ReleaseLoaded
  <2>2. \A c \in Blocks : c \notin drawn => raw'[c] = 0 /\ refcount'[c] = 0
    BY <1>0, <1>5 DEF IInv, TypeOK, Known, ReleaseLoaded, Bit
  <2> QED
    BY <1>4, <1>5, <2>1, <2>2 DEF IInv, TypeOK, Known, ReleaseLoaded
<1>3. Names'
  <2>1. CASE b \in loaded[p]
    BY <2>1, <1>0, <1>00, <1>4, DropRawKeepsNames DEF ReleaseLoaded
  <2>2. CASE b \notin loaded[p]
    BY <2>2, <1>4 DEF IInv, Names, ReleaseLoaded
  <2> QED
    BY <2>1, <2>2
<1>6. HeldIDs'
  BY <1>4 DEF IInv, HeldIDs, Held, ReleaseLoaded
<1>7. RefcountExact'
  <2> SUFFICES ASSUME NEW c \in Blocks PROVE refcount'[c] = Cardinality(Holders(c)')
    BY DEF RefcountExact
  <2>1. s \notin Holders(c)' /\ (s \in Holders(c) <=> c = b)
    BY <1>0, <1>4 DEF Holders, Held
  <2>2. refcount'[c] = refcount[c] - Bit(c = b)
    BY <1>0 DEF IInv, TypeOK, ReleaseLoaded, Bit
  <2> HIDE DEF b, p
  <2> QED
    BY <2>1, <2>2, <1>4, SlotCounts DEF IInv, RefcountExact, Bit
<1>8. RawRefcountExact'
  <2> SUFFICES ASSUME NEW c \in Blocks
               PROVE  raw'[c] = Cardinality(RawSlots(c)') + Cardinality(RawCreated(c)')
                                  + Cardinality(RawLoaded(c)')
    BY DEF RawRefcountExact
  <2>1. s \notin RawSlots(c)' /\ (s \in RawSlots(c) <=> c = b)
    BY <1>0, <1>4 DEF RawSlots
  <2>2. p \in RawCreated(c)' <=> p \in RawCreated(c)
    BY <1>4 DEF RawCreated
  <2>3. /\ p \in RawLoaded(c)' <=> p \in RawLoaded(c) \/ c = b
        /\ c = b => (p \in RawLoaded(c) <=> b \in loaded[p])
    BY <1>0, <1>4 DEF RawLoaded
  <2> HIDE DEF p, b
  <2> QED
    BY <1>0, <2>1, <2>2, <2>3, <1>4, <1>5, SlotCounts, CacheCounts
       DEF IInv, RawRefcountExact, Bit
<1>9. OneOwner'
  BY <1>0, <1>4, OwnersUnchanged DEF IInv, Owns
<1> QED
  BY <1>1, <1>2, <1>3, <1>6, <1>7, <1>8, <1>9 DEF IInv

-----------------------------------------------------------------------------
\* A slot step that touches nothing but the caches of one process.
LEMMA FreeCreatedStep ==
  ASSUME IInv, NEW p \in Procs, NEW b \in Blocks, FreeCreated(p, b)
  PROVE  IInv'
<1>0. raw[b] > 0 /\ b \in drawn
  BY CountedIsPositive DEF IInv, TypeOK, Known, FreeCreated
<1>4. /\ \A q \in Procs \ {p} : created'[q] = created[q] /\ loaded'[q] = loaded[q]
      /\ created'[p] = created[p] \ {b} /\ loaded' = loaded /\ DropRaw(p, b)
      /\ st' = st /\ id' = id
  BY DEF IInv, TypeOK, FreeCreated
<1>5. /\ raw' \in [Blocks -> Nat]
      /\ unlinking' \subseteq (Procs \cup Slots) \X Blocks
      /\ \A u \in unlinking' : u[2] \in drawn
      /\ \A c \in Blocks : raw'[c] = raw[c] - Bit(c = b)
  BY <1>0, <1>4, DropRawKeepsTypes
<1>1. TypeOK'
  BY <1>5 DEF IInv, TypeOK, FreeCreated
<1>2. Known'
  BY <1>0, <1>4, <1>5 DEF IInv, TypeOK, Known, FreeCreated, Bit
<1>3. Names'
  BY <1>0, <1>4, DropRawKeepsNames DEF FreeCreated
<1>6. HeldIDs' /\ RefcountExact'
  BY DEF IInv, HeldIDs, Held, RefcountExact, Holders, FreeCreated
<1>8. RawRefcountExact'
  <2> SUFFICES ASSUME NEW c \in Blocks
               PROVE  raw'[c] = Cardinality(RawSlots(c)') + Cardinality(RawCreated(c)')
                                  + Cardinality(RawLoaded(c)')
    BY DEF RawRefcountExact
  <2>1. RawSlots(c)' = RawSlots(c) /\ Cardinality(RawSlots(c)) \in Nat
    BY <1>4, FiniteAssumption, FS_Subset, FS_CardinalityType DEF RawSlots
  <2>2. p \notin RawCreated(c)' \/ c # b
    BY <1>4 DEF RawCreated
  <2>3. /\ c # b => (p \in RawCreated(c)' <=> p \in RawCreated(c))
        /\ p \in RawLoaded(c)' <=> p \in RawLoaded(c)
        /\ p \in RawCreated(b)
    BY <1>4 DEF RawCreated, RawLoaded, FreeCreated
  <2> QED
    BY <2>1, <2>2, <2>3, <1>4, <1>5, CacheCounts DEF IInv, RawRefcountExact, Bit
<1>9. OneOwner'
  BY <1>4 DEF IInv, TypeOK, OneOwner, Owns
<1> QED
  BY <1>1, <1>2, <1>3, <1>6, <1>8, <1>9 DEF IInv

LEMMA FreeLoadedStep ==
  ASSUME IInv, NEW p \in Procs, NEW b \in Blocks, FreeLoaded(p, b)
  PROVE  IInv'
<1>0. raw[b] > 0 /\ b \in drawn
  BY CountedIsPositive DEF IInv, TypeOK, Known, FreeLoaded
<1>4. /\ \A q \in Procs \ {p} : created'[q] = created[q] /\ loaded'[q] = loaded[q]
      /\ loaded'[p] = loaded[p] \ {b} /\ created' = created /\ DropRaw(p, b)
      /\ st' = st /\ id' = id
  BY DEF IInv, TypeOK, FreeLoaded
<1>5. /\ raw' \in [Blocks -> Nat]
      /\ unlinking' \subseteq (Procs \cup Slots) \X Blocks
      /\ \A u \in unlinking' : u[2] \in drawn
      /\ \A c \in Blocks : raw'[c] = raw[c] - Bit(c = b)
  BY <1>0, <1>4, DropRawKeepsTypes
<1>1. TypeOK'
  BY <1>5 DEF IInv, TypeOK, FreeLoaded
<1>2. Known'
  BY <1>0, <1>4, <1>5 DEF IInv, TypeOK, Known, FreeLoaded, Bit
<1>3. Names'
  BY <1>0, <1>4, DropRawKeepsNames DEF FreeLoaded
<1>6. HeldIDs' /\ RefcountExact'
  BY DEF IInv, HeldIDs, Held, RefcountExact, Holders, FreeLoaded
<1>8. RawRefcountExact'
  <2> SUFFICES ASSUME NEW c \in Blocks
               PROVE  raw'[c] = Cardinality(RawSlots(c)') + Cardinality(RawCreated(c)')
                                  + Cardinality(RawLoaded(c)')
    BY DEF RawRefcountExact
  <2>1. RawSlots(c)' = RawSlots(c) /\ Cardinality(RawSlots(c)) \in Nat
    BY <1>4, FiniteAssumption, FS_Subset, FS_CardinalityType DEF RawSlots
  <2>2. p \notin RawLoaded(c)' \/ c # b
    BY <1>4 DEF RawLoaded
  <2>3. /\ c # b => (p \in RawLoaded(c)' <=> p \in RawLoaded(c))
        /\ p \in RawCreated(c)' <=> p \in RawCreated(c)
        /\ p \in RawLoaded(b)
    BY <1>4 DEF RawCreated, RawLoaded, FreeLoaded
  <2> QED
    BY <2>1, <2>2, <2>3, <1>4, <1>5, CacheCounts DEF IInv, RawRefcountExact, Bit
<1>9. OneOwner'
  BY <1>4 DEF IInv, OneOwner, Owns
<1> QED
  BY <1>1, <1>2, <1>3, <1>6, <1>8, <1>9 DEF IInv

LEMMA UnlinkStep ==
  ASSUME IInv, NEW u \in unlinking, Unlink(u[1], u[2])
  PROVE  IInv'
<1> DEFINE b == u[2]
<1>0. b \in Blocks /\ raw[b] = 0 /\ <<u[1], u[2]>> = u
  BY DEF IInv, TypeOK, Names
<1>4. unlinking' = unlinking \ {u} /\ linked' = linked \ {b} /\ raw' = raw
  BY <1>0 DEF Unlink, counts
<1>1. TypeOK'
  BY <1>4 DEF IInv, TypeOK, Unlink, counts, caches
<1>2. Known'
  BY <1>4 DEF IInv, Known, Unlink, counts, caches
<1>3. Names'
  <2> SUFFICES ASSUME NEW c \in Blocks
               PROVE  /\ raw'[c] > 0 => c \in linked' /\ \A v \in unlinking' : v[2] # c
                      /\ c \in linked' => raw'[c] > 0 \/ \E v \in unlinking' : v[2] = c
    BY DEF Names
  <2>1. CASE c = b
    BY <2>1, <1>0, <1>4
  <2>2. CASE c # b
    BY <2>2, <1>4 DEF IInv, Names
  <2> QED
    BY <2>1, <2>2
<1>5. HeldIDs' /\ RefcountExact' /\ RawRefcountExact' /\ OneOwner'
  BY DEF IInv, HeldIDs, Held, RefcountExact, Holders, RawRefcountExact, RawSlots, RawCreated,
         RawLoaded, OneOwner, Owns, Unlink, counts, caches
<1> QED
  BY <1>1, <1>2, <1>3, <1>5 DEF IInv

\* Beginning a clear and going from one cache to the next move nothing.
LEMMA FreeControlStep ==
  ASSUME IInv, NEW p \in Procs, FreeBegin(p) \/ FreeNext(p)
  PROVE  IInv'
<1>0. UNCHANGED <<st, id, refcount, reuse, raw, drawn, linked, unlinking, created, loaded>>
  BY DEF FreeBegin, FreeNext, counts, names
<1>1. TypeOK'
  BY <1>0 DEF IInv, TypeOK, FreeBegin, FreeNext
<1>2. Known' /\ Names'
  BY <1>0 DEF IInv, Known, Names
<1>3. HeldIDs' /\ RefcountExact' /\ RawRefcountExact' /\ OneOwner'
  BY <1>0 DEF IInv, HeldIDs, Held, RefcountExact, Holders, RawRefcountExact, RawSlots,
              RawCreated, RawLoaded, OneOwner, Owns
<1> QED
  BY <1>1, <1>2, <1>3 DEF IInv

LEMMA StutterStep ==
  ASSUME IInv, UNCHANGED vars
  PROVE  IInv'
  BY DEF IInv, TypeOK, Known, Names, HeldIDs, Held, RefcountExact, Holders, RawRefcountExact,
         RawSlots, RawCreated, RawLoaded, OneOwner, Owns, vars, counts, names, caches

LEMMA InitIInv == Init => IInv
<1> SUFFICES ASSUME Init PROVE IInv
  OBVIOUS
<1>1. TypeOK /\ Known /\ Names /\ HeldIDs /\ OneOwner
  BY MaxReuseAssumption
     DEF Init, TypeOK, SlotStates, Known, Names, HeldIDs, Held, OneOwner, Owns
<1>2. \A b \in Blocks : /\ Holders(b) = {} /\ RawSlots(b) = {}
                        /\ RawCreated(b) = {} /\ RawLoaded(b) = {}
  BY DEF Init, Holders, Held, RawSlots, RawCreated, RawLoaded
<1>3. RefcountExact /\ RawRefcountExact
  <2>1. Cardinality({}) = 0 /\ 0 = 0 + 0 + 0
    BY FS_EmptySet
  <2>2. \A b \in Blocks : refcount[b] = 0 /\ raw[b] = 0
    BY DEF Init
  <2> QED
    BY <1>2, <2>1, <2>2, Zenon DEF RefcountExact, RawRefcountExact
<1> QED
  BY <1>1, <1>3 DEF IInv

LEMMA NextIInv == IInv /\ [Next]_vars => IInv'
  BY ReuseStep, CreateStep, ReleaseAllocatedStep, LoadBeginStep, OpenStep, RawAcquireStep,
     CheckStep, RejectStep, ReleaseLoadedStep, FreeCreatedStep, FreeLoadedStep, UnlinkStep,
     FreeControlStep, StutterStep
     DEF Next, SlotStep, ProcStep

LEMMA Invariance == Spec => []IInv
  BY InitIInv, NextIInv, PTL DEF Spec

-----------------------------------------------------------------------------
\* Every variable keeps its type.
THEOREM TypeCorrect == Spec => []TypeOK
  BY Invariance, PTL DEF IInv

\* The cross-process refcount counts the live pointers of all processes.
THEOREM RefcountsAreExact == Spec => []RefcountExact
  BY Invariance, PTL DEF IInv

\* The raw refcount counts the mapped raw blocks of all processes.
THEOREM RawRefcountsAreExact == Spec => []RawRefcountExact
  BY Invariance, PTL DEF IInv

\* Both counts at once.
THEOREM CountsAreExact == Spec => []CountsExact
  BY RefcountsAreExact, RawRefcountsAreExact, PTL DEF CountsExact

\* One process at a time may hand out or write a block as its allocator.
THEOREM BlocksHaveOneOwner == Spec => []OneOwner
  BY Invariance, PTL DEF IInv

\* A live pointer is never left behind by a reuse or a removal.
THEOREM ReadersAreSafe == Spec => []HeldMemoryIsStable
<1>1. IInv => HeldMemoryIsStable
  <2> SUFFICES ASSUME IInv, NEW s \in Slots, Held(s)
               PROVE  /\ id[s].reuse = reuse[id[s].block]
                      /\ id[s].block \in linked
                      /\ \A u \in unlinking : u[2] # id[s].block
    BY DEF HeldMemoryIsStable
  <2> DEFINE b == id[s].block
  <2>1. id[s] # NoID /\ b \in Blocks /\ s \in RawSlots(b)
    BY DEF IInv, TypeOK, Held, IDs, RawSlots
  <2>2. raw[b] > 0
    BY <2>1, CountedIsPositive DEF IInv
  <2> QED
    BY <2>1, <2>2 DEF IInv, Names, HeldIDs
<1> QED
  BY <1>1, Invariance, PTL

\* Shared memory is removed when the last user lets go of it.
THEOREM NothingLeaks == Spec => []NoLeak
<1>1. IInv => NoLeak
  <2> SUFFICES ASSUME IInv, unlinking = {}, NEW b \in linked,
                      \A s \in Slots : st[s] = "idle",
                      \A p \in Procs : created[p] = {} /\ loaded[p] = {}
               PROVE  FALSE
    BY DEF NoLeak
  <2>1. b \in Blocks /\ RawSlots(b) = {} /\ RawCreated(b) = {} /\ RawLoaded(b) = {}
    BY DEF IInv, TypeOK, RawSlots, RawCreated, RawLoaded
  <2>2. raw[b] = Cardinality({}) + Cardinality({}) + Cardinality({})
    BY <2>1 DEF IInv, RawRefcountExact
  <2>3. raw[b] = 0
    BY <2>2, FS_EmptySet
  <2> QED
    BY <2>1, <2>3 DEF IInv, Names
<1> QED
  BY <1>1, Invariance, PTL

-----------------------------------------------------------------------------
\* Two ids with the same fields are the same id.
LEMMA SameID ==
  ASSUME NEW i \in IDs, NEW j \in IDs, i.block = j.block, i.reuse = j.reuse
  PROVE  i = j
  BY DEF IDs

\* The steps that neither hand out, load nor release a pointer are invisible.
LEMMA InvisibleStep ==
  ASSUME drawn' = drawn, reuse' = reuse,
         \A s \in Slots : Held(s)' <=> Held(s),
         \A s \in Slots : Held(s) => id'[s] = id[s]
  PROVE  UNCHANGED Shared!vars
<1>1. HeldID' = HeldID
  BY DEF HeldID
<1>2. IssuedIDs' = IssuedIDs
  BY DEF IssuedIDs
<1> QED
  BY <1>1, <1>2 DEF Shared!vars

\* A pointer that is released empties the slot.
LEMMA ReleaseIsAbstract ==
  ASSUME IInv, NEW s \in Slots, ReleaseAllocated(s) \/ ReleaseLoaded(s)
  PROVE  Shared!Release(s)
<1>1. /\ Held(s) /\ id[s] # NoID /\ ~Held(s)'
      /\ \A t \in Slots \ {s} : st'[t] = st[t] /\ id'[t] = id[t]
      /\ drawn' = drawn /\ reuse' = reuse
  BY DEF IInv, TypeOK, ReleaseAllocated, ReleaseLoaded, Empty, Goto, Held, names
<1>2. HeldID' = [HeldID EXCEPT ![s] = NoID]
  BY <1>1 DEF HeldID, Held
<1>3. IssuedIDs' = IssuedIDs
  BY <1>1 DEF IssuedIDs
<1>4. HeldID[s] # NoID
  BY <1>1 DEF HeldID
<1> QED
  BY <1>2, <1>3, <1>4 DEF Shared!Release

\* An allocation issues an id that was never issued, of a block nobody holds.
LEMMA AllocationIsAbstract ==
  ASSUME IInv, NEW s \in Slots, NEW b \in Blocks, Reuse(s, b) \/ Create(s, b)
  PROVE  \E i \in Shared!IDs : Shared!Allocate(s, i)
<1> DEFINE i == [block |-> b, reuse |-> reuse'[b]]
<1>1. /\ st[s] = "idle" /\ ~Held(s) /\ Held(s)' /\ id'[s] = i
      /\ \A t \in Slots \ {s} : st'[t] = st[t] /\ id'[t] = id[t]
  BY DEF IInv, TypeOK, Reuse, Create, Idle, Goto, Held
<1>2. \A t \in Slots : Held(t) => id[t].block # b
  <2>1. refcount[b] = 0
    BY DEF IInv, Known, Reuse, Unused, Create
  <2> QED
    BY <2>1, CountedIsPositive DEF IInv
<1>3. /\ reuse'[b] \in 0 .. MaxReuse /\ drawn' = drawn \cup {b}
      /\ \A c \in Blocks : c # b => reuse'[c] = reuse[c]
      /\ b \in drawn => reuse'[b] = reuse[b] + 1
      /\ b \notin drawn => reuse'[b] = 0
  <2>1. CASE Reuse(s, b)
    <3>1. b \in drawn
      BY <2>1, ProcOfAssumption DEF IInv, Known, Reuse, Unused
    <3> QED
      BY <2>1, <3>1, MaxReuseAssumption DEF IInv, TypeOK, Reuse, names
  <2>2. CASE Create(s, b)
    BY <2>2, MaxReuseAssumption DEF IInv, TypeOK, Create
  <2> QED
    BY <2>1, <2>2
<1>4. HeldID' = [HeldID EXCEPT ![s] = i]
  BY <1>1 DEF HeldID, Held
<1>5. HeldID[s] = NoID /\ \A t \in Slots : HeldID[t] # NoID => HeldID[t].block # b
  BY <1>1, <1>2 DEF HeldID
<1>6. i \notin IssuedIDs
  BY <1>3 DEF IInv, TypeOK, IssuedIDs
<1>7. IssuedIDs' = IssuedIDs \cup {i}
  <2> SUFFICES ASSUME NEW j \in [block : Blocks, reuse : 0 .. MaxReuse]
               PROVE  j \in IssuedIDs' <=> j \in IssuedIDs \/ j = i
    BY <1>3 DEF IssuedIDs
  <2>1. CASE j.block = b
    BY <2>1, <1>3, MaxReuseAssumption DEF IInv, TypeOK, IssuedIDs
  <2>2. CASE j.block # b
    BY <2>2, <1>3 DEF IssuedIDs
  <2> QED
    BY <2>1, <2>2
<1>8. i \in Shared!IDs
  BY <1>3 DEF Shared!IDs
<1> QED
  BY <1>4, <1>5, <1>6, <1>7, <1>8 DEF Shared!Allocate

\* A load that succeeds copies an id that somebody holds at that moment.
LEMMA LoadIsAbstract ==
  ASSUME IInv, NEW s \in Slots, Check(s)
  PROVE  (\E t \in Slots : Shared!Load(s, t)) \/ UNCHANGED Shared!vars
<1> DEFINE b == id[s].block
<1>1. /\ st[s] = "checking" /\ ~Held(s) /\ id' = id /\ drawn' = drawn /\ reuse' = reuse
      /\ \A t \in Slots \ {s} : st'[t] = st[t]
      /\ b \in Blocks /\ id[s] \in IDs
  BY DEF IInv, TypeOK, Check, Goto, Held, names, IDs
<1>2. CASE refcount[b] # 0 /\ id[s].reuse = reuse[b]
  <2>1. Held(s)'
    BY <1>2 DEF IInv, TypeOK, Check, Goto, Held
  <2>2. Cardinality(Holders(b)) # 0
    BY <1>1, <1>2 DEF IInv, RefcountExact
  <2>3. PICK t \in Slots : Held(t) /\ id[t].block = b
    BY <2>2, FS_EmptySet DEF Holders
  <2>4. id[t] \in IDs /\ id[t].reuse = reuse[b]
    BY <2>3 DEF IInv, TypeOK, HeldIDs, Held
  <2>5. id[t] = id[s]
    BY <2>3, <2>4, <1>1, <1>2, SameID
  <2>6. HeldID[t] = id[s] /\ HeldID[t] # NoID /\ HeldID[s] = NoID
    BY <2>3, <2>5, <1>1, NoIDAssumption DEF HeldID, IDs
  <2>7. HeldID' = [HeldID EXCEPT ![s] = HeldID[t]]
    BY <1>1, <2>1, <2>6 DEF HeldID, Held
  <2>8. IssuedIDs' = IssuedIDs
    BY <1>1 DEF IssuedIDs
  <2> QED
    BY <2>6, <2>7, <2>8 DEF Shared!Load
<1>3. CASE ~(refcount[b] # 0 /\ id[s].reuse = reuse[b])
  <2>1. \A t \in Slots : Held(t)' <=> Held(t)
    BY <1>1, <1>3 DEF IInv, TypeOK, Check, Goto, Held
  <2> QED
    BY <1>1, <2>1, InvisibleStep
<1> QED
  BY <1>2, <1>3

\* SHMAllocator implements SharedBlocks.
THEOREM RefinesSharedBlocks == Spec => ImplementsSharedBlocks
<1>1. Init => Shared!Init
  BY DEF Init, Shared!Init, HeldID, Held, IssuedIDs
<1>2. IInv /\ [Next]_vars => [Shared!Next]_Shared!vars
  <2> SUFFICES ASSUME IInv, [Next]_vars
               PROVE  [Shared!Next]_Shared!vars
    OBVIOUS
  <2>1. ASSUME NEW s \in Slots, NEW b \in Blocks, Reuse(s, b) \/ Create(s, b)
        PROVE  Shared!Next
    BY <2>1, AllocationIsAbstract DEF Shared!Next
  <2>2. ASSUME NEW s \in Slots, ReleaseAllocated(s) \/ ReleaseLoaded(s)
        PROVE  Shared!Next
    BY <2>2, ReleaseIsAbstract DEF Shared!Next
  <2>3. ASSUME NEW s \in Slots, Check(s)
        PROVE  Shared!Next \/ UNCHANGED Shared!vars
    BY <2>3, LoadIsAbstract DEF Shared!Next
  <2>4. ASSUME NEW s \in Slots, NEW b \in Blocks, NEW k \in 0 .. MaxReuse, LoadBegin(s, b, k)
        PROVE  UNCHANGED Shared!vars
    <3>1. /\ drawn' = drawn /\ reuse' = reuse
          /\ \A t \in Slots : (Held(t)' <=> Held(t)) /\ (Held(t) => id'[t] = id[t])
      BY <2>4 DEF IInv, TypeOK, LoadBegin, Idle, Goto, Held, counts, names
    <3> QED
      BY <3>1, InvisibleStep
  <2>5. ASSUME NEW s \in Slots, Open(s) \/ RawAcquire(s) \/ Reject(s)
        PROVE  UNCHANGED Shared!vars
    <3>1. /\ drawn' = drawn /\ reuse' = reuse
          /\ \A t \in Slots : (Held(t)' <=> Held(t)) /\ (Held(t) => id'[t] = id[t])
      BY <2>5 DEF IInv, TypeOK, Open, RawAcquire, Reject, Empty, Goto, Held, counts, names
    <3> QED
      BY <3>1, InvisibleStep
  <2>6. CASE UNCHANGED <<st, id, reuse, drawn>>
    BY <2>6, InvisibleStep DEF Held
  <2> QED
    BY <2>1, <2>2, <2>3, <2>4, <2>5, <2>6
       DEF Next, SlotStep, ProcStep, FreeBegin, FreeNext, FreeCreated, FreeLoaded, Unlink, vars,
           counts, names
<1> QED
  BY <1>1, <1>2, Invariance, PTL DEF Spec, ImplementsSharedBlocks, Shared!Spec
=============================================================================
