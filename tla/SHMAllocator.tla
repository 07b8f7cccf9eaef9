---------------------------- MODULE SHMAllocator ----------------------------
(***************************************************************************)
(* SHMAllocator and RawSHMBlockAllocator (neuropod/multiprocess/shm/):     *)
(* blocks of shared memory with two reference counts kept in the block     *)
(* itself, and in each process a cache of the blocks it created and one of *)
(* the blocks it loaded.                                                   *)
(*                                                                         *)
(* A slot is a place where a thread keeps the shared_ptr that allocate_shm *)
(* or load_shm returned, or the call that will fill it.  Every critical    *)
(* section under a block's interprocess_mutex, a raw block's mutex or a    *)
(* cache mutex is one step, so every interleaving of the threads of all    *)
(* processes between critical sections is a behaviour.  A process that     *)
(* crashes between two steps is one that takes no further step.            *)
(***************************************************************************)
EXTENDS Naturals, FiniteSets

CONSTANTS Procs,      \* the processes
          Slots,      \* the shared pointers, of all processes
          ProcOf,     \* the process of each slot
          Blocks,     \* the blocks (uuids are never drawn twice)
          SizeOf,     \* the size of each block
          MaxReuse,   \* model bound: no block is reused more often
          NoID        \* the id of an empty slot

ASSUME FiniteAssumption == IsFiniteSet(Procs) /\ IsFiniteSet(Slots)
ASSUME ProcOfAssumption == ProcOf \in [Slots -> Procs]
ASSUME MaxReuseAssumption == MaxReuse \in Nat
ASSUME NoIDAssumption == NoID \notin [block : Blocks, reuse : Nat]

VARIABLES st,         \* what each slot holds or what its call will do next
          id,         \* the SHMBlockID of each slot
          refcount,   \* SHMBlockInternal::refcount of each block
          reuse,      \* SHMBlockInternal::reuse_count of each block
          raw,        \* RawSHMBlockInternal::refcount of each block
          drawn,      \* the blocks that were ever created
          linked,     \* the blocks whose shared memory name exists
          created,    \* created_cache_ of each process
          loaded,     \* loaded_cache_ of each process
          freeing,    \* the cache that free_unused_shm_blocks is clearing
          unlinking   \* who has dropped a raw count to zero and will remove the name

caches == <<created, loaded, freeing>>
counts == <<refcount, reuse, raw>>
names  == <<drawn, linked, unlinking>>
vars   == <<st, id, counts, names, caches>>

IDs == [block : Blocks, reuse : Nat]

SlotStates == {"idle", "allocated", "opening", "opened", "checking", "rejected", "loaded"}

TypeOK == /\ st \in [Slots -> SlotStates]
          /\ id \in [Slots -> IDs \cup {NoID}]
          /\ \A s \in Slots : st[s] = "idle" <=> id[s] = NoID
          /\ refcount \in [Blocks -> Nat]
          /\ reuse \in [Blocks -> Nat]
          /\ raw \in [Blocks -> Nat]
          /\ drawn \subseteq Blocks
          /\ linked \subseteq Blocks
          /\ created \in [Procs -> SUBSET Blocks]
          /\ loaded \in [Procs -> SUBSET Blocks]
          /\ freeing \in [Procs -> {"no", "created", "loaded"}]
          /\ unlinking \subseteq (Procs \cup Slots) \X Blocks

Init == /\ st = [s \in Slots |-> "idle"]
        /\ id = [s \in Slots |-> NoID]
        /\ refcount = [b \in Blocks |-> 0]
        /\ reuse = [b \in Blocks |-> 0]
        /\ raw = [b \in Blocks |-> 0]
        /\ drawn = {}
        /\ linked = {}
        /\ created = [p \in Procs |-> {}]
        /\ loaded = [p \in Procs |-> {}]
        /\ freeing = [p \in Procs |-> "no"]
        /\ unlinking = {}

Held(s)  == st[s] \in {"allocated", "loaded"}
Idle(s)  == st[s] = "idle" /\ \A u \in unlinking : u[1] # s
Goto(s, l) == st' = [st EXCEPT ![s] = l]
Empty(s) == Goto(s, "idle") /\ id' = [id EXCEPT ![s] = NoID]

\* Defect: the destructor looks for the last reference before it drops its own.
DropRawOffByOne(who, b) ==
  /\ raw' = [raw EXCEPT ![b] = @ - 1]
  /\ unlinking' = IF raw[b] = 0 THEN unlinking \cup {<<who, b>>} ELSE unlinking

\* ~RawSHMBlock, run by `who`: the last one to drop a block removes its name
\* after it has released the raw block's mutex.
DropRaw(who, b) ==
  /\ raw' = [raw EXCEPT ![b] = @ - 1]
  /\ unlinking' = IF raw[b] = 1 THEN unlinking \cup {<<who, b>>} ELSE unlinking

Unlink(who, b) == /\ <<who, b>> \in unlinking
                  /\ unlinking' = unlinking \ {<<who, b>>}
                  /\ linked' = linked \ {b}
                  /\ UNCHANGED <<st, id, counts, drawn, caches>>
-----------------------------------------------------------------------------
\* Defect: the allocator takes any cached block, readers or not.
UnusedOrNot(p, size) == {b \in created[p] : SizeOf[b] = size}

\* The cached blocks of a size that nobody in any process uses.
Unused(p, size) == {b \in created[p] : SizeOf[b] = size /\ refcount[b] = 0}

\* maybe_get_and_pop finds a block to reuse.  It locks the blocks of the size
\* one by one while it holds the cache mutex; a cached block that is unused
\* stays unused until it is popped, so one step sees what the scan sees.
Reuse(s, b) == /\ Idle(s)
               /\ freeing[ProcOf[s]] # "created"
               /\ b \in Unused(ProcOf[s], SizeOf[b])
               /\ reuse[b] < MaxReuse
               /\ refcount' = [refcount EXCEPT ![b] = @ + 1]
               /\ reuse' = [reuse EXCEPT ![b] = @ + 1]
               /\ created' = [created EXCEPT ![ProcOf[s]] = @ \ {b}]
               /\ id' = [id EXCEPT ![s] = [block |-> b, reuse |-> reuse[b] + 1]]
               /\ Goto(s, "allocated")
               /\ UNCHANGED <<raw, names, loaded, freeing>>

\* allocate_shm creates a block when the cache has none of the size to reuse.
\* Nobody knows the new block before the call returns.
Create(s, b) == /\ Idle(s)
                /\ freeing[ProcOf[s]] # "created"
                /\ b \notin drawn
                /\ Unused(ProcOf[s], SizeOf[b]) = {}
                /\ drawn' = drawn \cup {b}
                /\ linked' = linked \cup {b}
                /\ raw' = [raw EXCEPT ![b] = 1]
                /\ refcount' = [refcount EXCEPT ![b] = 1]
                /\ reuse' = [reuse EXCEPT ![b] = 0]
                /\ id' = [id EXCEPT ![s] = [block |-> b, reuse |-> 0]]
                /\ Goto(s, "allocated")
                /\ UNCHANGED <<unlinking, caches>>

\* The deleter of an allocated pointer: the block goes to the created cache,
\* and its raw reference with it, whether or not other processes use it.
ReleaseAllocated(s) ==
  LET b == id[s].block IN
  /\ st[s] = "allocated"
  /\ freeing[ProcOf[s]] # "created"
  /\ refcount' = [refcount EXCEPT ![b] = @ - 1]
  /\ created' = [created EXCEPT ![ProcOf[s]] = @ \cup {b}]
  /\ Empty(s)
  /\ UNCHANGED <<reuse, raw, names, loaded, freeing>>
-----------------------------------------------------------------------------
\* load_shm of any id that some allocation returned, however old it is.
LoadBegin(s, b, k) ==
  LET p == ProcOf[s] IN
  /\ Idle(s)
  /\ freeing[p] # "loaded"
  /\ b \in drawn
  /\ k \in 0 .. reuse[b]
  /\ id' = [id EXCEPT ![s] = [block |-> b, reuse |-> k]]
  /\ loaded' = [loaded EXCEPT ![p] = @ \ {b}]
  /\ Goto(s, IF b \in loaded[p] THEN "checking" ELSE "opening")
  /\ UNCHANGED <<counts, names, created, freeing>>

\* RawSHMBlock opens and maps the block, which throws once the name is gone.
Open(s) == /\ st[s] = "opening"
           /\ \/ /\ id[s].block \in linked
                 /\ Goto(s, "opened")
                 /\ UNCHANGED id
              \/ /\ id[s].block \notin linked
                 /\ Empty(s)
           /\ UNCHANGED <<counts, names, caches>>

\* It counts itself under the raw mutex, and throws when it came too late.
RawAcquire(s) ==
  LET b == id[s].block IN
  /\ st[s] = "opened"
  /\ \/ /\ raw[b] # 0
        /\ raw' = [raw EXCEPT ![b] = @ + 1]
        /\ Goto(s, "checking")
        /\ UNCHANGED id
     \/ /\ raw[b] = 0
        /\ Empty(s)
        /\ UNCHANGED raw
  /\ UNCHANGED <<refcount, reuse, names, caches>>

\* Defect: load_shm does not compare the reuse counts.
CheckRefcountOnly(s) ==
  LET b == id[s].block IN
  /\ st[s] = "checking"
  /\ \/ /\ refcount[b] # 0
        /\ refcount' = [refcount EXCEPT ![b] = @ + 1]
        /\ Goto(s, "loaded")
     \/ /\ refcount[b] = 0
        /\ Goto(s, "rejected")
        /\ UNCHANGED refcount
  /\ UNCHANGED <<id, reuse, raw, names, caches>>

\* Defect: load_shm counts the reader before it looks at the reuse count.
CheckAfterIncrement(s) ==
  LET b == id[s].block IN
  /\ st[s] = "checking"
  /\ refcount' = [refcount EXCEPT ![b] = IF @ = 0 THEN @ ELSE @ + 1]
  /\ Goto(s, IF refcount[b] # 0 /\ id[s].reuse = reuse[b] THEN "loaded" ELSE "rejected")
  /\ UNCHANGED <<id, reuse, raw, names, caches>>

\* The sanity checks of load_shm under the block's mutex.
Check(s) ==
  LET b == id[s].block IN
  /\ st[s] = "checking"
  /\ \/ /\ refcount[b] # 0
        /\ id[s].reuse = reuse[b]
        /\ refcount' = [refcount EXCEPT ![b] = @ + 1]
        /\ Goto(s, "loaded")
     \/ /\ refcount[b] = 0 \/ id[s].reuse # reuse[b]
        /\ Goto(s, "rejected")
        /\ UNCHANGED refcount
  /\ UNCHANGED <<id, reuse, raw, names, caches>>

\* Defect: a rejected load runs the deleter of a loaded pointer.
RejectAndRelease(s) == /\ st[s] = "rejected"
                       /\ DropRaw(s, id[s].block)
                       /\ refcount' = [refcount EXCEPT ![id[s].block] = @ - 1]
                       /\ Empty(s)
                       /\ UNCHANGED <<reuse, drawn, linked, caches>>

\* The exception of a failed check unwinds raw_block.
Reject(s) == /\ st[s] = "rejected"
             /\ DropRaw(s, id[s].block)
             /\ Empty(s)
             /\ UNCHANGED <<refcount, reuse, drawn, linked, caches>>

\* The deleter of a loaded pointer: the raw reference goes to the load cache, in
\* place of one that another pointer to the block left there.
ReleaseLoaded(s) ==
  LET b == id[s].block
      p == ProcOf[s]
  IN /\ st[s] = "loaded"
     /\ freeing[p] # "loaded"
     /\ refcount' = [refcount EXCEPT ![b] = @ - 1]
     /\ loaded' = [loaded EXCEPT ![p] = @ \cup {b}]
     /\ IF b \in loaded[p] THEN DropRaw(s, b) ELSE UNCHANGED <<raw, unlinking>>
     /\ Empty(s)
     /\ UNCHANGED <<reuse, drawn, linked, created, freeing>>
-----------------------------------------------------------------------------
\* free_unused_shm_blocks clears one cache after the other.  It holds the
\* cache's mutex while it drops the raw blocks one by one.
FreeBegin(p) == /\ freeing[p] = "no"
                /\ freeing' = [freeing EXCEPT ![p] = "created"]
                /\ UNCHANGED <<st, id, counts, names, created, loaded>>

FreeCreated(p, b) == /\ freeing[p] = "created"
                     /\ \A u \in unlinking : u[1] # p
                     /\ b \in created[p]
                     /\ created' = [created EXCEPT ![p] = @ \ {b}]
                     /\ DropRaw(p, b)
                     /\ UNCHANGED <<st, id, refcount, reuse, drawn, linked, loaded, freeing>>

FreeLoaded(p, b) == /\ freeing[p] = "loaded"
                    /\ \A u \in unlinking : u[1] # p
                    /\ b \in loaded[p]
                    /\ loaded' = [loaded EXCEPT ![p] = @ \ {b}]
                    /\ DropRaw(p, b)
                    /\ UNCHANGED <<st, id, refcount, reuse, drawn, linked, created, freeing>>

FreeNext(p) == /\ \A u \in unlinking : u[1] # p
               /\ \/ /\ freeing[p] = "created" /\ created[p] = {}
                     /\ freeing' = [freeing EXCEPT ![p] = "loaded"]
                  \/ /\ freeing[p] = "loaded" /\ loaded[p] = {}
                     /\ freeing' = [freeing EXCEPT ![p] = "no"]
               /\ UNCHANGED <<st, id, counts, names, created, loaded>>
-----------------------------------------------------------------------------
SlotStep(s) == \/ \E b \in Blocks : Reuse(s, b) \/ Create(s, b)
               \/ \E b \in Blocks, k \in 0 .. MaxReuse : LoadBegin(s, b, k)
               \/ ReleaseAllocated(s) \/ Open(s) \/ RawAcquire(s)
               \/ Check(s) \/ Reject(s) \/ ReleaseLoaded(s)

ProcStep(p) == \/ FreeBegin(p) \/ FreeNext(p)
               \/ \E b \in Blocks : FreeCreated(p, b) \/ FreeLoaded(p, b)

Next == \/ \E s \in Slots : SlotStep(s)
        \/ \E p \in Procs : ProcStep(p)
        \/ \E u \in unlinking : Unlink(u[1], u[2])

Spec == Init /\ [][Next]_vars
-----------------------------------------------------------------------------
\* The slots that hold a pointer to a block, and all that count for it as raw
\* references: the calls past the raw constructor and the cache entries.
Holders(b) == {s \in Slots : Held(s) /\ id[s].block = b}

RawSlots(b) == {s \in Slots : /\ st[s] \in {"allocated", "checking", "rejected", "loaded"}
                              /\ id[s].block = b}
Owns(s, b) == st[s] = "allocated" /\ id[s].block = b

RawCreated(b) == {p \in Procs : b \in created[p]}
RawLoaded(b)  == {p \in Procs : b \in loaded[p]}

(***************************************************************************)
(* The cross-process refcount is the number of live pointers to the block  *)
(* in all processes, through reuse, failed loads and both deleters.        *)
(***************************************************************************)
RefcountExact == \A b \in Blocks : refcount[b] = Cardinality(Holders(b))

(***************************************************************************)
(* The raw refcount is the number of RawSHMBlocks that exist in all        *)
(* processes: a cache hit, an overwritten cache entry or an exception      *)
(* neither loses a count nor counts twice.                                 *)
(***************************************************************************)
RawRefcountExact ==
  \A b \in Blocks : raw[b] = Cardinality(RawSlots(b)) + Cardinality(RawCreated(b))
                               + Cardinality(RawLoaded(b))

(***************************************************************************)
(* Both counts of a block, whose life ends at zero of the one and whose     *)
(* memory may be written again at zero of the other.                       *)
(***************************************************************************)
CountsExact == RefcountExact /\ RawRefcountExact

(***************************************************************************)
(* Whoever holds a pointer holds the generation its id names: the creator  *)
(* does not reuse the memory under a reader, and nobody removes the name   *)
(* while a pointer is alive.                                               *)
(***************************************************************************)
HeldMemoryIsStable ==
  \A s \in Slots : Held(s) => /\ id[s].reuse = reuse[id[s].block]
                              /\ id[s].block \in linked
                              /\ \A u \in unlinking : u[2] # id[s].block

(***************************************************************************)
(* A block has one owner: an allocation that is still alive or the created *)
(* cache of one process, so that no two allocations write the same memory. *)
(***************************************************************************)
OneOwner ==
  \A b \in Blocks :
    /\ \A s, t \in Slots : Owns(s, b) /\ Owns(t, b) => s = t
    /\ \A p, q \in Procs : b \in created[p] /\ b \in created[q] => p = q
    /\ \A s \in Slots, p \in Procs : ~(Owns(s, b) /\ b \in created[p])

(***************************************************************************)
(* When no pointer, call or cache entry is left in any process, no shared  *)
(* memory is left behind either (unless a process died).                   *)
(***************************************************************************)
NoLeak == /\ \A s \in Slots : st[s] = "idle"
          /\ \A p \in Procs : created[p] = {} /\ loaded[p] = {}
          /\ unlinking = {}
          => linked = {}

\* What a pointer's holder sees.
HeldID == [s \in Slots |-> IF Held(s) THEN id[s] ELSE NoID]
IssuedIDs == {i \in [block : Blocks, reuse : 0 .. MaxReuse] :
                i.block \in drawn /\ i.reuse <= reuse[i.block]}

Shared == INSTANCE SharedBlocks
            WITH held <- HeldID, issued <- IssuedIDs, Reuses <- 0 .. MaxReuse

(***************************************************************************)
(* The two refcounts, the reuse count and the caches implement shared      *)
(* blocks: ids are unique, reuse waits for every reader, and a stale id is *)
(* refused however late it arrives.                                        *)
(***************************************************************************)
ImplementsSharedBlocks == Shared!Spec
=============================================================================
