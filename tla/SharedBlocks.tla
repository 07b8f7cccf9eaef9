---------------------------- MODULE SharedBlocks ----------------------------
(***************************************************************************)
(* What SHMAllocator (neuropod/multiprocess/shm/shm_allocator.hh) promises *)
(* to the holders of its shared pointers: an id is issued for one          *)
(* allocation, a block is issued again only when nobody in any process     *)
(* holds it, and an id can be loaded only while somebody holds it.         *)
(* SHMAllocator is shown to implement it.                                  *)
(***************************************************************************)
CONSTANTS Slots,      \* the places a process keeps a shared pointer in
          Blocks,     \* the blocks of shared memory
          Reuses,     \* the values of reuse_count
          NoID        \* what an empty slot holds

VARIABLES held,       \* the id each slot holds
          issued      \* the ids that allocations have returned

vars == <<held, issued>>

IDs == [block : Blocks, reuse : Reuses]

Init == held = [s \in Slots |-> NoID] /\ issued = {}

Allocate(s, i) == /\ held[s] = NoID
                  /\ i \notin issued
                  /\ \A t \in Slots : held[t] # NoID => held[t].block # i.block
                  /\ held' = [held EXCEPT ![s] = i]
                  /\ issued' = issued \cup {i}

Load(s, t) == /\ held[s] = NoID
              /\ held[t] # NoID
              /\ held' = [held EXCEPT ![s] = held[t]]
              /\ UNCHANGED issued

Release(s) == /\ held[s] # NoID
              /\ held' = [held EXCEPT ![s] = NoID]
              /\ UNCHANGED issued

Next == \E s \in Slots : \/ \E i \in IDs : Allocate(s, i)
                         \/ \E t \in Slots : Load(s, t)
                         \/ Release(s)

Spec == Init /\ [][Next]_vars
=============================================================================
