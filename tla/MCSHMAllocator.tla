--------------------------- MODULE MCSHMAllocator ---------------------------
(***************************************************************************)
(* A small instance of SHMAllocator for TLC: two processes with two slots  *)
(* each, so that both deleters, a load cache entry overwritten by a second *)
(* pointer, loads that race a free or a reuse, and two processes that      *)
(* clear their caches at once all happen.  Blocks meet only in the choice  *)
(* of an unused cached block, so one block shows what its users can do.    *)
(***************************************************************************)
EXTENDS SHMAllocator, TLC

CONSTANTS main, worker, m1, m2, w1, w2, b1

MCProcs  == {main, worker}
MCSlots  == {m1, m2, w1, w2}
MCProcOf == (m1 :> main) @@ (m2 :> main) @@ (w1 :> worker) @@ (w2 :> worker)
MCBlocks == {b1}
MCSizeOf == [b \in MCBlocks |-> 1]

\* The slots of a process are interchangeable.
Symmetry == Permutations({m1, m2}) \cup Permutations({w1, w2})
=============================================================================
