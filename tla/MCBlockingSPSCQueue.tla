------------------------ MODULE MCBlockingSPSCQueue ------------------------
(***************************************************************************)
(* A small instance of BlockingSPSCQueue for TLC.                          *)
(***************************************************************************)
EXTENDS BlockingSPSCQueue

CONSTANTS p1, p2, c1, c2

MCProducers == {p1, p2}
MCConsumers == {c1, c2}
MCItems     == {1, 2}
=============================================================================
