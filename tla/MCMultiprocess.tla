--------------------------- MODULE MCMultiprocess ---------------------------
(***************************************************************************)
(* An instance of Multiprocess for TLC.                                    *)
(***************************************************************************)
EXTENDS Multiprocess
=============================================================================
