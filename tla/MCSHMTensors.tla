---------------------------- MODULE MCSHMTensors ----------------------------
(* Two names, so that a map may be large, and as many ids and objects as an  *)
(* input and an output map need at a time.                                   *)
EXTENDS SHMTensors, TLC

CONSTANTS x, y, u, v

MCNames  == {x, y}
MCValues == {u, v}
MCIds    == 1 .. 6
Symmetry == Permutations(MCNames) \cup Permutations(MCValues)
=============================================================================
