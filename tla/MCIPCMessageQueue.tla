------------------------- MODULE MCIPCMessageQueue -------------------------
(***************************************************************************)
(* An instance of IPCMessageQueue for TLC: with queues of one, the second  *)
(* message to main can find its out queue full.                            *)
(***************************************************************************)
EXTENDS IPCMessageQueue

OneAndTwo == [main |-> 1, worker |-> 2]
=============================================================================
