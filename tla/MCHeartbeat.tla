---------------------------- MODULE MCHeartbeat ----------------------------
(***************************************************************************)
(* An instance of Heartbeat for TLC.  A unit of time is half a second:     *)
(* Interval and Timeout have the values of the code.                       *)
(***************************************************************************)
EXTENDS Heartbeat
=============================================================================
