---------------------------- MODULE MCTransport ----------------------------
(* Five calls of which one reverts, against an endpoint capped at one, two   *)
(* or four of them; two threads, two sweeps a run, and a run after that may  *)
(* find another cap.                                                        *)
EXTENDS Transport
MCLadder == <<4, 2, 1>>
=============================================================================
