------------------------- MODULE MCControlBarrier -------------------------
(* ControlBarrier with one server and one client as model values.            *)
EXTENDS ControlBarrier
CONSTANTS server, c1
===========================================================================
