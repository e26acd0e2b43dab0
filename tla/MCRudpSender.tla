---------------------------- MODULE MCRudpSender ----------------------------
(* Instances of RudpSender for TLC. *)
EXTENDS RudpSender
=============================================================================
