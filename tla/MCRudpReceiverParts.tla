------------------------ MODULE MCRudpReceiverParts ------------------------
(* Instances for TLC of the three parts that the receive path is built on:  *)
(* the packet numbers (AckTracker), the message ids (RudpDedup) and the     *)
(* fragments (RudpReassembly).  They share no state, so a behaviour follows *)
(* one of them.                                                             *)
EXTENDS AckTracker, RudpDedup, RudpReassembly

VARIABLE follows   \* the one this behaviour is about

partsVars == <<ackVars, dedupVars, reasmVars, follows>>

PartsInit ==
  /\ AckInit /\ DedupInit /\ ReasmInit
  /\ follows \in {"packets", "messages", "fragments"}
PartsNext ==
  \/ follows = "packets" /\ AckNext /\ UNCHANGED <<dedupVars, reasmVars, follows>>
  \/ follows = "messages" /\ DedupNext /\ UNCHANGED <<ackVars, reasmVars, follows>>
  \/ follows = "fragments" /\ ReasmNext /\ UNCHANGED <<ackVars, dedupVars, follows>>

(* What ReasmFairness says of the behaviours that follow the fragments      *)
PartsFairness ==
  /\ \A m \in Messages, f \in Frags :
       WF_partsVars(follows = "fragments" /\ Retransmit(m, f)
                    /\ UNCHANGED <<ackVars, dedupVars, follows>>)
  /\ WF_partsVars(follows = "fragments" /\ AppRecv
                  /\ UNCHANGED <<ackVars, dedupVars, follows>>)
PartsSpec == PartsInit /\ [][PartsNext]_partsVars /\ PartsFairness

(* ReceivedUnlessExpired of the behaviours that follow the fragments: where *)
(* the places suffice, process_data_frame and rudp_recv get every message   *)
(* through, unless a slot of its own connection expired.                    *)
FragmentsArrive == follows = "fragments" => ReceivedUnlessExpired
=============================================================================
