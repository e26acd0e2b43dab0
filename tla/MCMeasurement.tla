--------------------------- MODULE MCMeasurement ---------------------------
(* Instances for TLC of the parts that make a measurement one can trust:   *)
(* the rig (NetnsRig), the loss (LossEvidence), the load (OfferedLoad),    *)
(* the score of a ramp (RampScore) and the numbers of a run (MetricsMerge). *)
(* They share no state, so a behaviour follows one of them.                *)
EXTENDS NetnsRig, LossEvidence, OfferedLoad, RampScore, MetricsMerge

MCTrace == <<FALSE, TRUE>>
MCClassOf == [k \in {"input", "state"} |-> "must_deliver"]

VARIABLE follows   \* the one this behaviour is about
Only(name) == follows = name /\ UNCHANGED follows

MeasurementInit ==
  /\ follows \in {"rig", "loss", "load", "ramp", "metrics"}
  /\ RigInit /\ EvidenceInit /\ LoadInit /\ RampInit /\ MetricsInit
  /\ follows # "loss" => loss = "random"
  /\ follows # "load" => load = [interval |-> 1, first |-> 0, period |-> 1, duration |-> 1]

MeasurementNext ==
  \/ /\ Only("rig") /\ RigNext
     /\ UNCHANGED <<evidenceVars, loadVars, rampVars, metricsVars>>
  \/ /\ Only("loss") /\ EvidenceNext
     /\ UNCHANGED <<rigVars, loadVars, rampVars, metricsVars>>
  \/ /\ Only("load") /\ LoadNext
     /\ UNCHANGED <<rigVars, evidenceVars, rampVars, metricsVars>>
  \/ /\ Only("ramp") /\ RampNext
     /\ UNCHANGED <<rigVars, evidenceVars, loadVars, metricsVars>>
  \/ /\ Only("metrics") /\ MetricsNext
     /\ UNCHANGED <<rigVars, evidenceVars, loadVars, rampVars>>

MeasurementSpec ==
  MeasurementInit
  /\ [][MeasurementNext]_<<follows, rigVars, evidenceVars, loadVars, rampVars, metricsVars>>
=============================================================================
