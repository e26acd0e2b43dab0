---------------------------- MODULE LossEvidence ----------------------------
(***************************************************************************)
(* The proof that the configured loss really happened inside the           *)
(* measurement window: a goroutine of Run samples the counters of both     *)
(* egresses after the window opens and before it closes                    *)
(* (orchestrator/run/netem_evidence.go), and the gate accepts or refuses   *)
(* the samples (orchestrator/run/gate.go).                                 *)
(*                                                                         *)
(* Random loss counts the packets netem dropped.  Deterministic loss       *)
(* counts the packets that passed a trace; the trace says which of them    *)
(* were dropped.  Time is a clock of ticks that runs on between any two    *)
(* steps of the collector; traffic flows all the time.                     *)
(***************************************************************************)
EXTENDS Integers, FiniteSets, Sequences

CONSTANTS
  StartAt, StopAt,  \* the effective measurement window
  LastTick,         \* bound: the clock stops here
  MinLead,          \* 50 ms in ticks
  Slack,            \* 10 ms in ticks
  Trace,            \* the deterministic trace: which positions are dropped
  MaxReplaced       \* bound: qdiscs that are replaced under the collector

ASSUME EvidenceAssumption ==
  /\ {StartAt, StopAt, LastTick, MinLead, Slack, MaxReplaced} \subseteq Nat
  /\ StartAt < StopAt /\ Trace \in Seq(BOOLEAN) /\ Trace # <<>>

Directions == {"server_egress", "client_egress"}

VARIABLES
  loss,      \* the configured loss: "random" or "trace"
  now,       \* CLOCK_MONOTONIC
  phase,     \* where the collector is
  counter,   \* the kernel's counter of each egress
  dropped,   \* the packets dropped inside the window so far
  before, after,    \* the counters as sampled; -1 for none
  begun, ended,     \* when the sampling began and ended, for each sample
  errors,    \* the collector noted an error
  replaced,  \* qdiscs replaced so far
  accepted   \* what the gate said: "no", "yes" or "pending"

evidenceVars == <<loss, now, phase, counter, dropped, before, after, begun, ended,
                  errors, replaced, accepted>>

Samples == {"before", "after"}
NoSample == [d \in Directions |-> -1]

EvidenceInit ==
  /\ loss \in {"random", "trace"}
  /\ now = 0 /\ phase = "waiting"
  /\ counter = [d \in Directions |-> 0]
  /\ dropped = [d \in Directions |-> 0]
  /\ before = NoSample /\ after = NoSample
  /\ begun = [s \in Samples |-> 0] /\ ended = [s \in Samples |-> 0]
  /\ errors = FALSE /\ replaced = 0 /\ accepted = "pending"

-----------------------------------------------------------------------------
(* The kernel                                                              *)

InWindow == StartAt <= now /\ now < StopAt

(* A tick: on each egress a packet may pass, and be dropped.  A trace      *)
(* decides by the packet's position, which wraps around.                   *)
Drops(position) == Trace[(position % Len(Trace)) + 1]

Tick ==
  /\ now < LastTick /\ phase \notin {"sampled", "done"}
  /\ now' = now + 1
  /\ \E hit \in SUBSET Directions :
       /\ counter' = [d \in Directions |-> counter[d] + (IF d \in hit THEN 1 ELSE 0)]
       /\ dropped' = [d \in Directions |-> dropped[d] +
            (IF d \in hit /\ InWindow /\ (loss = "random" \/ Drops(counter[d])) THEN 1 ELSE 0)]
  /\ UNCHANGED <<loss, phase, before, after, begun, ended, errors, replaced, accepted>>

(* A replaced qdisc counts from zero.                                      *)
Replace(d) ==
  /\ loss = "random" /\ phase \notin {"sampled", "done"} /\ replaced < MaxReplaced
  /\ replaced' = replaced + 1 /\ counter' = [counter EXCEPT ![d] = 0]
  /\ UNCHANGED <<loss, now, phase, dropped, before, after, begun, ended, errors, accepted>>

-----------------------------------------------------------------------------
(* The collector                                                           *)

(* waitUntilMonotonic returns at its target or any time later.             *)
Reached(target) == now >= target

(* The first sample begins once the window is open.                        *)
BeginBefore ==
  /\ phase = "waiting" /\ Reached(StartAt)
  /\ begun' = [begun EXCEPT !["before"] = now] /\ phase' = "before_server"
  /\ UNCHANGED <<loss, now, counter, dropped, before, after, ended, errors, replaced, accepted>>

(* The counters are read one after the other, the server's first.          *)
ReadBefore ==
  /\ \/ /\ phase = "before_server" /\ phase' = "before_client"
        /\ before' = [before EXCEPT !["server_egress"] = counter["server_egress"]]
        /\ UNCHANGED ended
     \/ /\ phase = "before_client" /\ phase' = "between"
        /\ before' = [before EXCEPT !["client_egress"] = counter["client_egress"]]
        /\ ended' = [ended EXCEPT !["before"] = now]
  /\ UNCHANGED <<loss, now, counter, dropped, after, begun, errors, replaced, accepted>>

(* How long before the window closes the second sample begins: four times  *)
(* as long as the first one took, and a margin.                            *)
Lead ==
  LET wanted == 4 * (ended["before"] - begun["before"]) + Slack
  IN IF wanted < MinLead THEN MinLead ELSE wanted

FinalCaptureAt == StopAt - Lead

(* When that time is not past the first sample, the error is noted and the *)
(* second sample follows at once; otherwise it waits.                      *)
BeginAfter ==
  /\ phase = "between"
  /\ \/ FinalCaptureAt <= ended["before"] /\ errors' = TRUE
     \/ FinalCaptureAt > ended["before"] /\ Reached(FinalCaptureAt) /\ UNCHANGED errors
  /\ begun' = [begun EXCEPT !["after"] = now] /\ phase' = "after_server"
  /\ UNCHANGED <<loss, now, counter, dropped, before, after, ended, replaced, accepted>>

ReadAfter ==
  /\ \/ /\ phase = "after_server" /\ phase' = "after_client"
        /\ after' = [after EXCEPT !["server_egress"] = counter["server_egress"]]
        /\ UNCHANGED ended
     \/ /\ phase = "after_client" /\ phase' = "sampled"
        /\ after' = [after EXCEPT !["client_egress"] = counter["client_egress"]]
        /\ ended' = [ended EXCEPT !["after"] = now]
  /\ UNCHANGED <<loss, now, counter, dropped, before, begun, errors, replaced, accepted>>

(* runCtx ends during a wait, or a read fails: the samples are incomplete, *)
(* which the gate will refuse.                                             *)
GiveUpSampling ==
  /\ phase \notin {"sampled", "done"}
  /\ phase' = "done" /\ errors' = TRUE /\ accepted' = "no"
  /\ UNCHANGED <<loss, now, counter, dropped, before, after, begun, ended, replaced>>

-----------------------------------------------------------------------------
(* The gate                                                                *)

(* Fault: the end of the second sample is not compared with the window.    *)
FaultWithinBounds ==
  /\ begun["before"] >= StartAt
  /\ ended["before"] <= begun["after"]

(* validateQdiscSnapshotBounds, and the bounds of deterministic samples,   *)
(* which may not even touch.                                               *)
WithinBounds ==
  /\ begun["before"] >= StartAt
  /\ ended["after"] <= StopAt
  /\ IF loss = "random" THEN ended["before"] <= begun["after"]
                        ELSE ended["before"] < begun["after"]

(* The drops of a trace between two counters: those of the whole rounds,   *)
(* and of what is left                                                     *)
CountDropsInRange(from, to) ==
  LET length == Len(Trace)
      rounds == (to - from) \div length
      rest == (to - from) % length
  IN rounds * Cardinality({i \in DOMAIN Trace : Trace[i]})
       + Cardinality({i \in 0..(rest - 1) : Drops((from % length) + i)})

(* The drops the evidence shows: the difference of the counters, or the    *)
(* dropping positions of the trace between them.                           *)
Shown(d) ==
  IF loss = "random" THEN after[d] - before[d] ELSE CountDropsInRange(before[d], after[d])

(* A counter that ran backwards belongs to another qdisc.                  *)
Regressed(d) == after[d] < before[d]

(* No counter ran backwards, and every direction shows a drop.             *)
ValidateNetemLossEvidence ==
  /\ ~errors /\ WithinBounds
  /\ \A d \in Directions : ~Regressed(d) /\ Shown(d) > 0

Validate ==
  /\ phase = "sampled"
  /\ phase' = "done"
  /\ accepted' = IF ValidateNetemLossEvidence THEN "yes" ELSE "no"
  /\ UNCHANGED <<loss, now, counter, dropped, before, after, begun, ended, errors, replaced>>

EvidenceNext ==
  \/ Tick \/ (\E d \in Directions : Replace(d))
  \/ BeginBefore \/ ReadBefore \/ BeginAfter \/ ReadAfter \/ GiveUpSampling \/ Validate

EvidenceSpec == EvidenceInit /\ [][EvidenceNext]_evidenceVars

-----------------------------------------------------------------------------
(* Accepted evidence proves loss inside the window: on every direction it  *)
(* shows a drop, and no more drops than the window really had - however    *)
(* slow the samples were and whichever counter started over.               *)
EvidenceIsInner ==
  accepted = "yes" => \A d \in Directions : Shown(d) \in 1..dropped[d]
=============================================================================
