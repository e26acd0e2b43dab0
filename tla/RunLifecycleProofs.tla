------------------------- MODULE RunLifecycleProofs -------------------------
(***************************************************************************)
(* For any number of clients, steps and failures of the runner's tools:    *)
(* the count of waitEvents is exact, nothing outlives a run, a VALID run   *)
(* is whole, and FAIL and INVALID are told apart by cause.                 *)
(*                                                                         *)
(* The argument: where Run is tells what was started and whether it was    *)
(* stopped; whatever stops a run leaves a reason, and a blame unless it    *)
(* was the operator; and the records of the schedule tell what the link    *)
(* is, as long as none carries an error.                                   *)
(***************************************************************************)
EXTENDS RunLifecycle, FiniteSetTheorems, TLAPS

Starting == {"start_server", "await_ready", "start_clients"}
Begun == {"barrier", "await_control", "drain", "redrain", "join"}
Aborting == {"abort", "abort_control", "abort_join"}

(* The types, in parts                                                     *)
RunTypes ==
  /\ watch \in Watches
  /\ pc \in Starting \union Begun \union Aborting \union {"closed"}
  /\ canceled \in BOOLEAN /\ stopped \in BOOLEAN
ProcTypes ==
  /\ proc \in [Procs -> {"none", "running"} \union Ended]
  /\ done \subseteq Started /\ seen \subseteq Started
ControlTypes ==
  /\ control \in {"hello", "window", "ok", "failed", "context"} /\ issued \in BOOLEAN
  /\ result \in {"none", "ok", "failed", "context"}
WatchTypes ==
  /\ watcher \in {"off", "waiting", "ended"} \union Egress
  /\ applied \in Seq(BOOLEAN) /\ Len(applied) <= Steps
  /\ link \in [Egress -> 0..Steps]
ReasonTypes == reasons \subseteq Reasons /\ blame \subseteq Reasons /\ faults \in 0..Faults
JudgeTypes ==
  /\ kind \in Kinds \union {"none"}
  /\ verdict \in {"none", "VALID", "INVALID"}
  /\ outcome \in {"none", "PASS", "FAIL", "INVALID", "CENSORED"}

(* Where Run is tells which processes were started.                        *)
StartInv ==
  /\ pc = "start_server" => Started = {}
  /\ pc = "await_ready" => Started = {"server"} /\ seen = {}
  /\ pc = "start_clients" => "server" \in Started
  /\ pc \in Begun => Started = Procs

(* Only what ended is counted, and what is killed was cut off.             *)
ProcInv ==
  /\ \A p \in seen : proc[p] \in Ended
  /\ \A p \in Procs : proc[p] = "killed" => Cut

(* Where Run is tells whether runCtx was ended; at the end of an orderly   *)
(* drain nothing is running.                                               *)
StopInv ==
  /\ pc \in Starting \union {"barrier"} =>
       ~stopped /\ result = "none" /\ reasons = {} /\ blame = {}
  /\ pc \in Aborting \union {"await_control", "redrain"} => stopped
  /\ pc \in {"join", "closed"} => stopped \/ Running = {}

(* What a result is worth                                                  *)
ControlInv ==
  /\ control = "ok" => done = Procs
  /\ result = "ok" => control = "ok"
  /\ control = "context" => Cut
  /\ result \in {"failed", "context"} => reasons # {}
  /\ pc \in Aborting \union {"await_control", "redrain"} => reasons # {}

(* The records of the schedule tell the link, while none carries an error. *)
AllApplied == \A i \in DOMAIN applied : applied[i]
LinkInv ==
  AllApplied =>
    /\ link["client_egress"] = Len(applied)
    /\ link["server_egress"] = Len(applied) + (IF watcher = "client_egress" THEN 1 ELSE 0)
WatchInv ==
  /\ watcher = "off" <=> watch = "none"
  /\ watcher = "waiting" => applied = <<>>
  /\ watcher \in Egress => Len(applied) < Steps
  /\ watch # "schedule" => watcher # "client_egress"
  /\ watch = "schedule" => LinkInv

(* Why a run was stopped: what is blamed, and which reasons there are      *)
CauseInv ==
  pc # "closed" =>
    /\ blame \subseteq {"exited_early", "exit_timeout", "exit_code"}
    /\ "exit_code" \in blame => pc = "join" /\ \E p \in seen : proc[p] # "ok"
    /\ (stopped /\ ~canceled /\ pc \in Begun) =>
         result = "failed" \/ "exited_early" \in blame \/ "exit_timeout" \in blame
    /\ "not_ready" \in reasons => pc \in Aborting /\ blame = {}
    /\ "canceled" \in reasons => canceled
    /\ "start" \in reasons => canceled \/ faults > 0
    /\ reasons \intersect {"sampler", "evidence", "schedule", "done_stats", "stats"} = {}

(* Only a run that is over is judged, and nothing happens to it any more.  *)
JudgedInv ==
  /\ pc # "closed" => kind = "none" /\ verdict = "none" /\ outcome = "none"
  /\ pc = "closed" => watcher \in {"off", "ended"}
  /\ ValidIsWhole /\ OutcomeIsJust

IInv ==
  /\ RunTypes /\ ProcTypes /\ ControlTypes /\ WatchTypes /\ ReasonTypes /\ JudgeTypes
  /\ RemainingExact /\ StartInv /\ ProcInv /\ StopInv /\ ControlInv /\ WatchInv /\ CauseInv /\ JudgedInv

USE LifecycleAssumption DEF LifecycleAssumption, controlVars

-----------------------------------------------------------------------------
(* The processes and the sets made of them are finite.                     *)
LEMMA FiniteProcs ==
  /\ IsFiniteSet(Procs)
  /\ \A S \in SUBSET Procs : IsFiniteSet(S) /\ Cardinality(S) \in 0..Cardinality(Procs)
<1>1. IsFiniteSet({"server"}) /\ IsFiniteSet(Procs)
  BY FS_Singleton, FS_Union DEF Procs
<1>2. ASSUME NEW S \in SUBSET Procs
      PROVE  IsFiniteSet(S) /\ Cardinality(S) \in 0..Cardinality(Procs)
  <2>1. IsFiniteSet(S) /\ Cardinality(S) <= Cardinality(Procs)  BY <1>1, FS_Subset
  <2>2. Cardinality(S) \in Nat /\ Cardinality(Procs) \in Nat  BY <1>1, <2>1, FS_CardinalityType
  <2> QED BY <2>1, <2>2
<1> QED BY <1>1, <1>2

(* The parts make the type invariant; the count is in its range, being     *)
(* exact.                                                                  *)
LEMMA TypesFollow == IInv => LifecycleTypeOK
<1> SUFFICES ASSUME IInv PROVE LifecycleTypeOK  OBVIOUS
<1>1. remaining \in 0..Cardinality(Procs)
  <2>1. Unseen \in SUBSET Procs  BY DEF Unseen, Started
  <2> QED BY <2>1, FiniteProcs DEF IInv, RemainingExact
<1> QED
  BY <1>1 DEF IInv, LifecycleTypeOK, RunTypes, ProcTypes, ControlTypes, WatchTypes, ReasonTypes,
              JudgeTypes, Starting, Begun, Aborting

LEMMA NoRecords ==
  /\ 0 \in 0..Steps /\ 0 \in 0..Faults
  /\ <<>> \in Seq(BOOLEAN) /\ Len(<<>>) = 0 /\ DOMAIN <<>> = {}
OBVIOUS

LEMMA InitInv == Init => IInv
<1> SUFFICES ASSUME Init PROVE IInv  OBVIOUS
<1>1. Started = {} /\ Unseen = {} /\ Running = {}  BY DEF Init, Started, Unseen, Running
<1>2. RemainingExact  BY <1>1, FS_EmptySet DEF Init, RemainingExact
<1>3. RunTypes /\ ControlTypes /\ ProcTypes
  BY <1>1 DEF Init, RunTypes, ControlTypes, ProcTypes, Starting
<1>4. ReasonTypes /\ JudgeTypes  BY NoRecords DEF Init, ReasonTypes, JudgeTypes
<1>5. StartInv /\ ProcInv /\ StopInv /\ ControlInv
  BY <1>1 DEF Init, StartInv, ProcInv, StopInv, ControlInv, Begun, Aborting, Starting
<1>6. watcher \in {"off", "waiting"} /\ (watcher = "off" <=> watch = "none")
  BY DEF Init
<1>7. applied \in Seq(BOOLEAN) /\ Len(applied) = 0 /\ applied = <<>>  BY NoRecords DEF Init
<1>8. /\ link \in [Egress -> 0..Steps]
      /\ link["server_egress"] = 0 /\ link["client_egress"] = 0
  BY NoRecords DEF Init, Egress
<1>9. 0 <= Steps  BY NoRecords
<1>10. WatchTypes  BY <1>6, <1>7, <1>8, <1>9 DEF WatchTypes
<1>11. WatchInv
  <2>1. watcher \notin Egress /\ watcher # "client_egress"  BY <1>6 DEF Egress
  <2> QED BY <1>6, <1>7, <1>8, <2>1 DEF WatchInv, LinkInv
<1>12. CauseInv /\ JudgedInv
  BY DEF Init, CauseInv, JudgedInv, ValidIsWhole, OutcomeIsJust, FailHasCause, CrashIsFailure, Crashed
<1> QED BY <1>2, <1>3, <1>4, <1>5, <1>10, <1>11, <1>12 DEF IInv

(* A step before the judgement judges nothing.                             *)
LEMMA NotJudged ==
  ASSUME IInv, pc # "closed", pc' # "closed", UNCHANGED judgeVars
  PROVE  JudgedInv' /\ JudgeTypes'
BY DEF IInv, JudgedInv, JudgeTypes, judgeVars, ValidIsWhole, OutcomeIsJust, FailHasCause,
       CrashIsFailure, Crashed

-----------------------------------------------------------------------------
(* Around the runner                                                       *)

LEMMA CancelStep == ASSUME IInv, Cancel PROVE IInv'
<1> USE DEF Cancel, AtWork, procVars, sideVars, judgeVars
<1>1. RunTypes' /\ ControlTypes'  BY DEF IInv, RunTypes, ControlTypes
<1>8. ProcTypes' /\ WatchTypes' /\ ReasonTypes'
  BY DEF IInv, ProcTypes, WatchTypes, ReasonTypes, Started
<1>2. RemainingExact' /\ StartInv'  BY DEF IInv, RemainingExact, StartInv, Unseen, Started
<1>3. ProcInv' /\ StopInv' /\ ControlInv'
  BY DEF IInv, ProcInv, StopInv, ControlInv, Cut, Running
<1>4. WatchInv'  BY DEF IInv, WatchInv, LinkInv, AllApplied
<1>5. CauseInv'  BY DEF IInv, CauseInv
<1>6. JudgedInv' /\ JudgeTypes'  BY NotJudged
<1> QED BY <1>1, <1>2, <1>3, <1>4, <1>5, <1>6, <1>8 DEF IInv

LEMMA SendDoneStep == ASSUME IInv, NEW p \in Procs, SendDone(p) PROVE IInv'
<1> USE DEF SendDone, AtWork, procVars, sideVars, judgeVars
<1>1. RunTypes' /\ ControlTypes'  BY DEF IInv, RunTypes, ControlTypes
<1>8. ProcTypes' /\ WatchTypes' /\ ReasonTypes'
  BY DEF IInv, ProcTypes, WatchTypes, ReasonTypes, Started
<1>2. RemainingExact' /\ StartInv'  BY DEF IInv, RemainingExact, StartInv, Unseen, Started
<1>3. ProcInv' /\ StopInv' /\ ControlInv'
  BY DEF IInv, ProcInv, StopInv, ControlInv, Cut, Running
<1>4. WatchInv'  BY DEF IInv, WatchInv, LinkInv, AllApplied
<1>5. CauseInv'  BY DEF IInv, CauseInv
<1>6. JudgedInv' /\ JudgeTypes'  BY NotJudged
<1> QED BY <1>1, <1>2, <1>3, <1>4, <1>5, <1>6, <1>8 DEF IInv

LEMMA ExitStep == ASSUME IInv, NEW p \in Procs, NEW how \in Ended, Exit(p, how) PROVE IInv'
<1> USE DEF Exit, AtWork, procVars, sideVars, judgeVars
<1>1. proc' = [proc EXCEPT ![p] = how] /\ proc \in [Procs -> {"none", "running"} \union Ended]
  BY DEF IInv, ProcTypes
<1>2. how # "none" /\ how # "running"  BY DEF Ended
<1>3. Started' = Started /\ Unseen' = Unseen /\ Running' \subseteq Running
  BY <1>1, <1>2 DEF Started, Unseen, Running
<1>4. RunTypes' /\ ControlTypes' /\ ReasonTypes'  BY DEF IInv, RunTypes, ControlTypes, ReasonTypes
<1>5. ProcTypes' /\ WatchTypes'  BY <1>1, <1>3 DEF IInv, ProcTypes, WatchTypes
<1>6. RemainingExact' /\ StartInv'  BY <1>3 DEF IInv, RemainingExact, StartInv
<1>7. p \notin seen  BY DEF IInv, ProcInv, Ended
<1>8. ProcInv'  BY <1>1, <1>7 DEF IInv, ProcTypes, Started, ProcInv, Cut
<1>9. StopInv' /\ ControlInv'  BY <1>3 DEF IInv, StopInv, ControlInv, Cut
<1>10. WatchInv'  BY DEF IInv, WatchInv, LinkInv, AllApplied
<1>11. \A q \in seen : proc'[q] = proc[q]  BY <1>1, <1>7 DEF IInv, ProcTypes, Started
<1>12. CauseInv'  BY <1>11 DEF IInv, CauseInv
<1>13. JudgedInv' /\ JudgeTypes'  BY NotJudged
<1> QED BY <1>4, <1>5, <1>6, <1>8, <1>9, <1>10, <1>12, <1>13 DEF IInv

LEMMA ControlStep ==
  ASSUME IInv, NEW to \in {"window", "ok", "failed", "context"}, Control(to)
  PROVE  IInv'
<1> USE DEF Control, AtWork, procVars, sideVars, judgeVars
<1>1. RunTypes' /\ ControlTypes'  BY DEF IInv, RunTypes, ControlTypes
<1>8. ProcTypes' /\ WatchTypes' /\ ReasonTypes'
  BY DEF IInv, ProcTypes, WatchTypes, ReasonTypes, Started
<1>2. RemainingExact' /\ StartInv'  BY DEF IInv, RemainingExact, StartInv, Unseen, Started
<1>3. ProcInv' /\ StopInv'  BY DEF IInv, ProcInv, StopInv, Cut, Running
<1>4. ControlInv'  BY DEF IInv, ControlInv, Cut
<1>5. WatchInv'  BY DEF IInv, WatchInv, LinkInv, AllApplied
<1>6. CauseInv'  BY DEF IInv, CauseInv
<1>7. JudgedInv' /\ JudgeTypes'  BY NotJudged
<1> QED BY <1>1, <1>2, <1>3, <1>4, <1>5, <1>6, <1>7, <1>8 DEF IInv

-----------------------------------------------------------------------------
(* The goroutine that waits for the window                                 *)

(* At most one failure more, and never one too many                        *)
LEMMA OneFault ==
  ASSUME ReasonTypes, faults' = faults \/ (faults < Faults /\ faults' = faults + 1)
  PROVE  faults' \in 0..Faults /\ faults' >= faults
BY DEF ReasonTypes

(* It disturbs nothing of Run.                                             *)
LEMMA WatcherFrame ==
  ASSUME IInv, watcher \notin {"off", "ended"},
         UNCHANGED <<watch, pc, canceled, stopped, proc, done, seen, remaining, controlVars, result,
                     reasons, blame, judgeVars>>,
         faults' \in 0..Faults, faults' >= faults, WatchTypes', WatchInv'
  PROVE  IInv'
<1>1. pc # "closed"  BY DEF IInv, JudgedInv
<1>2. RunTypes' /\ ControlTypes' /\ ProcTypes'
  BY DEF IInv, RunTypes, ControlTypes, ProcTypes, Started
<1>3. ReasonTypes'  BY DEF IInv, ReasonTypes
<1>4. RemainingExact' /\ StartInv'  BY DEF IInv, RemainingExact, StartInv, Unseen, Started
<1>5. ProcInv' /\ StopInv' /\ ControlInv'
  BY DEF IInv, ProcInv, StopInv, ControlInv, Cut, Running
<1>6. CauseInv'
  <2>1. faults > 0 => faults' > 0  BY DEF IInv, ReasonTypes
  <2> QED BY <2>1 DEF IInv, CauseInv
<1>7. JudgedInv' /\ JudgeTypes'  BY <1>1, NotJudged
<1> QED BY <1>2, <1>3, <1>4, <1>5, <1>6, <1>7 DEF IInv

LEMMA WatcherStartsStep == ASSUME IInv, WatcherStarts PROVE IInv'
<1> USE DEF WatcherStarts, procVars
<1>1. applied = <<>> /\ Len(applied) = 0  BY NoRecords DEF IInv, WatchInv
<1>2. watcher' \in {"server_egress", "ended"}  OBVIOUS
<1>3. WatchTypes'  BY <1>2 DEF IInv, WatchTypes, Egress
<1>4. WatchInv'
  <2>1. 0 < Steps  OBVIOUS
  <2> QED BY <1>1, <1>2, <2>1 DEF IInv, WatchInv, LinkInv, AllApplied, Egress
<1>5. faults' \in 0..Faults /\ faults' >= faults  BY OneFault DEF IInv
<1> QED BY <1>3, <1>4, <1>5, WatcherFrame

LEMMA CaptureStep == ASSUME IInv, Capture PROVE IInv'
<1> USE DEF Capture, procVars
<1>1. applied' \in Seq(BOOLEAN) /\ Len(applied') <= Steps
  <2>1. \A b \in BOOLEAN : <<b>> \in Seq(BOOLEAN) /\ Len(<<b>>) = 1  OBVIOUS
  <2>2. applied' = <<TRUE>> \/ applied' = <<FALSE>>  OBVIOUS
  <2>3. 1 <= Steps  OBVIOUS
  <2> QED BY <2>1, <2>2, <2>3
<1>2. WatchTypes'  BY <1>1 DEF IInv, WatchTypes
<1>3. WatchInv'  BY DEF IInv, WatchInv, Egress
<1>4. faults' \in 0..Faults /\ faults' >= faults  BY OneFault DEF IInv
<1> QED BY <1>2, <1>3, <1>4, WatcherFrame

LEMMA ScheduleCutStep == ASSUME IInv, ScheduleCut PROVE IInv'
<1> USE DEF ScheduleCut, procVars
<1>1. WatchTypes'  BY DEF IInv, WatchTypes
<1>2. WatchInv'  BY DEF IInv, WatchInv, LinkInv, AllApplied, Egress
<1>3. faults' \in 0..Faults /\ faults' >= faults  BY OneFault DEF IInv
<1> QED BY <1>1, <1>2, <1>3, WatcherFrame

(* One record more: whether the records carry no error                     *)
LEMMA Record ==
  ASSUME applied \in Seq(BOOLEAN), NEW b \in BOOLEAN, applied' = Append(applied, b)
  PROVE  /\ applied' \in Seq(BOOLEAN) /\ Len(applied') = Len(applied) + 1
         /\ AllApplied' => AllApplied /\ b
<1>1. applied' \in Seq(BOOLEAN) /\ Len(applied') = Len(applied) + 1  OBVIOUS
<1>2. ASSUME AllApplied' PROVE AllApplied /\ b
  <2>1. Len(applied) \in Nat /\ DOMAIN applied = 1..Len(applied)  OBVIOUS
  <2>2. DOMAIN applied' = 1..(Len(applied) + 1)  BY <1>1
  <2>3. applied'[Len(applied) + 1] = b  OBVIOUS
  <2>4. \A i \in DOMAIN applied : i \in DOMAIN applied' /\ applied'[i] = applied[i]
    BY <2>1, <2>2
  <2> QED BY <1>2, <2>1, <2>2, <2>3, <2>4 DEF AllApplied
<1> QED BY <1>1, <1>2

LEMMA TcStep == ASSUME IInv, Tc PROVE IInv'
<1>1. /\ watch = "schedule" /\ watcher \in Egress /\ watch' = watch
      /\ UNCHANGED <<watch, pc, canceled, stopped, proc, done, seen, remaining, controlVars, result,
                     reasons, blame, judgeVars>>
  BY DEF Tc, procVars
<1>2. applied \in Seq(BOOLEAN) /\ link \in [Egress -> 0..Steps] /\ Len(applied) \in Nat
  BY DEF IInv, WatchTypes
<1>3. Step \in 1..Steps /\ Step = Len(applied) + 1
  BY <1>1, <1>2 DEF IInv, WatchInv, Step
<1>4. faults' \in 0..Faults /\ faults' >= faults  BY OneFault DEF IInv, Tc
<1>5. link' \in [Egress -> 0..Steps]
  <2>1. link' = link \/ link' = [link EXCEPT ![watcher] = Step]  BY DEF Tc
  <2>2. Step \in 0..Steps  BY <1>3
  <2> QED BY <1>2, <2>1, <2>2
<1>6. AfterStep \in {"ended", "server_egress"} /\ (AfterStep = "server_egress" => Step < Steps)
  BY <1>3 DEF AfterStep
<1>7. CASE /\ watcher = "server_egress" /\ link' = [link EXCEPT !["server_egress"] = Step]
           /\ watcher' = "client_egress" /\ applied' = applied
  <2>1. link'["server_egress"] = Step /\ link'["client_egress"] = link["client_egress"]
    BY <1>2, <1>7 DEF Egress
  <2>2. Len(applied) < Steps  BY <1>2, <1>3
  <2>3. WatchTypes'  BY <1>2, <1>5, <1>7 DEF IInv, WatchTypes, Egress
  <2>4. WatchInv'  BY <1>1, <1>3, <1>7, <2>1, <2>2 DEF IInv, WatchInv, LinkInv, AllApplied, Egress
  <2> QED BY <1>1, <1>4, <2>3, <2>4, WatcherFrame DEF Egress
<1>8. CASE /\ watcher = "client_egress" /\ link' = [link EXCEPT !["client_egress"] = Step]
           /\ watcher' = AfterStep /\ applied' = Append(applied, TRUE)
  <2>1. link'["client_egress"] = Step /\ link'["server_egress"] = link["server_egress"]
    BY <1>2, <1>8 DEF Egress
  <2>2. /\ applied' \in Seq(BOOLEAN) /\ Len(applied') = Step /\ (AllApplied' => AllApplied)
    BY <1>2, <1>3, <1>8, Record
  <2>3. watcher' \in {"ended", "server_egress"} /\ (watcher' = "server_egress" => Step < Steps)
    BY <1>6, <1>8
  <2>4. Step <= Steps  BY <1>3
  <2>5. WatchTypes'  BY <1>5, <2>2, <2>3, <2>4 DEF WatchTypes, Egress
  <2>6. LinkInv'
    <3>1. AllApplied' => link["server_egress"] = Step
      BY <1>1, <1>3, <1>8, <2>2 DEF IInv, WatchInv, LinkInv
    <3> QED BY <2>1, <2>2, <2>3, <3>1 DEF LinkInv, WatchTypes, Step
  <2>7. WatchInv'  BY <1>1, <2>2, <2>3, <2>6 DEF IInv, WatchInv, Egress
  <2> QED BY <1>1, <1>4, <2>5, <2>7, WatcherFrame DEF Egress
<1>9. CASE watcher' = AfterStep /\ applied' = Append(applied, FALSE)
  <2>1. /\ applied' \in Seq(BOOLEAN) /\ Len(applied') = Step /\ ~AllApplied'
    BY <1>2, <1>3, <1>9, Record
  <2>2. WatchTypes'  BY <1>3, <1>5, <1>6, <1>9, <2>1 DEF WatchTypes, Egress
  <2>3. WatchInv'  BY <1>1, <1>6, <1>9, <2>1 DEF WatchInv, LinkInv, Egress
  <2> QED BY <1>1, <1>4, <2>2, <2>3, WatcherFrame DEF Egress
<1> QED BY <1>1, <1>7, <1>8, <1>9 DEF Tc, Egress

-----------------------------------------------------------------------------
(* The runner: starting                                                    *)

(* A step of Run leaves the goroutine's part alone.                        *)
LEMMA RunnerFrame == ASSUME IInv, othersKeep PROVE WatchTypes' /\ WatchInv'
BY DEF IInv, othersKeep, sideVars, WatchTypes, WatchInv, LinkInv, AllApplied

(* One process more, to be waited for                                      *)
LEMMA Launch ==
  ASSUME IInv, NEW p \in Procs \ Started, othersKeep, UNCHANGED seen,
         proc' = [proc EXCEPT ![p] = "running"], remaining' = remaining + 1
  PROVE  /\ Started' = Started \union {p} /\ ProcTypes' /\ RemainingExact'
         /\ \A q \in seen : proc'[q] = proc[q]
         /\ ~Cut /\ UNCHANGED stopped => ProcInv'
<1> USE DEF othersKeep
<1>1. proc \in [Procs -> {"none", "running"} \union Ended] /\ seen \subseteq Started /\ p \notin seen
  BY DEF IInv, ProcTypes
<1>2. Started' = Started \union {p}  BY <1>1 DEF Started
<1>3. Unseen' = Unseen \union {p} /\ p \notin Unseen  BY <1>1, <1>2 DEF Unseen
<1>4. RemainingExact'
  <2>1. IsFiniteSet(Unseen)  BY FiniteProcs DEF Unseen, Started
  <2>2. Cardinality(Unseen') = Cardinality(Unseen) + 1  BY <1>3, <2>1, FS_AddElement
  <2> QED BY <2>2 DEF IInv, RemainingExact
<1>5. ProcTypes'  BY <1>1, <1>2 DEF IInv, ProcTypes
<1>6. \A q \in seen : proc'[q] = proc[q]  BY <1>1 DEF Started
<1>7. ~Cut /\ UNCHANGED stopped => ProcInv'
  BY <1>1, <1>6 DEF IInv, ProcInv, Cut, Started
<1> QED BY <1>2, <1>4, <1>5, <1>6, <1>7

(* One process fewer to be waited for                                      *)
LEMMA CountDown ==
  ASSUME RemainingExact, NEW p \in Unseen, seen' = seen \union {p}, proc' = proc,
         remaining' = remaining - 1
  PROVE  RemainingExact'
<1>1. IsFiniteSet(Unseen)  BY FiniteProcs DEF Unseen, Started
<1>2. Unseen' = Unseen \ {p}  BY DEF Unseen, Started
<1>3. Cardinality(Unseen') = Cardinality(Unseen) - 1  BY <1>1, <1>2, FS_RemoveElement
<1> QED BY <1>3 DEF RemainingExact

LEMMA StartFails ==
  ASSUME IInv, pc \in Starting, othersKeep, pc' = "abort", stopped' = TRUE,
         reasons' = reasons \union {"start"},
         \/ Cut /\ UNCHANGED faults
         \/ faults < Faults /\ faults' = faults + 1,
         UNCHANGED <<proc, remaining, seen, result, blame, judgeVars>>
  PROVE  IInv'
<1> USE DEF othersKeep
<1>1. pc # "closed" /\ pc \notin Begun  BY DEF Starting, Begun
<1>2. RunTypes' /\ ControlTypes' /\ ProcTypes'
  BY DEF IInv, RunTypes, ControlTypes, ProcTypes, Started, Aborting
<1>3. ReasonTypes'
  <2>1. faults' \in 0..Faults  BY OneFault DEF IInv
  <2> QED BY <2>1 DEF IInv, ReasonTypes, Reasons
<1>4. RemainingExact' /\ StartInv' /\ ProcInv'
  BY DEF IInv, RemainingExact, StartInv, Unseen, Started, Begun, ProcInv, Cut
<1>5. StopInv' /\ ControlInv'
  BY DEF IInv, StopInv, ControlInv, Cut, Starting, Aborting
<1>6. reasons = {} /\ blame = {} /\ ~stopped  BY DEF IInv, StopInv
<1>7. "start" \in reasons' => canceled' \/ faults' > 0
  BY <1>6 DEF IInv, ReasonTypes, Cut
<1>8. CauseInv'  BY <1>6, <1>7 DEF CauseInv, Begun, Aborting
<1>9. JudgedInv' /\ JudgeTypes'  BY <1>1, NotJudged
<1> QED BY <1>2, <1>3, <1>4, <1>5, <1>8, <1>9, RunnerFrame DEF IInv

LEMMA StartServerStep == ASSUME IInv, StartServer PROVE IInv'
<1> USE DEF StartServer, StartOne
<1>1. CASE reasons' = reasons \union {"start"} /\ pc' = "abort"
  BY <1>1, StartFails DEF Starting
<1>2. CASE /\ ~Cut /\ proc' = [proc EXCEPT !["server"] = "running"] /\ remaining' = remaining + 1
           /\ pc' = "await_ready" /\ UNCHANGED <<stopped, reasons, faults>>
  <2>1. "server" \in Procs \ Started /\ seen = {}
    BY DEF IInv, StartInv, ProcTypes, Procs
  <2>2. /\ Started' = {"server"} /\ ProcTypes' /\ RemainingExact' /\ ProcInv'
    BY <1>2, <2>1, Launch DEF IInv, StartInv
  <2>3. pc # "closed" /\ pc' # "closed" /\ pc' \in Starting /\ pc \in Starting
    BY <1>2 DEF Starting
  <2>4. RunTypes' /\ ControlTypes' /\ ReasonTypes'
    BY <1>2, <2>3 DEF IInv, RunTypes, ControlTypes, ReasonTypes, othersKeep
  <2>5. StartInv'  BY <1>2, <2>1, <2>2 DEF StartInv, Begun
  <2>6. StopInv' /\ ControlInv'
    BY <1>2, <2>3 DEF IInv, StopInv, ControlInv, othersKeep, Cut, Starting, Aborting
  <2>7. CauseInv'
    BY <1>2, <2>1, <2>3 DEF IInv, StopInv, CauseInv, othersKeep, Starting, Begun
  <2>8. JudgedInv' /\ JudgeTypes'  BY <2>3, NotJudged
  <2> QED BY <2>2, <2>4, <2>5, <2>6, <2>7, <2>8, RunnerFrame DEF IInv
<1> QED BY <1>1, <1>2

LEMMA StartClientStep == ASSUME IInv, StartClient PROVE IInv'
<1> USE DEF StartClient, StartOne
<1>1. CASE reasons' = reasons \union {"start"} /\ pc' = "abort"
  BY <1>1, StartFails DEF Starting
<1>2. ASSUME NEW c \in Clients \ Started,
             ~Cut, proc' = [proc EXCEPT ![c] = "running"], remaining' = remaining + 1,
             pc' = IF Clients \subseteq Started \union {c} THEN "barrier" ELSE "start_clients",
             UNCHANGED <<stopped, reasons, faults>>
      PROVE  IInv'
  <2>1. c \in Procs \ Started  BY DEF Procs
  <2>2. /\ Started' = Started \union {c} /\ ProcTypes' /\ RemainingExact' /\ ProcInv'
    BY <1>2, <2>1, Launch
  <2>3. /\ pc = "start_clients" /\ pc' \in {"start_clients", "barrier"}
        /\ pc # "closed" /\ pc' # "closed"
    BY <1>2
  <2>4. RunTypes' /\ ControlTypes' /\ ReasonTypes'
    BY <1>2, <2>3 DEF IInv, RunTypes, ControlTypes, ReasonTypes, othersKeep, Starting, Begun
  <2>5. StartInv'
    <3>1. "server" \in Started'  BY <2>2, <2>3 DEF IInv, StartInv
    <3>2. pc' = "barrier" => Started' = Procs
      BY <1>2, <2>2, <3>1 DEF Procs, Started
    <3> QED BY <2>3, <3>1, <3>2 DEF StartInv, Begun
  <2>6. StopInv' /\ ControlInv'
    BY <1>2, <2>3 DEF IInv, StopInv, ControlInv, othersKeep, Cut, Starting, Aborting
  <2>7. CauseInv'
    BY <1>2, <2>3 DEF IInv, StopInv, CauseInv, othersKeep, Starting, Begun
  <2>8. JudgedInv' /\ JudgeTypes'  BY <2>3, NotJudged
  <2> QED BY <2>2, <2>4, <2>5, <2>6, <2>7, <2>8, RunnerFrame DEF IInv
<1> QED BY <1>1, <1>2

LEMMA AwaitReadyStep == ASSUME IInv, AwaitReady PROVE IInv'
<1> USE DEF AwaitReady
<1>1. Started' = Started /\ pc # "closed" /\ pc' # "closed" /\ Started = {"server"} /\ seen = {}
  BY DEF Started, IInv, StartInv
<1>2. /\ ~stopped /\ result = "none" /\ reasons = {} /\ blame = {}
  BY DEF IInv, StopInv, Starting
<1>3. JudgedInv' /\ JudgeTypes'  BY <1>1, NotJudged
<1>4. Unseen' \subseteq Procs /\ ControlTypes'
  BY DEF IInv, ControlTypes, othersKeep, Unseen, Started
<1>5. CASE /\ pc' = "start_clients" /\ UNCHANGED <<stopped, seen, remaining, reasons, blame>>
  <2>1. RunTypes' /\ ProcTypes' /\ ReasonTypes'
    BY <1>1, <1>5 DEF IInv, RunTypes, ProcTypes, ReasonTypes, othersKeep, Starting
  <2>2. RemainingExact' /\ StartInv'
    BY <1>1, <1>5 DEF IInv, RemainingExact, StartInv, Unseen, Begun
  <2>3. ProcInv'  BY <1>5 DEF IInv, ProcInv, Cut, othersKeep
  <2>4. StopInv' /\ ControlInv'
    BY <1>2, <1>5 DEF IInv, StopInv, ControlInv, othersKeep, Cut, Starting, Aborting
  <2>5. CauseInv'  BY <1>2, <1>5 DEF IInv, CauseInv, othersKeep, Begun
  <2> QED BY <1>3, <1>4, <2>1, <2>2, <2>3, <2>4, <2>5, RunnerFrame DEF IInv
<1>6. CASE /\ pc' = "abort" /\ stopped' = TRUE
           /\ \/ /\ Cut /\ reasons' = reasons \union {"canceled"}
                 /\ UNCHANGED <<seen, remaining, blame>>
              \/ /\ Waiting # {}
                 /\ seen' = seen \union Waiting /\ remaining' = remaining - 1
                 /\ reasons' = reasons \union {"exited_early"}
                 /\ blame' = blame \union {"exited_early"}
              \/ /\ reasons' = reasons \union {"not_ready"}
                 /\ UNCHANGED <<seen, remaining, blame>>
  <2>1. Waiting \subseteq Started /\ \A p \in Waiting : proc[p] \in Ended
    BY DEF Waiting, Started, Procs, Ended
  <2>2. seen' = seen \/ (seen' = {"server"} /\ Waiting = {"server"})
    BY <1>1, <1>6, <2>1
  <2>3. RunTypes' /\ ProcTypes' /\ ReasonTypes'
    BY <1>1, <1>2, <1>6, <2>2 DEF IInv, RunTypes, ProcTypes, ReasonTypes, othersKeep, Aborting, Reasons
  <2>4. RemainingExact'
    <3>1. CASE UNCHANGED <<seen, remaining>>
      BY <1>1, <3>1 DEF IInv, RemainingExact, Unseen
    <3>2. CASE seen' = {"server"} /\ remaining' = remaining - 1
      <4>1. "server" \in Unseen /\ seen' = seen \union {"server"} /\ proc' = proc
        BY <1>1, <3>2 DEF Unseen
      <4> QED BY <3>2, <4>1, CountDown DEF IInv
    <3>3. Waiting # {} => seen \union Waiting = {"server"}  BY <1>1, <2>1
    <3>4. \/ UNCHANGED <<seen, remaining>>
          \/ Waiting # {} /\ seen' = seen \union Waiting /\ remaining' = remaining - 1
      BY <1>6
    <3> HIDE DEF AwaitReady
    <3> QED BY <1>1, <3>1, <3>2, <3>3, <3>4
  <2>5. StartInv'  BY <1>6 DEF StartInv, Begun
  <2>6. ProcInv'  BY <1>6, <2>1, <2>2 DEF IInv, ProcInv, Cut, othersKeep
  <2>7. StopInv' /\ ControlInv'
    BY <1>2, <1>6 DEF IInv, StopInv, ControlInv, othersKeep, Cut, Starting, Aborting
  <2>8. CauseInv'
    <3>1. Cut => canceled  BY <1>2 DEF Cut
    <3>2. canceled' = canceled /\ pc' \notin Begun  BY <1>6 DEF othersKeep, Begun
    <3>3. \/ reasons' = {"canceled"} /\ canceled /\ blame' = {}
          \/ reasons' = {"exited_early"} /\ blame' = {"exited_early"}
          \/ reasons' = {"not_ready"} /\ blame' = {}
      BY <1>2, <1>6, <3>1
    <3> HIDE DEF AwaitReady
    <3>4. CASE reasons' = {"canceled"} /\ canceled /\ blame' = {}  BY <3>2, <3>4 DEF CauseInv
    <3>5. CASE reasons' = {"exited_early"} /\ blame' = {"exited_early"}  BY <3>2, <3>5 DEF CauseInv
    <3>6. CASE reasons' = {"not_ready"} /\ blame' = {}
      BY <1>6, <3>2, <3>6 DEF CauseInv, Aborting
    <3> QED BY <3>3, <3>4, <3>5, <3>6
  <2> QED BY <1>3, <1>4, <2>3, <2>4, <2>5, <2>6, <2>7, <2>8, RunnerFrame DEF IInv
<1> QED BY <1>5, <1>6

-----------------------------------------------------------------------------
(* The runner: the barrier                                                 *)

(* A process that ended is counted.                                        *)
LEMMA Taken ==
  ASSUME IInv, NEW p \in Procs, TakeExit(p), othersKeep, proc' = proc, stopped => stopped'
  PROVE  /\ Started' = Started /\ seen' = seen \union {p}
         /\ ProcTypes' /\ ProcInv' /\ RemainingExact'
<1> USE DEF TakeExit
<1>1. p \in Started /\ p \notin seen /\ proc[p] \in Ended  BY DEF Waiting, Started, Ended
<1>2. Started' = Started  BY DEF Started
<1>3. ProcTypes'  BY <1>1, <1>2 DEF IInv, ProcTypes, othersKeep
<1>4. ProcInv'  BY <1>1 DEF IInv, ProcInv, Cut, othersKeep
<1>5. p \in Unseen  BY <1>1 DEF Unseen
<1>6. RemainingExact'  BY <1>5, CountDown DEF IInv
<1> QED BY <1>2, <1>3, <1>4, <1>6

(* Nothing happens to the processes.                                       *)
LEMMA Untaken ==
  ASSUME IInv, othersKeep, UNCHANGED <<proc, seen>>, stopped => stopped',
         remaining' \in {remaining, Cardinality(Unseen)}
  PROVE  Started' = Started /\ ProcTypes' /\ ProcInv' /\ RemainingExact'
BY DEF IInv, Started, Unseen, ProcTypes, ProcInv, RemainingExact, Cut, othersKeep

LEMMA BarrierExitStep == ASSUME IInv, BarrierExit PROVE IInv'
<1>1. PICK p \in Procs :
        /\ TakeExit(p)
        /\ \/ pc' = pc /\ stopped' = stopped /\ reasons' = reasons /\ blame' = blame
           \/ /\ reasons' = reasons \union {"exited_early"}
              /\ blame' = blame \union {"exited_early"}
              /\ stopped' = TRUE /\ pc' = "await_control"
  BY DEF BarrierExit
<1>2. pc = "barrier" /\ UNCHANGED <<proc, result, faults, judgeVars>> /\ othersKeep
  BY DEF BarrierExit
<1>3. stopped = FALSE /\ result = "none" /\ reasons = {} /\ blame = {}
  BY <1>2 DEF IInv, RunTypes, StopInv
<1>4. Started' = Started /\ ProcTypes' /\ ProcInv' /\ RemainingExact'
  BY <1>1, <1>2, <1>3, Taken
<1>5. pc' \in {"barrier", "await_control"} /\ stopped' \in BOOLEAN  BY <1>1, <1>2, <1>3
<1>6. RunTypes' /\ ControlTypes' /\ ReasonTypes'
  BY <1>1, <1>2, <1>3, <1>5 DEF IInv, RunTypes, ControlTypes, ReasonTypes, Begun, Reasons, othersKeep
<1>7. StartInv'  BY <1>2, <1>4, <1>5 DEF IInv, StartInv, Begun
<1>8. StopInv'  BY <1>1, <1>2, <1>3 DEF StopInv, Starting, Aborting
<1>9. ControlInv'  BY <1>1, <1>2, <1>3 DEF IInv, ControlInv, Cut, othersKeep
<1>10. CauseInv'
  <2>1. CASE pc' = "barrier" /\ stopped' = stopped /\ reasons' = {} /\ blame' = {}
    BY <1>3, <2>1 DEF CauseInv
  <2>2. CASE pc' = "await_control" /\ reasons' = {"exited_early"} /\ blame' = {"exited_early"}
    BY <2>2 DEF CauseInv
  <2> QED BY <1>1, <1>2, <1>3, <2>1, <2>2
<1>11. JudgedInv' /\ JudgeTypes'  BY <1>2, <1>5, NotJudged
<1> QED BY <1>2, <1>4, <1>6, <1>7, <1>8, <1>9, <1>10, <1>11, RunnerFrame DEF IInv

LEMMA BarrierControlStep == ASSUME IInv, BarrierControl PROVE IInv'
<1>1. /\ pc = "barrier" /\ pc' = "drain" /\ result' = control
      /\ control \in {"ok", "failed", "context"}
      /\ UNCHANGED <<proc, seen, remaining, blame, faults, judgeVars>> /\ othersKeep
      /\ \/ control = "ok" /\ UNCHANGED <<stopped, reasons>>
         \/ control # "ok" /\ reasons' = reasons \union {"control_failed"} /\ stopped' = TRUE
  BY DEF BarrierControl, TakeControl
<1>2. stopped = FALSE /\ result = "none" /\ reasons = {} /\ blame = {}
  BY <1>1 DEF IInv, RunTypes, StopInv
<1>3. Started' = Started /\ ProcTypes' /\ ProcInv' /\ RemainingExact'  BY <1>1, <1>2, Untaken
<1>4. RunTypes' /\ ControlTypes' /\ ReasonTypes'
  BY <1>1, <1>2 DEF IInv, RunTypes, ControlTypes, ReasonTypes, Begun, Reasons, othersKeep
<1>5. StartInv'  BY <1>1, <1>3 DEF IInv, StartInv, Begun
<1>6. StopInv'  BY <1>1 DEF StopInv, Starting, Aborting
<1>7. ControlInv'  BY <1>1, <1>2 DEF IInv, ControlInv, Aborting, Cut, othersKeep
<1>8. control = "context" => canceled  BY <1>2 DEF IInv, ControlInv, Cut
<1>9. CauseInv'
  <2>1. blame' = {} /\ canceled' = canceled /\ pc' = "drain"  BY <1>1, <1>2 DEF othersKeep
  <2>2. CASE stopped' = FALSE /\ reasons' = {}  BY <2>1, <2>2 DEF CauseInv
  <2>3. CASE reasons' = {"control_failed"} /\ control # "ok"
    <3>1. ~canceled' => result' = "failed"  BY <1>1, <1>8, <2>1, <2>3
    <3> QED BY <2>1, <2>3, <3>1 DEF CauseInv
  <2> QED BY <1>1, <1>2, <2>2, <2>3
<1>10. JudgedInv' /\ JudgeTypes'  BY <1>1, NotJudged
<1> QED BY <1>1, <1>3, <1>4, <1>5, <1>6, <1>7, <1>9, <1>10, RunnerFrame DEF IInv

LEMMA BarrierCanceledStep == ASSUME IInv, BarrierCanceled PROVE IInv'
<1> USE DEF BarrierCanceled
<1>1. ~stopped /\ result = "none" /\ reasons = {} /\ blame = {}  BY DEF IInv, StopInv
<1>2. Started' = Started /\ ProcTypes' /\ ProcInv' /\ RemainingExact'  BY Untaken
<1>3. RunTypes' /\ ControlTypes' /\ ReasonTypes'
  BY DEF IInv, RunTypes, ControlTypes, ReasonTypes, Begun, Reasons, othersKeep
<1>4. StartInv'  BY <1>2 DEF IInv, StartInv, Begun
<1>5. StopInv'  BY DEF StopInv, Starting, Aborting
<1>6. ControlInv'  BY <1>1 DEF IInv, ControlInv, Aborting, Cut, othersKeep
<1>7. CauseInv'
  <2>1. reasons' = {"canceled"} /\ blame' = {} /\ canceled' = TRUE  BY <1>1 DEF IInv, RunTypes, othersKeep
  <2> HIDE DEF BarrierCanceled
  <2> QED BY <2>1 DEF CauseInv
<1>8. JudgedInv' /\ JudgeTypes'  BY NotJudged
<1> QED BY <1>2, <1>3, <1>4, <1>5, <1>6, <1>7, <1>8, RunnerFrame DEF IInv

LEMMA AwaitControlStep == ASSUME IInv, AfterBarrier \/ AfterAbort PROVE IInv'
<1>1. /\ \/ pc = "await_control" /\ pc' = "drain"
         \/ pc = "abort_control" /\ pc' = "abort_join"
      /\ \/ result' = control /\ control \in {"ok", "failed", "context"} /\ result = "none"
         \/ result' = result
      /\ \/ result' = control /\ control # "failed" /\ reasons' = reasons
         \/ reasons' = reasons \union {"control_failed"}
      /\ UNCHANGED <<stopped, proc, seen, remaining, blame, faults, judgeVars>> /\ othersKeep
  BY DEF AfterBarrier, AfterAbort, AwaitControl, TakeControl
<1>2. Started' = Started /\ ProcTypes' /\ ProcInv' /\ RemainingExact'  BY <1>1, Untaken
<1>3. RunTypes' /\ ControlTypes' /\ ReasonTypes'
  BY <1>1 DEF IInv, RunTypes, ControlTypes, ReasonTypes, Begun, Aborting, Reasons, othersKeep
<1>4. StartInv'  BY <1>1, <1>2 DEF IInv, StartInv, Begun
<1>5. StopInv' /\ stopped  BY <1>1 DEF IInv, StopInv, Starting, Aborting
<1>6. ControlInv'  BY <1>1 DEF IInv, ControlInv, Aborting, Cut, othersKeep
<1>7. CauseInv'
  <2>1. /\ blame' = blame /\ seen' = seen /\ proc' = proc /\ faults' = faults /\ canceled' = canceled
        /\ stopped' = stopped
    BY <1>1 DEF othersKeep
  <2>2. /\ reasons' \subseteq reasons \union {"control_failed"}
        /\ result = "failed" => result' = "failed"
    BY <1>1
  <2>3. \A r \in reasons' : r \in reasons \/ r = "control_failed"  BY <2>2
  <2>4. "exit_code" \notin blame'  BY <1>1, <2>1 DEF IInv, CauseInv
  <2>5. pc \in Aborting <=> pc' \in Aborting  BY <1>1 DEF Aborting
  <2>6. pc' \in Begun => pc \in Begun  BY <1>1 DEF Begun
  <2>7. reasons' \intersect {"sampler", "evidence", "schedule", "done_stats", "stats"} = {}
    BY <1>1, <2>3 DEF IInv, CauseInv
  <2>8. (stopped' /\ ~canceled' /\ pc' \in Begun) =>
          result' = "failed" \/ "exited_early" \in blame' \/ "exit_timeout" \in blame'
    <3>1. pc # "closed"  BY <1>1
    <3>2. (stopped /\ ~canceled /\ pc \in Begun) =>
            result = "failed" \/ "exited_early" \in blame \/ "exit_timeout" \in blame
      BY <3>1 DEF IInv, CauseInv
    <3> QED BY <2>1, <2>2, <2>6, <3>2
  <2>9. "not_ready" \in reasons' => pc' \in Aborting /\ blame' = {}
    BY <1>1, <2>1, <2>3, <2>5 DEF IInv, CauseInv
  <2>10. /\ "canceled" \in reasons' => canceled'
         /\ "start" \in reasons' => canceled' \/ faults' > 0
         /\ blame' \subseteq {"exited_early", "exit_timeout", "exit_code"}
    BY <1>1, <2>1, <2>3 DEF IInv, CauseInv
  <2> QED BY <2>4, <2>7, <2>8, <2>9, <2>10 DEF CauseInv
<1>8. JudgedInv' /\ JudgeTypes'  BY <1>1, NotJudged
<1> QED BY <1>1, <1>2, <1>3, <1>4, <1>5, <1>6, <1>7, <1>8, RunnerFrame DEF IInv

-----------------------------------------------------------------------------
(* The runner: draining                                                    *)

LEMMA DrainOneStep == ASSUME IInv, DrainOne PROVE IInv'
<1>1. PICK p \in Procs : TakeExit(p)  BY DEF DrainOne
<1>2. /\ pc \in DrainPcs /\ othersKeep
      /\ UNCHANGED <<pc, stopped, proc, result, reasons, blame, faults, judgeVars>>
  BY DEF DrainOne
<1>3. Started' = Started /\ seen' = seen \union {p} /\ ProcTypes' /\ ProcInv' /\ RemainingExact'
  BY <1>1, <1>2, Taken
<1>4. RunTypes' /\ ControlTypes' /\ ReasonTypes'
  BY <1>2 DEF IInv, RunTypes, ControlTypes, ReasonTypes, othersKeep
<1>5. StartInv'  BY <1>2, <1>3 DEF IInv, StartInv, DrainPcs
<1>6. Running' = Running  BY <1>2 DEF Running
<1>7. StopInv' /\ ControlInv'
  BY <1>2, <1>6 DEF IInv, StopInv, ControlInv, Cut, othersKeep
<1>8. CauseInv'  BY <1>2, <1>3 DEF IInv, CauseInv, othersKeep
<1>9. JudgedInv' /\ JudgeTypes'  BY <1>2, NotJudged DEF DrainPcs
<1> QED BY <1>2, <1>3, <1>4, <1>5, <1>7, <1>8, <1>9, RunnerFrame DEF IInv

(* What the end of a drain may be                                          *)
LEMMA DrainedCases ==
  ASSUME IInv, Drained
  PROVE  /\ UNCHANGED <<proc, seen, result, faults, judgeVars>> /\ othersKeep
         /\ \/ /\ pc = "abort" /\ pc' = "abort_control"
               /\ UNCHANGED <<stopped, remaining, reasons, blame>>
            \/ /\ pc \in {"drain", "redrain"} /\ pc' = "join" /\ (pc = "drain" => remaining = 0)
               /\ blame' = blame \union ExitBlame
               /\ UNCHANGED <<stopped, remaining, reasons>>
            \/ /\ pc = "drain" /\ pc' = "redrain" /\ remaining' = Cardinality(Unseen)
               /\ stopped' = TRUE /\ reasons' = reasons \union {"exit_timeout"}
               /\ blame' = IF canceled THEN blame ELSE blame \union {"exit_timeout"}
<1>1. CASE pc = "abort"  BY <1>1 DEF Drained
<1>2. CASE pc = "redrain"  BY <1>2 DEF Drained
<1>3. CASE pc = "drain"  BY <1>3 DEF Drained
<1> QED BY <1>1, <1>2, <1>3 DEF Drained, DrainPcs

LEMMA DrainedStep == ASSUME IInv, Drained PROVE IInv'
<1>1. UNCHANGED <<proc, seen, result, faults, judgeVars>> /\ othersKeep  BY DrainedCases
<1>2. /\ pc # "closed" /\ pc' # "closed" /\ pc' \in Begun \union Aborting
      /\ (pc' \in Begun => pc \in Begun)
      /\ remaining' \in {remaining, Cardinality(Unseen)}
      /\ (stopped' = stopped \/ stopped' = TRUE) /\ (stopped => stopped')
  <2>1. pc \in {"abort", "drain", "redrain"} /\ pc' \in {"abort_control", "join", "redrain"}
    BY DrainedCases
  <2>2. pc' = "abort_control" \/ pc \in {"drain", "redrain"}  BY DrainedCases
  <2>3. remaining' \in {remaining, Cardinality(Unseen)}  BY DrainedCases
  <2>4. stopped' = stopped \/ stopped' = TRUE  BY DrainedCases
  <2>5. pc' \in Begun => pc \in Begun  BY <2>1, <2>2 DEF Begun
  <2>6. pc' \in Begun \union Aborting  BY <2>1 DEF Begun, Aborting
  <2>7. stopped => stopped'  BY <2>4
  <2> QED BY <2>1, <2>3, <2>4, <2>5, <2>6, <2>7
<1>3. Started' = Started /\ ProcTypes' /\ ProcInv' /\ RemainingExact'
  BY <1>1, <1>2, Untaken
<1>4. RunTypes' /\ ControlTypes'
  BY <1>1, <1>2 DEF IInv, RunTypes, ControlTypes, othersKeep
<1>5. ReasonTypes'
  <2>1. /\ reasons' \subseteq reasons \union {"exit_timeout"}
        /\ blame' \subseteq blame \union {"exit_timeout", "exit_code"}
    BY DrainedCases DEF ExitBlame
  <2> QED BY <1>1, <2>1 DEF IInv, ReasonTypes, Reasons
<1>6. StartInv'  BY <1>2, <1>3 DEF IInv, StartInv, Begun, Aborting
<1>7. StopInv'
  <2>1. remaining = 0 => Running = {}
    <3>1. ASSUME remaining = 0, NEW p \in Running PROVE FALSE
      <4>1. IsFiniteSet(Unseen)  BY FiniteProcs DEF Unseen, Started
      <4>2. Unseen = {}  BY <3>1, <4>1, FS_EmptySet DEF IInv, RemainingExact
      <4>3. p \in seen  BY <4>2 DEF Unseen, Started, Running
      <4> QED BY <4>3 DEF IInv, ProcInv, Running, Ended
    <3> QED BY <3>1
  <2>2. Running' = Running  BY <1>1 DEF Running
  <2>3. pc \in {"abort", "redrain"} => stopped  BY DEF IInv, StopInv, Aborting
  <2>4. pc' \in {"abort_control", "redrain"} => stopped'  BY <2>3, DrainedCases
  <2>5. pc' = "join" => stopped' \/ Running' = {}  BY <2>1, <2>2, <2>3, DrainedCases
  <2>6. pc' \in {"abort_control", "join", "redrain"}  BY DrainedCases
  <2> QED BY <2>4, <2>5, <2>6 DEF StopInv, Starting, Aborting
<1>8. ControlInv'
  <2>1. reasons \subseteq reasons'  BY DrainedCases
  <2>2. pc' \in Aborting \union {"await_control", "redrain"} => reasons' # {}
    BY <2>1, DrainedCases DEF IInv, ControlInv, Aborting
  <2>3. Cut => Cut'  BY <1>1, <1>2 DEF Cut, othersKeep
  <2> QED BY <1>1, <2>1, <2>2, <2>3 DEF IInv, ControlInv, othersKeep
<1>9. CauseInv'
  <2>1. /\ blame \subseteq blame' /\ blame' \subseteq blame \union {"exit_timeout", "exit_code"}
        /\ \A r \in reasons' : r \in reasons \/ r = "exit_timeout"
    BY DrainedCases DEF ExitBlame
  <2>2. "exit_code" \in blame' => pc' = "join" /\ \E p \in seen' : proc'[p] # "ok"
    <3>1. pc # "closed" /\ pc # "join" /\ "exit_code" \notin blame
      BY DrainedCases DEF IInv, CauseInv
    <3>2. \/ blame' = blame
          \/ pc' = "join" /\ blame' = blame \union ExitBlame
          \/ blame' = blame \union {"exit_timeout"}
      <4>1. CASE blame' = IF canceled THEN blame ELSE blame \union {"exit_timeout"}
        BY <4>1
      <4> QED BY <4>1, DrainedCases
    <3>4. "exit_code" \in blame' => pc' = "join" /\ "exit_code" \in ExitBlame
      <4>1. CASE blame' = blame  BY <3>1, <4>1
      <4>2. CASE pc' = "join" /\ blame' = blame \union ExitBlame  BY <3>1, <4>2
      <4>3. CASE blame' = blame \union {"exit_timeout"}  BY <3>1, <4>3
      <4> QED BY <3>2, <4>1, <4>2, <4>3
    <3>3. "exit_code" \in ExitBlame => \E p \in seen : proc[p] # "ok"  BY DEF ExitBlame
    <3> QED BY <1>1, <3>4, <3>3
  <2>3. (stopped' /\ ~canceled' /\ pc' \in Begun) =>
          result' = "failed" \/ "exited_early" \in blame' \/ "exit_timeout" \in blame'
    <3>1. (stopped /\ ~canceled /\ pc \in Begun) =>
            result = "failed" \/ "exited_early" \in blame \/ "exit_timeout" \in blame
      BY <1>2 DEF IInv, CauseInv
    <3>2. stopped' => stopped \/ (canceled \/ "exit_timeout" \in blame')  BY DrainedCases
    <3> QED BY <1>1, <1>2, <2>1, <3>1, <3>2 DEF othersKeep
  <2>4. "not_ready" \in reasons' => pc' \in Aborting /\ blame' = {}
    BY <1>2, <2>1, DrainedCases DEF IInv, CauseInv, Aborting
  <2>5. reasons' \intersect {"sampler", "evidence", "schedule", "done_stats", "stats"} = {}
    BY <1>2, <2>1 DEF IInv, CauseInv
  <2>6. /\ "canceled" \in reasons' => canceled'
        /\ "start" \in reasons' => canceled' \/ faults' > 0
        /\ blame' \subseteq {"exited_early", "exit_timeout", "exit_code"}
    BY <1>1, <1>2, <2>1 DEF IInv, CauseInv, othersKeep
  <2> QED BY <2>2, <2>3, <2>4, <2>5, <2>6 DEF CauseInv
<1>10. JudgedInv' /\ JudgeTypes'  BY <1>1, <1>2, NotJudged
<1> QED BY <1>1, <1>3, <1>4, <1>5, <1>6, <1>7, <1>8, <1>9, <1>10, RunnerFrame DEF IInv

-----------------------------------------------------------------------------
(* The judgement                                                           *)

(* Everything that is wrong is a reason ...                                *)
LEMMA WrongIsReason ==
  ASSUME NEW k, NEW metrics, NEW stats, NEW failed
  PROVE  /\ reasons \subseteq Why(k, metrics, stats, failed)
         /\ result = "none" => "control_missing" \in Why(k, metrics, stats, failed)
         /\ metrics = "broken" => "metrics" \in Why(k, metrics, stats, failed)
         /\ Unseen # {} => "not_exited" \in Why(k, metrics, stats, failed)
         /\ (\E p \in seen : proc[p] # "ok") => "exit_code" \in Why(k, metrics, stats, failed)
         /\ (watch = "loss" /\ applied # <<TRUE>>) => "evidence" \in Why(k, metrics, stats, failed)
         /\ (watch = "schedule" /\ pc = "join" /\ ~ScheduleWhole) =>
              "schedule" \in Why(k, metrics, stats, failed)
<1> DEFINE W == Why(k, metrics, stats, failed)
<1>1. reasons \subseteq W  BY DEF Why, GateReasons
<1>2. result = "none" => "control_missing" \in W  BY DEF Why, GateReasons
<1>3. metrics = "broken" => "metrics" \in W
  <2>1. CASE metrics = "broken"  BY <2>1 DEF Why, GateReasons
  <2> QED BY <2>1
<1>4. Unseen # {} => "not_exited" \in W  BY DEF Why, GateReasons
<1>5. (\E p \in seen : proc[p] # "ok") => "exit_code" \in W  BY DEF Why, GateReasons
<1>6. (watch = "loss" /\ applied # <<TRUE>>) => "evidence" \in W  BY DEF Why, GateReasons
<1>7. (watch = "schedule" /\ pc = "join" /\ ~ScheduleWhole) => "schedule" \in W
  BY DEF Why, JoinReasons
<1> QED BY <1>1, <1>2, <1>3, <1>4, <1>5, <1>6, <1>7

(* ... and every reason is something wrong.                                *)
LEMMA ReasonIsWrong ==
  ASSUME NEW k, NEW metrics, NEW stats, NEW failed, NEW r \in Why(k, metrics, stats, failed)
  PROVE  \/ r \in reasons
         \/ r \in {"control_missing", "metrics", "attempted", "not_exited", "exit_code"}
         \/ r = "done_stats" /\ "lacking" \in stats
         \/ r = "evidence" /\ watch = "loss"
         \/ r = "sampler" /\ failed
         \/ r = "schedule" /\ watch = "schedule"
<1>1. \/ r \in GateReasons(k, metrics, stats)
      \/ r \in JoinReasons(failed)
  BY DEF Why
<1>2. CASE r \in JoinReasons(failed)  BY <1>2 DEF JoinReasons
<1>3. CASE r \in GateReasons(k, metrics, stats)
  <2> DEFINE M == CASE metrics = "broken" -> {"metrics"}
                    [] metrics = "short" /\ k # "ramp" -> {"attempted"}
                    [] OTHER -> {}
  <2>1. M \subseteq {"metrics", "attempted"}
    <3>1. CASE metrics = "broken"  BY <3>1
    <3>2. CASE metrics # "broken" /\ metrics = "short" /\ k # "ramp"  BY <3>2
    <3>3. CASE metrics # "broken" /\ ~(metrics = "short" /\ k # "ramp")  BY <3>3
    <3> QED BY <3>1, <3>2, <3>3
  <2>2. \/ r \in reasons
        \/ r \in (IF result = "none" THEN {"control_missing"} ELSE {})
        \/ r \in (IF "lacking" \in stats THEN {"done_stats"} ELSE {})
        \/ r \in M
        \/ r \in (IF Unseen # {} THEN {"not_exited"} ELSE {})
        \/ r \in (IF \E p \in seen : proc[p] # "ok" THEN {"exit_code"} ELSE {})
        \/ r \in (IF watch = "loss" /\ (applied # <<TRUE>> \/ result = "none") THEN {"evidence"} ELSE {})
    BY <1>3 DEF GateReasons
  <2> HIDE DEF M
  <2> QED BY <2>1, <2>2
<1> QED BY <1>1, <1>2, <1>3

(* Whom a judgement blames                                                 *)
LEMMA GuiltIsBlame ==
  ASSUME NEW k, NEW metrics, NEW stats
  PROVE  /\ blame \subseteq GateBlame(k, metrics, stats)
         /\ GateBlame(k, metrics, stats) \subseteq blame \union {"stats", "attempted"}
BY DEF GateBlame

(* What Judge does                                                         *)
LEMMA JudgeSets ==
  ASSUME Judge
  PROVE  /\ pc \in {"join", "abort_join"} /\ watcher \in {"off", "ended"} /\ pc' = "closed"
         /\ UNCHANGED <<stopped, proc, seen, remaining, result>> /\ othersKeep
         /\ \E k \in Kinds : \E metrics \in Metrics, stats \in Stats(k), met, failed \in BOOLEAN :
              JudgedAs(k, metrics, stats, met, failed)
BY DEF Judge

(* A run without a reason is whole.                                        *)
LEMMA JudgedWhole ==
  ASSUME IInv, Judge,
         NEW k, NEW metrics, NEW stats, NEW failed, Why(k, metrics, stats, failed) = {},
         pc = "abort_join" => metrics = "broken"
  PROVE  /\ result' = "ok" /\ done' = Procs
         /\ \A p \in Procs : proc'[p] = "ok"
         /\ watch' = "loss" => applied' = <<TRUE>>
         /\ watch' = "schedule" => \A e \in Egress : link'[e] = Steps
<1>1. /\ pc \in {"join", "abort_join"} /\ watcher \in {"off", "ended"}
      /\ UNCHANGED <<watch, proc, done, result, applied, link>>
  BY JudgeSets DEF othersKeep, sideVars
<1>2. /\ reasons = {} /\ result # "none" /\ metrics # "broken" /\ Unseen = {}
      /\ ~ \E p \in seen : proc[p] # "ok"
      /\ (watch = "loss" => applied = <<TRUE>>)
      /\ (watch = "schedule" /\ pc = "join" => ScheduleWhole)
  BY WrongIsReason
<1>3. pc = "join"  BY <1>1, <1>2
<1>4. result = "ok" /\ done = Procs  BY <1>2 DEF IInv, ControlInv, ControlTypes
<1>5. \A p \in Procs : proc[p] = "ok"
  <2>1. Started = Procs  BY <1>3 DEF IInv, StartInv, Begun
  <2> QED BY <1>2, <2>1 DEF Unseen
<1>6. ASSUME watch = "schedule", NEW e \in Egress PROVE link[e] = Steps
  <2>1. LinkInv /\ watcher = "ended"  BY <1>1, <1>6 DEF IInv, WatchInv
  <2>2. Len(applied) = Steps /\ AllApplied  BY <1>2, <1>3, <1>6 DEF ScheduleWhole, AllApplied
  <2>3. link["client_egress"] = Steps /\ link["server_egress"] = Steps + 0
    BY <2>1, <2>2 DEF LinkInv
  <2>4. Steps + 0 = Steps  BY LifecycleAssumption
  <2> QED BY <2>3, <2>4 DEF Egress
<1> QED BY <1>1, <1>2, <1>4, <1>5, <1>6

(* The cases of Classify that matter                                       *)
LEMMA ClassifyCases ==
  ASSUME NEW W, NEW G, NEW met \in BOOLEAN, NEW k \in Kinds
  PROVE  /\ Classify(W, G, met, k) \in {"PASS", "FAIL", "INVALID", "CENSORED"}
         /\ (Classify(W, G, met, k) = "FAIL" /\ G = {}) => W \subseteq {"attempted"}
         /\ (Classify(W, G, met, k) = "FAIL" /\ k = "ramp") => W = {}
         /\ (k # "ramp" /\ G # {} /\ W \subseteq Consequences) => Classify(W, G, met, k) = "FAIL"
<1>1. CASE k = "ramp" /\ W # {}  BY <1>1 DEF Classify
<1>2. CASE ~(k = "ramp" /\ W # {}) /\ G # {}
  <2>1. Classify(W, G, met, k) = IF W \subseteq Consequences THEN "FAIL" ELSE "INVALID"
    BY <1>2 DEF Classify
  <2> QED BY <1>2, <2>1
<1>3. CASE k # "ramp" /\ G = {} /\ W # {} /\ ~OnlyAttemptedShortfall(W)
  <2>1. Classify(W, G, met, k) = "INVALID"  BY <1>3 DEF Classify
  <2> QED BY <1>3, <2>1
<1>4. CASE k # "ramp" /\ G = {} /\ ~(W # {} /\ ~OnlyAttemptedShortfall(W))
  <2>1. Classify(W, G, met, k) \in {"PASS", "FAIL"}  BY <1>4 DEF Classify
  <2>2. W \subseteq {"attempted"}  BY <1>4 DEF OnlyAttemptedShortfall
  <2> QED BY <1>4, <2>1, <2>2
<1>5. CASE k = "ramp" /\ W = {} /\ G = {}
  <2>1. Classify(W, G, met, k) \in {"CENSORED", "FAIL"}  BY <1>5 DEF Classify
  <2> QED BY <1>5, <2>1
<1> QED BY <1>1, <1>2, <1>3, <1>4, <1>5

(* A judgement names a cause.                                              *)
LEMMA JudgedFail ==
  ASSUME IInv, Judge,
         NEW k \in Kinds, NEW metrics, NEW stats, NEW met \in BOOLEAN, NEW failed,
         JudgedAs(k, metrics, stats, met, failed), outcome' = "FAIL", ~canceled,
         \A p \in Procs : proc[p] # "bad",
         result \notin {"none", "failed"},
         {"exit_timeout", "exited_early", "attempted", "stats"} \intersect GateBlame(k, metrics, stats) = {}
  PROVE  Why(k, metrics, stats, failed) \subseteq {"attempted"}
<1> SUFFICES ASSUME ~(Why(k, metrics, stats, failed) \subseteq {"attempted"}) PROVE FALSE
  OBVIOUS
<1>8. Classify(Why(k, metrics, stats, failed), GateBlame(k, metrics, stats), met, k) = "FAIL"
  BY DEF JudgedAs
<1>9. GateBlame(k, metrics, stats) # {}  BY <1>8, ClassifyCases
<1>1. blame \subseteq {"exited_early", "exit_timeout", "exit_code"}
      /\ ("exit_code" \in blame => pc = "join" /\ \E p \in seen : proc[p] # "ok")
      /\ ((stopped /\ ~canceled /\ pc \in Begun) =>
            result = "failed" \/ "exited_early" \in blame \/ "exit_timeout" \in blame)
  BY JudgeSets DEF IInv, CauseInv
<1>2. /\ blame \subseteq GateBlame(k, metrics, stats)
      /\ GateBlame(k, metrics, stats) \subseteq blame \union {"stats", "attempted"}
  BY GuiltIsBlame
<1>3. "exited_early" \notin blame /\ "exit_timeout" \notin blame  BY <1>2
<1>4. "exit_code" \in blame
  <2>1. PICK g \in GateBlame(k, metrics, stats) : TRUE  BY <1>9
  <2>2. g \in blame /\ g \in {"exited_early", "exit_timeout", "exit_code"}  BY <1>1, <1>2, <2>1
  <2> QED BY <1>3, <2>2
<1>5. PICK p \in seen : proc[p] # "ok"  BY <1>1, <1>4
<1>6. p \in Procs /\ proc[p] \in Ended  BY <1>5 DEF IInv, ProcTypes, ProcInv, Started
<1>7. Cut  BY <1>5, <1>6 DEF IInv, ProcInv, Ended
<1> QED BY <1>1, <1>3, <1>4, <1>7 DEF Cut, Begun

(* A crash that Run saw during the barrier is the SUT's failure, but for a *)
(* scenario's missing dones.                                               *)
LEMMA JudgedCrash ==
  ASSUME IInv, Judge,
         NEW k \in Kinds, NEW metrics, NEW stats \in Stats(k), NEW met \in BOOLEAN,
         NEW failed \in BOOLEAN,
         JudgedAs(k, metrics, stats, met, failed), k # "ramp", watch = "none", ~canceled, faults' = 0,
         "exited_early" \in GateBlame(k, metrics, stats)
  PROVE  outcome' = "FAIL" \/ (k = "scenario" /\ "done_stats" \in reasons')
<1> DEFINE W == Why(k, metrics, stats, failed)
<1>1. ~failed /\ faults = 0
  <2>1. faults \in Nat  BY LifecycleAssumption DEF IInv, ReasonTypes
  <2>2. faults' = faults + (IF failed THEN 1 ELSE 0)  BY DEF JudgedAs
  <2> QED BY <2>1, <2>2
<1>2. "exited_early" \in blame  BY GuiltIsBlame
<1>3. W \subseteq Consequences \union {"done_stats"}
  <2> SUFFICES ASSUME NEW r \in W PROVE r \in Consequences \union {"done_stats"}  OBVIOUS
  <2>1. CASE r \in reasons
    <3>1. r \in Reasons /\ r # "stats"  BY <2>1, JudgeSets DEF IInv, ReasonTypes, CauseInv
    <3>2. r \notin {"not_ready", "canceled", "start"}
      BY <1>1, <1>2, <2>1, JudgeSets DEF IInv, CauseInv
    <3>3. r \notin {"sampler", "evidence", "schedule", "done_stats"}
      BY <2>1, JudgeSets DEF IInv, CauseInv
    <3> QED BY <3>1, <3>2, <3>3 DEF Reasons, Consequences
  <2>2. CASE r \in {"control_missing", "metrics", "attempted", "not_exited", "exit_code"}
    BY <2>2 DEF Consequences
  <2> QED BY <1>1, <2>1, <2>2, ReasonIsWrong
<1>4. CASE "done_stats" \in W
  <2>1. "lacking" \in stats
    <3>1. "done_stats" \notin reasons  BY JudgeSets DEF IInv, CauseInv
    <3> QED BY <1>4, <3>1, ReasonIsWrong
  <2>2. k = "scenario"  BY <2>1 DEF Stats
  <2> QED BY <1>4, <2>2 DEF JudgedAs
<1>5. CASE "done_stats" \notin W
  <2>1. W \subseteq Consequences  BY <1>3, <1>5
  <2> QED BY <2>1, ClassifyCases DEF JudgedAs
<1> QED BY <1>4, <1>5

LEMMA JudgeStep == ASSUME IInv, Judge PROVE IInv'
<1>0. PICK k \in Kinds : \E metrics \in Metrics, stats \in Stats(k), met, failed \in BOOLEAN :
        JudgedAs(k, metrics, stats, met, failed)
  BY JudgeSets
<1>1. PICK metrics \in Metrics, stats \in Stats(k), met \in BOOLEAN, failed \in BOOLEAN :
        JudgedAs(k, metrics, stats, met, failed)
  BY <1>0
<1>2. /\ pc \in {"join", "abort_join"} /\ watcher \in {"off", "ended"} /\ pc' = "closed"
      /\ UNCHANGED <<stopped, proc, seen, remaining, result>> /\ othersKeep
  BY JudgeSets
<1>3. RunTypes' /\ ControlTypes'
  BY <1>2 DEF IInv, RunTypes, ControlTypes, othersKeep
<1>4. ProcTypes' /\ RemainingExact' /\ ProcInv'
  BY <1>2 DEF IInv, ProcTypes, RemainingExact, ProcInv, Started, Unseen, Cut, othersKeep
<1>5. WatchTypes' /\ WatchInv'
  BY <1>2 DEF IInv, WatchTypes, WatchInv, LinkInv, AllApplied, othersKeep, sideVars
<1>6. ReasonTypes'
  <2>1. Why(k, metrics, stats, failed) \subseteq Reasons
    <3> SUFFICES ASSUME NEW r \in Why(k, metrics, stats, failed) PROVE r \in Reasons  OBVIOUS
    <3> QED BY ReasonIsWrong DEF IInv, ReasonTypes, Reasons
  <2>2. GateBlame(k, metrics, stats) \subseteq Reasons  BY GuiltIsBlame DEF IInv, ReasonTypes, Reasons
  <2>3. faults + (IF failed THEN 1 ELSE 0) \in 0..Faults
    BY <1>1 DEF IInv, ReasonTypes, JudgedAs
  <2> QED BY <1>1, <2>1, <2>2, <2>3 DEF ReasonTypes, JudgedAs
<1>7. JudgeTypes'
  <2>1. Classify(Why(k, metrics, stats, failed), GateBlame(k, metrics, stats), met, k)
          \in {"PASS", "FAIL", "INVALID", "CENSORED"}
    BY ClassifyCases
  <2> QED BY <1>1, <2>1 DEF JudgeTypes, JudgedAs
<1>8. StartInv'  BY <1>2 DEF StartInv, Begun
<1>9. StopInv'
  <2>1. stopped \/ Running = {}  BY <1>2 DEF IInv, StopInv, Aborting
  <2>2. Running' = Running  BY <1>2 DEF Running
  <2> QED BY <1>2, <2>1, <2>2 DEF StopInv, Starting, Aborting
<1>10. ControlInv'
  <2>1. reasons \subseteq reasons'  BY <1>1, WrongIsReason DEF JudgedAs
  <2>2. Cut' = Cut  BY <1>2 DEF Cut, othersKeep
  <2> QED BY <1>2, <2>1, <2>2 DEF IInv, ControlInv, Aborting, othersKeep
<1>11. CauseInv'  BY <1>2 DEF CauseInv
<1>12. ValidIsWhole'
  <2> SUFFICES ASSUME verdict' = "VALID" PROVE ValidIsWhole'  BY DEF ValidIsWhole
  <2>1. Why(k, metrics, stats, failed) = {}  BY <1>1 DEF JudgedAs
  <2>2. pc = "abort_join" => metrics = "broken"  BY <1>1 DEF JudgedAs
  <2> QED BY <2>1, <2>2, JudgedWhole DEF ValidIsWhole
<1>13. FailHasCause'
  <2>1. canceled' = canceled /\ proc' = proc /\ result' = result  BY <1>2 DEF othersKeep
  <2>2. reasons' = Why(k, metrics, stats, failed) /\ blame' = GateBlame(k, metrics, stats)  BY <1>1 DEF JudgedAs
  <2>3. SUFFICES ASSUME outcome' = "FAIL", ~canceled,
                        \A p \in Procs : proc[p] # "bad",
                        result \notin {"none", "failed"},
                        {"exit_timeout", "exited_early", "attempted", "stats"}
                          \intersect GateBlame(k, metrics, stats) = {}
                 PROVE  Why(k, metrics, stats, failed) \subseteq {"attempted"}
    BY <2>1, <2>2 DEF FailHasCause
  <2> QED BY <1>1, <2>3, JudgedFail
<1>14. CrashIsFailure'
  <2>1. kind' = k /\ blame' = GateBlame(k, metrics, stats)  BY <1>1 DEF JudgedAs
  <2>2. canceled' = canceled /\ watch' = watch  BY <1>2 DEF othersKeep
  <2>3. SUFFICES ASSUME k # "ramp", watch = "none", ~canceled, faults' = 0,
                        "exited_early" \in GateBlame(k, metrics, stats)
                 PROVE  outcome' = "FAIL" \/ (k = "scenario" /\ "done_stats" \in reasons')
    BY <2>1, <2>2 DEF CrashIsFailure, Crashed
  <2> QED BY <1>1, <2>3, JudgedCrash
<1>15. JudgedInv'
  BY <1>2, <1>12, <1>13, <1>14 DEF JudgedInv, OutcomeIsJust, othersKeep, sideVars
<1> QED
  BY <1>3, <1>4, <1>5, <1>6, <1>7, <1>8, <1>9, <1>10, <1>11, <1>15 DEF IInv

-----------------------------------------------------------------------------
(* Every step keeps the invariant.                                         *)
LEMMA Inductive == ASSUME IInv, [Next]_vars PROVE IInv'
<1>1. CASE Cancel  BY <1>1, CancelStep
<1>2. ASSUME NEW p \in Procs, SendDone(p) PROVE IInv'  BY <1>2, SendDoneStep
<1>3. ASSUME NEW p \in Procs, NEW how \in Ended, Exit(p, how) PROVE IInv'  BY <1>3, ExitStep
<1>4. ASSUME NEW to \in {"window", "ok", "failed", "context"}, Control(to) PROVE IInv'
  BY <1>4, ControlStep
<1>5. CASE WatcherStarts  BY <1>5, WatcherStartsStep
<1>6. CASE Capture  BY <1>6, CaptureStep
<1>7. CASE Tc  BY <1>7, TcStep
<1>8. CASE ScheduleCut  BY <1>8, ScheduleCutStep
<1>9. CASE StartServer  BY <1>9, StartServerStep
<1>10. CASE AwaitReady  BY <1>10, AwaitReadyStep
<1>11. CASE StartClient  BY <1>11, StartClientStep
<1>12. CASE BarrierExit  BY <1>12, BarrierExitStep
<1>13. CASE BarrierControl  BY <1>13, BarrierControlStep
<1>14. CASE BarrierCanceled  BY <1>14, BarrierCanceledStep
<1>15. CASE AfterBarrier \/ AfterAbort  BY <1>15, AwaitControlStep
<1>16. CASE DrainOne  BY <1>16, DrainOneStep
<1>17. CASE Drained  BY <1>17, DrainedStep
<1>18. CASE Judge  BY <1>18, JudgeStep
<1>19. CASE UNCHANGED vars
  <2> USE <1>19 DEF vars
  <2>1. RunTypes' /\ ControlTypes' /\ WatchTypes' /\ ReasonTypes' /\ JudgeTypes'
    BY DEF IInv, RunTypes, ControlTypes, WatchTypes, ReasonTypes, JudgeTypes
  <2>2. ProcTypes' /\ RemainingExact' /\ StartInv' /\ ProcInv'
    BY DEF IInv, ProcTypes, RemainingExact, StartInv, ProcInv, Started, Unseen, Cut
  <2>3. StopInv' /\ ControlInv' /\ WatchInv'
    BY DEF IInv, StopInv, ControlInv, WatchInv, LinkInv, AllApplied, Running, Cut
  <2>4. CauseInv'  BY DEF IInv, CauseInv
  <2>5. JudgedInv'
    BY DEF IInv, JudgedInv, ValidIsWhole, OutcomeIsJust, FailHasCause, CrashIsFailure, Crashed
  <2> QED BY <2>1, <2>2, <2>3, <2>4, <2>5 DEF IInv
<1> QED
  BY <1>1, <1>2, <1>3, <1>4, <1>5, <1>6, <1>7, <1>8, <1>9, <1>10, <1>11, <1>12, <1>13, <1>14,
     <1>15, <1>16, <1>17, <1>18, <1>19 DEF Next

LEMMA Always == Spec => []IInv
BY InitInv, Inductive, PTL DEF Spec

-----------------------------------------------------------------------------
(* What a run keeps, for any number of clients, steps and failures         *)

(* Every variable of the runner and of what it started stays in its range. *)
THEOREM LifecycleTypes == Spec => []LifecycleTypeOK
BY Always, TypesFollow, PTL

(* The runner waits for exactly the exits that are still to come: no drain *)
(* waits for an event that cannot come or leaves one behind.               *)
THEOREM CountIsExact == Spec => []RemainingExact
<1>1. IInv => RemainingExact  BY DEF IInv
<1> QED BY <1>1, Always, PTL

(* When Run returns, every process it started has ended or was sent its    *)
(* SIGKILL with runCtx: the rig is taken down under nobody.                *)
THEOREM NothingIsLeft == Spec => []NothingOutlivesRun
<1>1. IInv => NothingOutlivesRun  BY DEF IInv, StopInv, NothingOutlivesRun, Cut
<1> QED BY <1>1, Always, PTL

(* A run judged VALID finished its barrier, its processes, its evidence    *)
(* and its schedule, whatever was canceled, killed or failed on the way.   *)
THEOREM ValidRunIsWhole == Spec => []ValidIsWhole
<1>1. IInv => ValidIsWhole  BY DEF IInv, JudgedInv
<1> QED BY <1>1, Always, PTL

(* A FAIL nobody canceled has a cause in the SUT, and of what follows from *)
(* a crash that Run saw only a scenario's missing dones make the run       *)
(* INVALID.                                                                *)
THEOREM OutcomesAreJust == Spec => []OutcomeIsJust
<1>1. IInv => OutcomeIsJust  BY DEF IInv, JudgedInv
<1> QED BY <1>1, Always, PTL
=============================================================================
