---------------------------- MODULE RunLifecycle ----------------------------
(***************************************************************************)
(* One call of Run (orchestrator/run/runner.go): it starts a server, waits *)
(* until it listens, starts the clients, and then waits at once for the    *)
(* control barrier, for an exiting process and for the operator, while a   *)
(* goroutine applies the netem schedule or captures loss evidence inside   *)
(* the measurement window.  Then it drains the processes, joins the        *)
(* goroutines and judges the run.                                          *)
(*                                                                         *)
(* Everything in runCtx is killed when runCtx ends: by cancelRun           *)
(* (`stopped') or by the operator, whose signal ends the parent context    *)
(* (`canceled').  Which of the ready cases of a select is taken is open.   *)
(*                                                                         *)
(* A reason is a string naming its kind; the control protocol itself is    *)
(* ControlBarrier and appears here as its result only.                     *)
(***************************************************************************)
EXTENDS Integers, FiniteSets, Sequences

CONSTANTS
  Clients,  \* the client processes
  Steps,    \* the number of steps of the netem schedule
  Faults    \* bound: failures of the runner's own tools

ASSUME LifecycleAssumption ==
  /\ IsFiniteSet(Clients) /\ Clients # {} /\ "server" \notin Clients
  /\ Steps \in Nat \ {0} /\ Faults \in Nat

Procs == Clients \union {"server"}
Egress == {"server_egress", "client_egress"}

VARIABLES
  watch,      \* what the goroutine that waits for the window is for
  pc,         \* where Run is
  canceled,   \* the operator ended the parent context
  stopped,    \* cancelRun was called
  proc,       \* each process: "none", "running" or how it ended
  done,       \* the processes that have sent their done
  seen,       \* the processes whose waitEvent was applied
  remaining,  \* Run's count of waitEvents to come
  control,    \* the control server: "hello", "window" or its result
  issued,     \* it has issued the schedule: everyone is its participant
  result,     \* result.Control: "none" or the result taken
  watcher,    \* the goroutine waiting for the window
  applied,    \* the records of the schedule steps: TRUE when no error
  link,       \* the step in force on each egress, 0 for the base regime
  reasons,    \* extraReasons
  blame,      \* sutFailureReasons
  faults,     \* failures of the runner's tools so far
  kind,       \* the kind of workload, from the judgement on
  verdict, outcome

procVars == <<proc, done>>
controlVars == <<control, issued>>
sideVars == <<watcher, applied, link>>
judgeVars == <<kind, verdict, outcome>>
vars == <<watch, pc, canceled, stopped, proc, done, seen, remaining, control,
          issued, result, watcher, applied, link, reasons, blame, faults, kind, verdict, outcome>>

(* A loss regime collects evidence, a schedule needs a loss-free base, so  *)
(* at most one goroutine reads the one window message.                     *)
Watches == {"none", "loss", "schedule"}

(* A ramp, or a fixed workload, without criteria or of a scenario: only    *)
(* the judgement asks.                                                     *)
Kinds == {"ramp", "plain", "scenario"}

Reasons == {"start", "not_ready", "canceled", "sampler", "evidence", "schedule",
            "control_failed", "control_missing", "exited_early",
            "exit_timeout", "exit_code", "not_exited", "metrics", "attempted",
            "done_stats", "stats"}

(* The reasons that only follow from a failing process                     *)
Consequences == {"control_failed", "control_missing", "exited_early", "exit_timeout",
                 "exit_code", "not_exited", "metrics", "attempted"}

Ended == {"ok", "bad", "killed"}
Started == {p \in Procs : proc[p] # "none"}
Running == {p \in Procs : proc[p] = "running"}
Waiting == {p \in Procs : proc[p] \in Ended} \ seen

(* remainingExitedCount counts these.                                      *)
Unseen == Started \ seen

(* runCtx.Done                                                             *)
Cut == canceled \/ stopped

Init ==
  /\ watch \in Watches
  /\ pc = "start_server"
  /\ canceled = FALSE /\ stopped = FALSE
  /\ proc = [p \in Procs |-> "none"] /\ done = {} /\ seen = {} /\ remaining = 0
  /\ control = "hello" /\ issued = FALSE /\ result = "none"
  /\ watcher = IF watch = "none" THEN "off" ELSE "waiting"
  /\ applied = <<>> /\ link = [e \in Egress |-> 0]
  /\ reasons = {} /\ blame = {} /\ faults = 0
  /\ kind = "none" /\ verdict = "none" /\ outcome = "none"

-----------------------------------------------------------------------------
(* Around the runner                                                       *)

(* What happens after the judgement changes nothing in it.                 *)
AtWork == pc # "closed"

Cancel ==
  /\ AtWork /\ ~canceled
  /\ canceled' = TRUE
  /\ UNCHANGED <<watch, pc, stopped, procVars, seen, remaining, controlVars, result,
                 sideVars, reasons, blame, faults, judgeVars>>

SendDone(p) ==
  /\ AtWork /\ proc[p] = "running" /\ p \notin done /\ control = "window"
  /\ done' = done \union {p}
  /\ UNCHANGED <<watch, pc, canceled, stopped, proc, seen, remaining, controlVars, result,
                 sideVars, reasons, blame, faults, judgeVars>>

(* A process ends by itself, or by the SIGKILL its group is sent when      *)
(* runCtx ends (exec.CommandContext with the Cancel of proc.Start).        *)
Exit(p, how) ==
  /\ AtWork /\ proc[p] = "running"
  /\ how = "killed" => Cut
  /\ proc' = [proc EXCEPT ![p] = how]
  /\ UNCHANGED <<watch, pc, canceled, stopped, done, seen, remaining, controlVars, result,
                 sideVars, reasons, blame, faults, judgeVars>>

(* The control server: the schedule is out once everyone is ready; it      *)
(* ends well when every done is in, and otherwise by a timer, by a lost    *)
(* connection, or with runCtx.                                             *)
Control(to) ==
  /\ AtWork
  /\ \/ control = "hello" /\ to = "window" /\ Running = Procs
     \/ control = "window" /\ to = "ok" /\ done = Procs
     \/ control \in {"hello", "window"} /\ to = "failed"
     \/ control \in {"hello", "window"} /\ to = "context" /\ Cut
  /\ control' = to /\ issued' = (issued \/ to = "window")
  /\ UNCHANGED <<watch, pc, canceled, stopped, procVars, seen, remaining, result,
                 sideVars, reasons, blame, faults, judgeVars>>

-----------------------------------------------------------------------------
(* The goroutine that waits for the window                                 *)

(* It reads the window message, or gives up when runCtx ends.              *)
WatcherStarts ==
  /\ watcher = "waiting"
  /\ \/ control \in {"window", "ok"} /\ watcher' = "server_egress"
     \/ Cut /\ watcher' = "ended"
  /\ UNCHANGED <<watch, pc, canceled, stopped, procVars, seen, remaining, controlVars, result,
                 applied, link, reasons, blame, faults, judgeVars>>

(* Loss evidence: both samples were taken, or one was not.                 *)
Capture ==
  /\ watch = "loss" /\ watcher = "server_egress"
  /\ watcher' = "ended"
  /\ \/ applied' = <<TRUE>> /\ UNCHANGED faults
     \/ applied' = <<FALSE>> /\ Cut /\ UNCHANGED faults
     \/ applied' = <<FALSE>> /\ faults < Faults /\ faults' = faults + 1
  /\ UNCHANGED <<watch, pc, canceled, stopped, procVars, seen, remaining, controlVars, result,
                 link, reasons, blame, judgeVars>>

(* Fault: the first step is left out.                                      *)
FaultStep == Len(applied) + 2

(* What a schedule step sets: both egresses, the server's first.           *)
Step == Len(applied) + 1
AfterStep == IF Step = Steps THEN "ended" ELSE "server_egress"

(* The two tc commands of a step.  A failing command - or one killed with  *)
(* runCtx, which may have taken effect - leaves out the second of its      *)
(* step; the record of the step then carries the error.                    *)
Tc ==
  /\ watch = "schedule" /\ watcher \in Egress
  /\ \/ /\ link' = [link EXCEPT ![watcher] = Step] /\ UNCHANGED faults
        /\ IF watcher = "server_egress"
           THEN watcher' = "client_egress" /\ UNCHANGED applied
           ELSE watcher' = AfterStep /\ applied' = Append(applied, TRUE)
     \/ /\ \/ Cut /\ UNCHANGED faults /\ link' \in {link, [link EXCEPT ![watcher] = Step]}
           \/ faults < Faults /\ faults' = faults + 1 /\ UNCHANGED link
        /\ applied' = Append(applied, FALSE) /\ watcher' = AfterStep
  /\ UNCHANGED <<watch, pc, canceled, stopped, procVars, seen, remaining, controlVars, result,
                 reasons, blame, judgeVars>>

(* The wait for a step's time ends with runCtx: the rest is not applied.   *)
ScheduleCut ==
  /\ watch = "schedule" /\ watcher = "server_egress" /\ Cut
  /\ watcher' = "ended"
  /\ UNCHANGED <<watch, pc, canceled, stopped, procVars, seen, remaining, controlVars, result,
                 applied, link, reasons, blame, faults, judgeVars>>

-----------------------------------------------------------------------------
(* The runner: starting                                                    *)

othersKeep == UNCHANGED <<watch, canceled, done, controlVars, sideVars>>

(* One startOne: a running process and one more waitEvent to come, or a    *)
(* reason.  Nothing starts under an ended context.  cancelRun ends what    *)
(* was started before a failure.                                           *)
StartOne(p, then) ==
  \/ /\ ~Cut
     /\ proc' = [proc EXCEPT ![p] = "running"] /\ remaining' = remaining + 1
     /\ pc' = then
     /\ UNCHANGED <<stopped, reasons, faults>>
  \/ /\ \/ Cut /\ UNCHANGED faults
        \/ faults < Faults /\ faults' = faults + 1
     /\ reasons' = reasons \union {"start"} /\ stopped' = TRUE /\ pc' = "abort"
     /\ UNCHANGED <<proc, remaining>>

StartServer ==
  /\ pc = "start_server" /\ StartOne("server", "await_ready")
  /\ UNCHANGED <<seen, result, blame, judgeVars>> /\ othersKeep

StartClient ==
  /\ pc = "start_clients"
  /\ \E c \in Clients \ Started :
       StartOne(c, IF Clients \subseteq Started \union {c} THEN "barrier" ELSE "start_clients")
  /\ UNCHANGED <<seen, result, blame, judgeVars>> /\ othersKeep

(* The wait for a listening server: it is ready, it exited, runCtx or the  *)
(* timer ended.  (A server that exited may have been ready before.)        *)
AwaitReady ==
  /\ pc = "await_ready"
  /\ \/ pc' = "start_clients" /\ UNCHANGED <<stopped, seen, remaining, reasons, blame>>
     \/ /\ pc' = "abort" /\ stopped' = TRUE
        /\ \/ Cut /\ reasons' = reasons \union {"canceled"} /\ UNCHANGED <<seen, remaining, blame>>
           \/ /\ Waiting # {}
              /\ seen' = seen \union Waiting /\ remaining' = remaining - 1
              /\ reasons' = reasons \union {"exited_early"} /\ blame' = blame \union {"exited_early"}
           \/ reasons' = reasons \union {"not_ready"} /\ UNCHANGED <<seen, remaining, blame>>
  /\ UNCHANGED <<proc, result, faults, judgeVars>> /\ othersKeep

-----------------------------------------------------------------------------
(* The runner: the barrier                                                 *)

(* Fault: the event is taken, but not counted.                             *)
FaultTakeExit(p) == p \in Waiting /\ seen' = seen \union {p} /\ UNCHANGED remaining

(* A waitEvent is applied: the process counts as exited.                   *)
TakeExit(p) ==
  /\ p \in Waiting
  /\ seen' = seen \union {p} /\ remaining' = remaining - 1

(* The control server's result is taken                                    *)
TakeControl ==
  /\ control \in {"ok", "failed", "context"} /\ result = "none"
  /\ result' = control

BarrierExit ==
  /\ pc = "barrier"
  /\ \E p \in Procs :
       /\ TakeExit(p)
       /\ IF proc[p] = "ok"
          THEN UNCHANGED <<pc, stopped, reasons, blame>>
          ELSE /\ reasons' = reasons \union {"exited_early"}
               /\ blame' = blame \union {"exited_early"}
               /\ stopped' = TRUE /\ pc' = "await_control"
  /\ UNCHANGED <<proc, result, faults, judgeVars>> /\ othersKeep

(* Fault: a failed barrier ends the loop, and not the run.                 *)
FaultBarrierControl ==
  /\ pc = "barrier" /\ TakeControl
  /\ pc' = "drain"
  /\ IF control = "ok" THEN UNCHANGED <<stopped, reasons>>
     ELSE reasons' = reasons \union {"control_failed"} /\ UNCHANGED stopped
  /\ UNCHANGED <<proc, seen, remaining, blame, faults, judgeVars>> /\ othersKeep

BarrierControl ==
  /\ pc = "barrier" /\ TakeControl
  /\ pc' = "drain"
  /\ IF control = "ok" THEN UNCHANGED <<stopped, reasons>>
     ELSE reasons' = reasons \union {"control_failed"} /\ stopped' = TRUE
  /\ UNCHANGED <<proc, seen, remaining, blame, faults, judgeVars>> /\ othersKeep

BarrierCanceled ==
  /\ pc = "barrier" /\ canceled
  /\ reasons' = reasons \union {"canceled"}
  /\ stopped' = TRUE /\ pc' = "await_control"
  /\ UNCHANGED <<proc, seen, remaining, result, blame, faults, judgeVars>> /\ othersKeep

(* awaitControl: the result, unless its timer is faster; a result that     *)
(* only says the context ended is no reason.                               *)
AwaitControl(then) ==
  /\ \/ TakeControl /\ reasons' = IF control = "failed" THEN reasons \union {"control_failed"} ELSE reasons
     \/ UNCHANGED result /\ reasons' = reasons \union {"control_failed"}
  /\ pc' = then
  /\ UNCHANGED <<stopped, proc, seen, remaining, blame, faults, judgeVars>> /\ othersKeep

AfterBarrier == pc = "await_control" /\ AwaitControl("drain")
AfterAbort == pc = "abort_control" /\ AwaitControl("abort_join")

-----------------------------------------------------------------------------
(* The runner: draining and joining                                        *)

DrainPcs == {"drain", "redrain", "abort"}

DrainOne ==
  /\ pc \in DrainPcs /\ remaining > 0
  /\ \E p \in Procs : TakeExit(p)
  /\ UNCHANGED <<pc, stopped, proc, result, reasons, blame, faults, judgeVars>> /\ othersKeep

(* The processes that ended badly are blamed, unless the operator ended    *)
(* the run.                                                                *)
ExitBlame == IF ~canceled /\ \E p \in seen : proc[p] # "ok" THEN {"exit_code"} ELSE {}

(* Fault: the processes that did not exit in time are not killed.          *)
FaultDrained ==
  /\ pc \in DrainPcs
  /\ \/ /\ remaining = 0
        /\ UNCHANGED <<stopped, remaining, reasons>>
        /\ IF pc = "abort" THEN pc' = "abort_control" /\ UNCHANGED blame
           ELSE pc' = "join" /\ blame' = blame \union ExitBlame
     \/ /\ remaining > 0
        /\ CASE pc = "abort" -> pc' = "abort_control" /\ UNCHANGED <<stopped, remaining, reasons, blame>>
             [] pc = "redrain" -> pc' = "join" /\ blame' = blame \union ExitBlame
                                  /\ UNCHANGED <<stopped, remaining, reasons>>
             [] OTHER -> /\ pc' = "redrain" /\ remaining' = Cardinality(Unseen)
                         /\ reasons' = reasons \union {"exit_timeout"}
                         /\ blame' = IF canceled THEN blame ELSE blame \union {"exit_timeout"}
                         /\ UNCHANGED stopped
  /\ UNCHANGED <<proc, seen, result, faults, judgeVars>> /\ othersKeep

(* drainWaits returns when nothing remains or when its timer fires.  After *)
(* the first timeout the rest is killed and waited for once more.          *)
Drained ==
  /\ pc \in DrainPcs
  /\ \/ /\ remaining = 0
        /\ UNCHANGED <<stopped, remaining, reasons>>
        /\ IF pc = "abort" THEN pc' = "abort_control" /\ UNCHANGED blame
           ELSE pc' = "join" /\ blame' = blame \union ExitBlame
     \/ /\ remaining > 0
        /\ CASE pc = "abort" -> pc' = "abort_control" /\ UNCHANGED <<stopped, remaining, reasons, blame>>
             [] pc = "redrain" -> pc' = "join" /\ blame' = blame \union ExitBlame
                                  /\ UNCHANGED <<stopped, remaining, reasons>>
             [] OTHER -> /\ pc' = "redrain" /\ remaining' = Cardinality(Unseen)
                         /\ reasons' = reasons \union {"exit_timeout"}
                         /\ blame' = IF canceled THEN blame ELSE blame \union {"exit_timeout"}
                         /\ stopped' = TRUE
  /\ UNCHANGED <<proc, seen, result, faults, judgeVars>> /\ othersKeep

ScheduleWhole == Len(applied) = Steps /\ \A i \in DOMAIN applied : applied[i]

-----------------------------------------------------------------------------
(* The runner: judging                                                     *)

(* What the metrics files or the ramp snapshots amount to: not readable or *)
(* contradictory; sends missing with nobody, or the SUT, accountable; whole. *)
Metrics == {"broken", "short", "refused", "whole"}

(* What the stats of the participants' dones amount to, which a scenario   *)
(* asks for: some are missing or do not say what the gate needs; some tell *)
(* of corrupt payloads or of missing progress.  Whoever sent no done has   *)
(* none; before the schedule it is open who is a participant.              *)
Stats(k) ==
  {s \in SUBSET {"lacking", "corrupt"} :
     IF k = "scenario" /\ result # "none"
     THEN (issued /\ done # Procs => "lacking" \in s) /\ ("corrupt" \in s => done # {})
     ELSE s = {}}

(* The reasons EvaluateGate adds to those of Run                           *)
GateReasons(k, metrics, stats) ==
  reasons
  \union (IF result = "none" THEN {"control_missing"} ELSE {})
  \union (IF "lacking" \in stats THEN {"done_stats"} ELSE {})
  \union (CASE metrics = "broken" -> {"metrics"}
            [] metrics = "short" /\ k # "ramp" -> {"attempted"}
            [] OTHER -> {})
  \union (IF Unseen # {} THEN {"not_exited"} ELSE {})
  \union (IF \E p \in seen : proc[p] # "ok" THEN {"exit_code"} ELSE {})
  \union (IF watch = "loss" /\ (applied # <<TRUE>> \/ result = "none") THEN {"evidence"} ELSE {})

GateBlame(k, metrics, stats) ==
  blame
  \union (IF "corrupt" \in stats THEN {"stats"} ELSE {})
  \union (IF metrics = "refused" /\ k # "ramp" THEN {"attempted"} ELSE {})

(* Offered load that was not offered is the one reason that leaves the     *)
(* criteria the last word.                                                 *)
OnlyAttemptedShortfall(why) == why # {} /\ why \subseteq {"attempted"}

(* Fault: the reasons count only when a process is blamed.                 *)
FaultClassify(why, guilt, met, k) ==
  IF guilt # {} THEN IF why \subseteq Consequences THEN "FAIL" ELSE "INVALID"
  ELSE IF k = "ramp" /\ met THEN "CENSORED" ELSE IF met THEN "PASS" ELSE "FAIL"

(* classifyRunOutcome; met is the judgement of the SLOs or of the ramp.    *)
Classify(why, guilt, met, k) ==
  IF k = "ramp" /\ why # {} THEN "INVALID"
  ELSE IF guilt # {} THEN IF why \subseteq Consequences THEN "FAIL" ELSE "INVALID"
  ELSE IF why # {} /\ ~OnlyAttemptedShortfall(why) THEN "INVALID"
  ELSE IF ~met THEN "FAIL"
  ELSE IF k = "ramp" THEN "CENSORED" ELSE "PASS"

(* Fault: a schedule is not looked at.                                     *)
FaultJoinReasons(failed) == IF failed THEN {"sampler"} ELSE {}

(* After a complete start the runner's own measurements (samples, UDP      *)
(* counters, margins) may have failed; a schedule must be complete.        *)
JoinReasons(failed) ==
  (IF failed THEN {"sampler"} ELSE {})
  \union (IF watch = "schedule" /\ pc = "join" /\ ~ScheduleWhole THEN {"schedule"} ELSE {})

(* Everything that is wrong with the run                                   *)
Why(k, metrics, stats, failed) == GateReasons(k, metrics, stats) \union JoinReasons(failed)

(* What the judgement makes of a workload of kind k, the metrics and the   *)
(* stats at hand, the criteria, and a failure of the runner's own tools.   *)
JudgedAs(k, metrics, stats, met, failed) ==
  /\ failed => pc = "join" /\ faults < Faults
  /\ pc = "abort_join" => metrics = "broken"
  /\ k = "plain" => met
  /\ faults' = faults + (IF failed THEN 1 ELSE 0)
  /\ verdict' = IF Why(k, metrics, stats, failed) = {} THEN "VALID" ELSE "INVALID"
  /\ outcome' = Classify(Why(k, metrics, stats, failed), GateBlame(k, metrics, stats), met, k)
  /\ kind' = k /\ reasons' = Why(k, metrics, stats, failed) /\ blame' = GateBlame(k, metrics, stats)

(* The window's goroutine is waited for, with no timer, the run is judged, *)
(* and the deferred calls take down the rig and release the lock.          *)
Judge ==
  /\ pc \in {"join", "abort_join"} /\ watcher \in {"off", "ended"}
  /\ pc' = "closed"
  /\ \E k \in Kinds : \E metrics \in Metrics, stats \in Stats(k), met, failed \in BOOLEAN :
       JudgedAs(k, metrics, stats, met, failed)
  /\ UNCHANGED <<stopped, proc, seen, remaining, result>> /\ othersKeep

Next ==
  \/ Cancel
  \/ \E p \in Procs : SendDone(p)
  \/ \E p \in Procs, how \in Ended : Exit(p, how)
  \/ \E to \in {"window", "ok", "failed", "context"} : Control(to)
  \/ WatcherStarts
  \/ Capture
  \/ Tc
  \/ ScheduleCut
  \/ StartServer
  \/ AwaitReady
  \/ StartClient
  \/ BarrierExit
  \/ BarrierControl
  \/ BarrierCanceled
  \/ AfterBarrier
  \/ AfterAbort
  \/ DrainOne
  \/ Drained
  \/ Judge

(* The runner's own steps are bounded by its timers, the goroutine's by    *)
(* its commands; the control server ends by its stage timers               *)
(* (ControlBarrier!RunEnds).  Nothing is assumed of the processes.         *)
Runner ==
  \/ StartServer \/ AwaitReady \/ StartClient \/ BarrierExit \/ BarrierControl
  \/ BarrierCanceled \/ AfterBarrier \/ AfterAbort \/ Drained \/ Judge

Fairness ==
  /\ WF_vars(Runner)
  /\ WF_vars(WatcherStarts \/ Capture \/ Tc \/ ScheduleCut)
  /\ WF_vars(\E to \in {"ok", "failed", "context"} : Control(to))

Spec == Init /\ [][Next]_vars
FairSpec == Spec /\ Fairness

-----------------------------------------------------------------------------
(* Every variable stays in its range.                                      *)
LifecycleTypeOK ==
  /\ watch \in Watches /\ kind \in Kinds \union {"none"}
  /\ pc \in {"start_server", "await_ready", "start_clients", "barrier", "await_control", "drain",
             "redrain", "abort", "abort_control", "abort_join", "join", "closed"}
  /\ canceled \in BOOLEAN /\ stopped \in BOOLEAN
  /\ proc \in [Procs -> {"none", "running"} \union Ended]
  /\ done \subseteq Started /\ seen \subseteq Started
  /\ remaining \in 0..Cardinality(Procs)
  /\ control \in {"hello", "window", "ok", "failed", "context"} /\ issued \in BOOLEAN
  /\ result \in {"none", "ok", "failed", "context"}
  /\ watcher \in {"off", "waiting", "ended"} \union Egress
  /\ applied \in Seq(BOOLEAN) /\ Len(applied) <= Steps
  /\ link \in [Egress -> 0..Steps]
  /\ reasons \subseteq Reasons /\ blame \subseteq Reasons /\ faults \in 0..Faults
  /\ verdict \in {"none", "VALID", "INVALID"}
  /\ outcome \in {"none", "PASS", "FAIL", "INVALID", "CENSORED"}

(* A measurement called VALID is whole: everyone finished the barrier and  *)
(* ended well of its own accord, the evidence was captured, and the        *)
(* schedule stands at its last step on both ends of the link - whatever    *)
(* exits, cancels and failing commands came in between.                    *)
ValidIsWhole ==
  verdict = "VALID" =>
    /\ result = "ok" /\ done = Procs
    /\ \A p \in Procs : proc[p] = "ok"
    /\ watch = "loss" => applied = <<TRUE>>
    /\ watch = "schedule" => \A e \in Egress : link[e] = Steps

(* The rig is taken down under nobody: when Run has judged and leaves, a   *)
(* process that is still alive has been sent its SIGKILL, whichever of the *)
(* drains gave up on it.                                                   *)
NothingOutlivesRun == pc = "closed" => Running = {} \/ Cut

(* The count of waitEvents to come is the number of processes started and  *)
(* not yet seen, so that no drain waits for an event that cannot come or   *)
(* leaves one behind.                                                      *)
RemainingExact == remaining = Cardinality(Unseen)

(* A run that nobody canceled is only called a failure of the SUT when     *)
(* something the SUT takes part in went wrong: a process of its own        *)
(* accord, the barrier, an exit that did not come, refused sends, corrupt  *)
(* payloads or missing progress, the criteria.                             *)
FailHasCause ==
  (outcome = "FAIL" /\ ~canceled) =>
    \/ \E p \in Procs : proc[p] = "bad"
    \/ result \in {"none", "failed"}
    \/ {"exit_timeout", "exited_early", "attempted", "stats"} \intersect blame # {}
    \/ reasons \subseteq {"attempted"}

(* Run saw a process of a fixed workload end badly before its done, and    *)
(* nothing else went wrong.                                                *)
Crashed ==
  /\ outcome # "none" /\ kind # "ramp" /\ watch = "none" /\ ~canceled /\ faults = 0
  /\ "exited_early" \in blame /\ \E p \in seen : proc[p] = "bad" /\ p \notin done

(* A crash is a failure of the SUT: of what follows from it - the failed   *)
(* barrier, the missing metrics, the killed processes - only one thing     *)
(* turns the FAIL into an INVALID, and in a scenario only: a missing done. *)
(* (Cut off loss evidence and a cut off schedule do so too.)               *)
CrashIsFailure ==
  Crashed => outcome = "FAIL" \/ (kind = "scenario" /\ "done_stats" \in reasons)

(* FAIL and INVALID are told apart by cause, in both directions            *)
(* (classifyRunOutcome and independentInvalidReasons).                     *)
OutcomeIsJust == FailHasCause /\ CrashIsFailure

(* outcome_test.go: a crash in a scenario, here one in the measurement, is *)
(* a failure of the SUT.                                                   *)
CrashFailsScenario == Crashed /\ issued /\ kind = "scenario" => outcome = "FAIL"

(* Run ends, although it waits without a timer for the window's goroutine: *)
(* every way out of the barrier ends runCtx or follows the window.         *)
RunReturns == <>(pc = "closed")
=============================================================================
