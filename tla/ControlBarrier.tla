--------------------------- MODULE ControlBarrier ---------------------------
(***************************************************************************)
(* How the runner (orchestrator/control/server.go) and the processes of a   *)
(* run (benchkit: control.c and the loops of sut.c) agree on one            *)
(* measurement window: hello, ready, schedule, and, with steady warmup, an  *)
(* earlier window sent while every process is already counting down to the  *)
(* provisional one.                                                         *)
(*                                                                          *)
(* All processes run on one host and read one monotonic clock, in units of  *)
(* the rate interval; it starts when the schedule is issued, since nothing  *)
(* reads it before.  Any thread may be late by any time.  A window is named *)
(* by its start: stop and drain follow from it.  A process may exit or hang *)
(* at any point.  Whether the reported rates are steady is a choice; the    *)
(* timeouts of the stages may strike at any moment.                         *)
(***************************************************************************)
EXTENDS Integers, Sequences, FiniteSets

CONSTANTS
  Server,         \* the process of role server
  Clients,        \* the processes of role client
  Warmup,         \* from the schedule to the provisional start
  MinWarmup,      \* SteadyMinWarmup
  Guard,          \* SteadyGuard: from the window message to its start
  Duration,       \* from start to stop
  Drain,          \* from stop to the end
  RateInterval,   \* BK_RATE_INTERVAL_NS
  ReportsNeeded,  \* 2 * SteadyBuckets + 1 rate messages
  MaxClock        \* bound: the clock stops here

Procs == Clients \cup {Server}
None == -1

ASSUME BarrierAssumption ==
  /\ Server \notin Clients /\ Clients # {} /\ IsFiniteSet(Clients)
  /\ {Warmup, MinWarmup, Guard, Duration, Drain} \subseteq Nat
  /\ RateInterval \in Nat \ {0} /\ ReportsNeeded \in Nat \ {0}
  /\ MaxClock \in Nat /\ MaxClock >= Warmup + Duration + Drain

VARIABLES
  steadyWarmup,  \* SteadyWarmup, fixed by the configuration
  clock,
  stage,         \* the stage Run waits in
  settling,      \* Run is in its loop over advanceStageIfReady
  told,          \* what runState.apply accepted of each process
  reports,       \* rate messages of each process, counted up to ReportsNeeded
  late,          \* some margin was negative: the run is invalid
  schedule,      \* start of state.schedule, the window in force
  sending,       \* start of the window Run is sending, None when it is not
  unsent,        \* the participants it has yet to be sent to
  cutoff,        \* when the timer of StageWindow fires
  published,     \* what MeasurementWindow delivered, None before
  result,        \* "none" until Run returns, "failed" whatever the error was
  toRunner,      \* control messages on the way to the runner
  toProc,        \* and to each process
  pc,            \* where each process is
  now,           \* the loop's reading of the clock, None between iterations
  start,         \* start of the process's schedule
  final,         \* window_final
  nextRate,      \* next_rate_ns, 0 before the first tick
  missed,        \* history: the process read its window after it had begun
  opened         \* history: the windows in which the process measured

runnerVars == <<stage, settling, told, reports, late, schedule, sending, unsent,
               cutoff, published, result>>
procVars == <<pc, now, start, final, nextRate, missed, opened>>
vars == <<steadyWarmup, clock, runnerVars, toRunner, toProc, procVars>>

Init ==
  /\ steadyWarmup \in BOOLEAN
  /\ clock = 0
  /\ stage = "hello" /\ settling = FALSE
  /\ told = [p \in Procs |-> {}]
  /\ reports = [p \in Procs |-> 0]
  /\ late = FALSE
  /\ schedule = None /\ sending = None /\ unsent = {} /\ cutoff = None /\ published = None
  /\ result = "none"
  /\ toRunner = [p \in Procs |-> <<>>]
  /\ toProc = [p \in Procs |-> <<>>]
  /\ pc = [p \in Procs |-> "begin"]
  /\ now = [p \in Procs |-> None]
  /\ start = [p \in Procs |-> None]
  /\ final = [p \in Procs |-> FALSE]
  /\ nextRate = [p \in Procs |-> 0]
  /\ missed = [p \in Procs |-> FALSE]
  /\ opened = [p \in Procs |-> {}]

Open == result = "none"
Gone(p) == pc[p] = "failed"
Ends(s) == s + Duration + Drain
Msg(type) == [type |-> type, late |-> FALSE]

-----------------------------------------------------------------------------
(* The processes.                                                           *)

Tell(p, m) == toRunner' = [toRunner EXCEPT ![p] = Append(@, m)]

(* The runner starts the clients once the server has said ready.            *)
Hello(p) ==
  /\ Open /\ pc[p] = "begin"
  /\ p # Server => "ready" \in told[Server]
  /\ Tell(p, Msg("hello"))
  /\ pc' = [pc EXCEPT ![p] = "connecting"]
  /\ UNCHANGED <<steadyWarmup, clock, runnerVars, toProc, now, start, final,
                 nextRate, missed, opened>>

Ready(p) ==
  /\ Open /\ pc[p] = "connecting"
  /\ Tell(p, Msg("ready"))
  /\ pc' = [pc EXCEPT ![p] = "waiting"]
  /\ UNCHANGED <<steadyWarmup, clock, runnerVars, toProc, now, start, final,
                 nextRate, missed, opened>>

(* A schedule or a window is read at the current time, and the              *)
(* acknowledgement tells whether it has already begun.                      *)
Adopt(p, ack) ==
  LET s == Head(toProc[p]).start IN
    /\ start' = [start EXCEPT ![p] = s]
    /\ missed' = [missed EXCEPT ![p] = s < clock]
    /\ toProc' = [toProc EXCEPT ![p] = Tail(@)]
    /\ ack = [type |-> IF pc[p] = "waiting" THEN "sched_ack" ELSE "window_ack",
              late |-> s < clock]

ReadSchedule(p) ==
  /\ Open /\ pc[p] = "waiting" /\ toProc[p] # <<>>
  /\ \E ack \in [type : {"sched_ack"}, late : BOOLEAN] : Adopt(p, ack) /\ Tell(p, ack)
  /\ pc' = [pc EXCEPT ![p] = "running"]
  /\ UNCHANGED <<steadyWarmup, clock, runnerVars, now, final, nextRate, opened>>

(* The head of the loop: it ends after the drain.                           *)
LookAtClock(p) ==
  /\ Open /\ pc[p] = "running" /\ now[p] = None
  /\ clock < Ends(start[p])
  /\ now' = [now EXCEPT ![p] = clock]
  /\ UNCHANGED <<steadyWarmup, clock, runnerVars, toRunner, toProc, pc, start,
                 final, nextRate, missed, opened>>

Done(p) ==
  /\ Open /\ pc[p] = "running" /\ now[p] = None
  /\ clock >= Ends(start[p])
  /\ Tell(p, Msg("done"))
  /\ pc' = [pc EXCEPT ![p] = "done"]
  /\ UNCHANGED <<steadyWarmup, clock, runnerVars, toProc, now, start, final,
                 nextRate, missed, opened>>

(* The rest of an iteration goes by the clock as it was read at its head.   *)
EndIteration(p) ==
  /\ now' = [now EXCEPT ![p] = None]
  /\ opened' = IF start'[p] <= now[p] /\ now[p] < start'[p] + Duration
               THEN [opened EXCEPT ![p] = @ \cup {start'[p]}] ELSE opened

Iterating(p) == Open /\ pc[p] = "running" /\ now[p] # None

IsFinal(p) == final[p] \/ now[p] >= start[p]

(* Nothing moves the window once it has begun or was replaced.              *)
Measure(p) ==
  /\ Iterating(p) /\ IsFinal(p)
  /\ final' = [final EXCEPT ![p] = TRUE]
  /\ UNCHANGED <<steadyWarmup, clock, runnerVars, toRunner, toProc, pc, start,
                 nextRate, missed>>
  /\ EndIteration(p)

(* bk_steady_tick: a client reports its rates when the next report is due.  *)
NextReport(p) == IF nextRate[p] = 0 THEN now[p] + RateInterval ELSE nextRate[p]
ReportDue(p) == p # Server /\ now[p] >= NextReport(p)
AfterReport(p) ==
  NextReport(p) + RateInterval * ((now[p] - NextReport(p)) \div RateInterval + 1)
Report(p) == IF ReportDue(p) THEN <<Msg("rate")>> ELSE <<>>
KeepRates(p) ==
  nextRate' = IF p = Server THEN nextRate
              ELSE [nextRate EXCEPT ![p] = IF ReportDue(p) THEN AfterReport(p)
                                           ELSE NextReport(p)]

(* bk_control_poll_window finds no line.                                    *)
CountDown(p) ==
  /\ Iterating(p) /\ ~IsFinal(p) /\ toProc[p] = <<>>
  /\ KeepRates(p)
  /\ toRunner' = [toRunner EXCEPT ![p] = @ \o Report(p)]
  /\ UNCHANGED <<steadyWarmup, clock, runnerVars, toProc, pc, start, final, missed>>
  /\ EndIteration(p)

(* bk_control_poll_window replaces the provisional window.                  *)
TakeWindow(p) ==
  /\ Iterating(p) /\ ~IsFinal(p) /\ toProc[p] # <<>>
  /\ KeepRates(p)
  /\ \E ack \in [type : {"window_ack"}, late : BOOLEAN] :
       /\ Adopt(p, ack)
       /\ toRunner' = [toRunner EXCEPT ![p] = @ \o Report(p) \o <<ack>>]
  /\ final' = [final EXCEPT ![p] = TRUE]
  /\ UNCHANGED <<steadyWarmup, clock, runnerVars, pc>>
  /\ EndIteration(p)

(* A process exits early: a failed connection, an incomplete roster, a      *)
(* crash.  What it wrote before is still on the way.                        *)
Exit(p) ==
  /\ Open /\ pc[p] \notin {"done", "failed"}
  /\ pc' = [pc EXCEPT ![p] = "failed"]
  /\ UNCHANGED <<steadyWarmup, clock, runnerVars, toRunner, toProc, now, start,
                 final, nextRate, missed, opened>>

-----------------------------------------------------------------------------
(* The runner.                                                              *)

(* Fault: done counts only in its own stage.                                *)
AcceptsInOrder(p, type) ==
  /\ type \notin told[p]
  /\ type = "done" => stage = "done"

(* runState.apply: what a process may say, given what it said before.       *)
Accepts(p, type) ==
  /\ type = "rate" => p # Server
  /\ type \notin told[p]
  /\ type # "hello" => "hello" \in told[p]
  /\ type = "sched_ack" => "ready" \in told[p] /\ schedule # None
  /\ type = "done" => "sched_ack" \in told[p]

(* Fault: the kept reports are not limited.                                 *)
CountedAll(n) == n + 1
Counted(n) == IF n < ReportsNeeded THEN n + 1 ELSE n

AllTold(type) == \A p \in Procs : type \in told[p]

(* The stage Run leaves in an iteration over advanceStageIfReady.           *)
Leaves(s) == Open /\ settling /\ sending = None /\ stage = s

(* publishMeasurementWindow: only once.                                     *)
Publish(s) == published' = IF published = None THEN s ELSE published

(* What an iteration over advanceStageIfReady leaves alone.                 *)
KeepsRun ==
  UNCHANGED <<steadyWarmup, clock, settling, told, reports, late, toRunner, procVars>>
KeepsSending == UNCHANGED <<sending, unsent, toProc>>

(* Run returns and closes the connections.                                  *)
Returns(r) ==
  /\ result' = r
  /\ toRunner' = [p \in Procs |-> <<>>] /\ toProc' = [p \in Procs |-> <<>>]
  /\ UNCHANGED <<steadyWarmup, clock, stage, settling, told, reports, late, schedule,
                 sending, unsent, cutoff, published, procVars>>

Receive(p) ==
  /\ Open /\ ~settling /\ toRunner[p] # <<>>
  /\ LET m == Head(toRunner[p]) IN
       IF Accepts(p, m.type)
       THEN /\ settling' = TRUE
            /\ late' = (late \/ m.late)
            /\ IF m.type = "rate"
               THEN reports' = [reports EXCEPT ![p] = Counted(@)] /\ told' = told
               ELSE told' = [told EXCEPT ![p] = @ \cup {m.type}] /\ reports' = reports
            /\ toRunner' = [toRunner EXCEPT ![p] = Tail(@)]
            /\ UNCHANGED <<steadyWarmup, clock, stage, schedule, cutoff, published,
                           result, procVars>> /\ KeepsSending
       ELSE Returns("rejected")

AllHere ==
  /\ Leaves("hello") /\ AllTold("hello")
  /\ stage' = "ready"
  /\ UNCHANGED <<schedule, cutoff, published, result>> /\ KeepsRun /\ KeepsSending

(* Run reads the clock and sends what follows from it.                      *)
StartSending(s) ==
  /\ sending' = s /\ unsent' = Procs
  /\ UNCHANGED <<stage, cutoff, published, result, toProc>> /\ KeepsRun

IssueSchedule ==
  /\ Leaves("ready") /\ AllTold("ready")
  /\ schedule' = clock + Warmup
  /\ StartSending(clock + Warmup)

(* sendSchedule and sendWindow, to one participant after the other, time    *)
(* passing: to a process that has exited the write fails, and Run with it.  *)
SendTo(p) ==
  /\ Open /\ p \in unsent /\ ~Gone(p)
  /\ unsent' = unsent \ {p}
  /\ toProc' = [toProc EXCEPT ![p] =
                  Append(@, [type |-> IF stage = "ready" THEN "schedule" ELSE "window",
                             start |-> sending])]
  /\ UNCHANGED <<stage, schedule, sending, cutoff, published, result>> /\ KeepsRun

SendFails(p) == Open /\ p \in unsent /\ Gone(p) /\ Returns("failed")

AllSent ==
  /\ Open /\ sending # None /\ unsent = {}
  /\ sending' = None /\ schedule' = sending
  /\ IF stage = "ready"
     THEN /\ stage' = "sched_ack"
          /\ IF steadyWarmup THEN published' = published ELSE Publish(sending)
     ELSE stage' = "window_ack" /\ Publish(sending)
  /\ UNCHANGED <<unsent, cutoff, result, toProc>> /\ KeepsRun

AllAcked ==
  /\ Leaves("sched_ack") /\ AllTold("sched_ack")
  /\ IF steadyWarmup
     THEN /\ stage' = "window"
          /\ cutoff' = IF schedule - Guard < clock THEN clock ELSE schedule - Guard
     ELSE stage' = "done" /\ cutoff' = cutoff
  /\ UNCHANGED <<schedule, published, result>> /\ KeepsRun /\ KeepsSending

(* steadyDetected asks for enough reports of every client; whether they are *)
(* steady is left open.                                                     *)
CanBeSteady == \A p \in Clients : reports[p] = ReportsNeeded

KeepProvisional ==
  /\ Leaves("window") /\ CanBeSteady
  /\ clock >= MinWarmup /\ clock + Guard >= schedule
  /\ Publish(schedule)
  /\ stage' = "done"
  /\ UNCHANGED <<schedule, cutoff, result>> /\ KeepsRun /\ KeepsSending

MoveWindow ==
  /\ Leaves("window") /\ CanBeSteady
  /\ clock >= MinWarmup /\ clock + Guard < schedule
  /\ schedule' = schedule
  /\ StartSending(clock + Guard)

(* Fault: the acknowledgements of the window are not awaited.               *)
WindowIsAckedByOne == \E p \in Procs : "window_ack" \in told[p]
WindowIsAcked == AllTold("window_ack")

AllAckedWindow ==
  /\ Leaves("window_ack") /\ WindowIsAcked
  /\ stage' = "done"
  /\ UNCHANGED <<schedule, cutoff, published, result>> /\ KeepsRun /\ KeepsSending

AllDone == Leaves("done") /\ AllTold("done") /\ Returns("ok")

(* The loop ends when the stage must wait for more.                         *)
Settle ==
  /\ Open /\ settling /\ sending = None
  /\ CASE stage = "window" -> TRUE
       [] stage = "window_ack" -> ~WindowIsAcked
       [] OTHER -> ~AllTold(stage)
  /\ settling' = FALSE
  /\ UNCHANGED <<steadyWarmup, clock, stage, told, reports, late, schedule, sending,
                 unsent, cutoff, published, result, toRunner, toProc, procVars>>

(* The timer of StageWindow: no steady state before the last moment.  Run   *)
(* goes back to waiting without its loop over advanceStageIfReady.          *)
CutOff ==
  /\ Open /\ ~settling /\ stage = "window" /\ clock >= cutoff
  /\ Publish(schedule)
  /\ stage' = "done"
  /\ UNCHANGED <<schedule, cutoff, result>> /\ KeepsRun /\ KeepsSending

(* Fault: there is no timer while processes connect.                        *)
HasTimeoutOnceReady(s) == s \notin {"window", "ready"}
HasTimeout(s) == s # "window"

(* The timer of any other stage.                                            *)
Timeout == ~settling /\ HasTimeout(stage) /\ Open /\ Returns("failed")

(* runner.go sees a process exit with an error and cancels the run.         *)
NoticeExit(p) == Gone(p) /\ Open /\ Returns("failed")

-----------------------------------------------------------------------------
Tick ==
  /\ Open /\ schedule # None /\ clock < MaxClock
  /\ clock' = clock + 1
  /\ UNCHANGED <<steadyWarmup, runnerVars, toRunner, toProc, procVars>>

Advance ==
  \/ AllHere \/ IssueSchedule \/ AllAcked \/ KeepProvisional \/ MoveWindow
  \/ AllAckedWindow \/ AllDone \/ Settle \/ AllSent \/ \E p \in Procs : SendTo(p) \/ SendFails(p)

Process(p) ==
  \/ Hello(p) \/ Ready(p) \/ ReadSchedule(p) \/ LookAtClock(p) \/ Measure(p)
  \/ CountDown(p) \/ TakeWindow(p) \/ Done(p) \/ Exit(p)

RunOver == ~Open /\ UNCHANGED vars

Next ==
  \/ \E p \in Procs : Process(p) \/ Receive(p) \/ NoticeExit(p)
  \/ Advance \/ CutOff \/ Timeout \/ Tick \/ RunOver

Spec == Init /\ [][Next]_vars

(* Time passes, and Run goes on with its loop and serves its timers; of the *)
(* processes nothing is assumed.                                            *)
FairSpec ==
  Spec /\ WF_vars(Tick) /\ WF_vars(Advance) /\ WF_vars(CutOff) /\ WF_vars(Timeout)
-----------------------------------------------------------------------------
(* Properties.                                                              *)

Stages == {"hello", "ready", "sched_ack", "window", "window_ack", "done"}
Times == 0..(MaxClock + Warmup + Guard + RateInterval)
ToRunner == [type : {"hello", "ready", "sched_ack", "rate", "window_ack", "done"},
             late : BOOLEAN]

(* Every variable keeps its shape; the history of reports stays limited     *)
(* however long a client reports.                                           *)
BarrierTypeOK ==
  /\ clock \in 0..MaxClock /\ stage \in Stages
  /\ {steadyWarmup, settling, late} \subseteq BOOLEAN
  /\ told \in [Procs -> SUBSET Stages]
  /\ reports \in [Procs -> 0..ReportsNeeded]
  /\ unsent \subseteq Procs /\ {schedule, sending, cutoff, published} \subseteq Times \cup {None}
  /\ result \in {"none", "ok", "rejected", "failed"}
  /\ \A p \in Procs : toRunner[p] \in Seq(ToRunner)
  /\ \A p \in Procs : toProc[p] \in Seq([type : {"schedule", "window"}, start : Times])
  /\ pc \in [Procs -> {"begin", "connecting", "waiting", "running", "done", "failed"}]
  /\ final \in [Procs -> BOOLEAN] /\ nextRate \in [Procs -> Times]
  /\ missed \in [Procs -> BOOLEAN] /\ {now, start} \subseteq [Procs -> Times \cup {None}]
  /\ opened \in [Procs -> SUBSET Times]

(* A valid run has one measurement window: the one the runner published to  *)
(* the network emulation and reports is the one every process went by, none *)
(* measured in another, and each knew it before it began, although the      *)
(* processes decide by clocks they read at different moments.               *)
OneWindow ==
  result = "ok" /\ ~late =>
    /\ published = schedule
    /\ \A p \in Procs : /\ start[p] = published
                         /\ ~missed[p]
                         /\ opened[p] \subseteq {published}

(* No process ever measures in two windows, valid run or not: the window    *)
(* message does not take effect once the provisional window has begun.      *)
NeverTwoWindows == \A p \in Procs : Cardinality(opened[p]) <= 1

(* Both at once, by which the moved window is safe: bk_control_poll_window  *)
(* and advanceStageIfReady decide by different clocks and still agree.      *)
WindowsAgree == OneWindow /\ NeverTwoWindows

(* The runner accepts whatever the processes of benchkit say, however their *)
(* messages overtake each other: a process that is done before the others   *)
(* have acknowledged, or that missed the window, is not an error of its own. *)
NothingRejected == result # "rejected"

(* Every run ends, wherever a process exits or hangs.                       *)
RunEnds == <>(result # "none")
=============================================================================
