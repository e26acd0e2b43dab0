---------------------------- MODULE SutExchange ----------------------------
(***************************************************************************)
(* The load of a run and its accounts (benchkit: sut.c, plan.c and the      *)
(* counts of metrics.c).  Every client sends inputs on a plan; the server   *)
(* keeps a roster of who has registered, freezes it, and from then on sends *)
(* every client on the roster its state on a plan of its own, with the      *)
(* number of the newest input it has applied.  Both ends account slots,     *)
(* submissions and deliveries of the measurement window, which the runner   *)
(* compares across processes.                                               *)
(*                                                                          *)
(* A client is a process with one connection, whose number at the server is *)
(* its own for the whole run, as in the adapters.  The transport loses,     *)
(* repeats and reorders what it is given, refuses what it likes, and        *)
(* connects and disconnects at either end at any time.  Only loss-tolerant  *)
(* traffic is kept: must-deliver slots are accounted in the same way and do *)
(* not count as inputs.  The clock is the one of ControlBarrier and starts  *)
(* when the schedule is issued; that every process has adopted a window     *)
(* before it begins is what OneWindow says there of a valid run.  A process *)
(* may be late by any time, and an iteration of its loop, up to the call of *)
(* service, takes no time.                                                  *)
(***************************************************************************)
EXTENDS Integers, FiniteSets, FiniteSetsExt, ScenarioRanges

CONSTANTS
  Server,         \* the process of role server
  Clients,        \* the client processes, which are also the origins
  Start, Early,   \* start of the provisional window, and of the one it may be moved to
  Duration,       \* from start to stop
  Drain,          \* from stop to the end
  InputInterval,  \* interval_ns of the stream of a client
  StateInterval,  \* and of the stream of the server
  MaxLosses       \* bound: connections lost, counted at each end

Procs == Clients \cup {Server}

ASSUME ExchangeAssumption ==
  /\ IsFiniteSet(Clients) /\ Clients # {} /\ Server \notin Clients
  /\ Start \in Nat /\ Early \in Nat /\ Early < Start
  /\ {Duration, InputInterval, StateInterval} \subseteq Nat \ {0}
  /\ {Drain, MaxLosses} \subseteq Nat

VARIABLES
  clock,
  moves,       \* the runner moves the window of this run to Early
  stage,       \* where each process is
  window,      \* start of its schedule
  begin,       \* when its plan was made
  next,        \* next_seq of its stream; a sequence number also names the slot
  counts,      \* its metrics: measured slots, submitted, delivered_unique
  seen,        \* the deliveries it has seen, by origin and number
  invalid,     \* invalid_payload is not zero
  up,          \* the client's end of the connection is connected
  input,       \* input_seq of a client
  inputSent,   \* input_sent_measured
  stateSeq,    \* state_seq_measured
  applied,     \* applied_measured
  conn,        \* the server's conns[c] and roster[c]
  registered,
  frozen,
  stateTicks,
  losses,      \* connections lost so far, for MaxLosses
  sent         \* what the transport has taken; it delivers each at any time, or never

planVars == <<window, begin, next>>
clientVars == <<up, input, inputSent, stateSeq, applied>>
serverVars == <<conn, registered, frozen, stateTicks>>
metricsVars == <<counts, seen>>
vars == <<clock, moves, stage, planVars, metricsVars, invalid, clientVars, serverVars,
          losses, sent>>

Stop(w) == w + Duration
DrainUntil(w) == Stop(w) + Drain
InWindow(w, t) == w <= t /\ t < Stop(w)
MaxClock == DrainUntil(Start)

Init ==
  /\ clock = 0
  /\ moves \in BOOLEAN
  /\ stage = [p \in Procs |-> IF p = Server THEN "waiting" ELSE "connecting"]
  /\ window = [p \in Procs |-> Start]
  /\ begin = [p \in Procs |-> 0]
  /\ next = [p \in Procs |-> 1]
  /\ counts = [p \in Procs |-> [slots |-> 0, submitted |-> 0, delivered |-> 0]]
  /\ seen = [p \in Procs |-> {}]
  /\ invalid = [p \in Procs |-> FALSE]
  /\ up = [c \in Clients |-> FALSE]
  /\ input = [c \in Clients |-> 0]
  /\ inputSent = [c \in Clients |-> 0]
  /\ stateSeq = [c \in Clients |-> 0]
  /\ applied = [c \in Clients |-> 0]
  /\ conn = [c \in Clients |-> [up |-> FALSE, origin |-> FALSE, roster |-> FALSE, input |-> 0]]
  /\ registered = 0
  /\ frozen = FALSE
  /\ stateTicks = 0
  /\ losses = 0
  /\ sent = {}

-----------------------------------------------------------------------------
(* The plan.  Slot n of a process is due n - 1 intervals after its begin.    *)

Interval(p) == IF p = Server THEN StateInterval ELSE InputInterval
Sched(p, b, n) == b + (n - 1) * Interval(p)
Measured(p, b, slots) == {n \in slots : InWindow(window[p], Sched(p, b, n))}

(* Fault: slots go on being sent after the window.                           *)
CutoffIsNow(p) == clock

(* Slots are sent up to the end of the window and no further, however late.  *)
Cutoff(p) == IF clock < Stop(window[p]) THEN clock ELSE Stop(window[p]) - 1

(* The slots bk_plan_next hands out one after the other up to limit.         *)
Due(p, b, limit) == {n \in next[p]..(next[p] + limit) : Sched(p, b, n) <= limit}

(* What bk_metrics_on_slot adds for measured slots, of which some were       *)
(* submitted.                                                                *)
Account(p, slots, submitted) ==
  [counts[p] EXCEPT !.slots = @ + slots, !.submitted = @ + submitted]

(* What bk_metrics_on_recv counts of a measured message.                     *)
Delivered(p, key) ==
  /\ seen' = [seen EXCEPT ![p] = @ \cup {key}]
  /\ counts' = [counts EXCEPT ![p].delivered = IF key \in seen[p] THEN @ ELSE @ + 1]

-----------------------------------------------------------------------------
(* The connections, as the transport reports them at either end.             *)

(* A process that fails ends the run: the runner stops the others.           *)
Failed == [p \in Procs |-> "failed"]

Registration(c) == [kind |-> "registration", peer |-> c]

(* on_connect in a client registers over the connection.  A transport that   *)
(* refuses the registration ends the process.                                *)
ClientConnected(c) ==
  /\ stage[c] \in {"connecting", "waiting", "running"} /\ ~up[c]
  /\ up' = [up EXCEPT ![c] = TRUE]
  /\ \/ sent' = sent \cup {Registration(c)} /\ UNCHANGED stage
     \/ stage' = Failed /\ UNCHANGED sent
  /\ UNCHANGED <<clock, moves, planVars, metricsVars, invalid, input, inputSent,
                 stateSeq, applied, serverVars, losses>>

(* A connection that is lost is gone on with; one that never came ends the process. *)
ClientDisconnected(c) ==
  /\ stage[c] \in {"connecting", "waiting", "running"}
  /\ losses < MaxLosses /\ losses' = losses + 1
  /\ up' = [up EXCEPT ![c] = FALSE]
  /\ stage' = IF up[c] THEN stage ELSE Failed
  /\ UNCHANGED <<clock, moves, planVars, metricsVars, invalid, input, inputSent,
                 stateSeq, applied, serverVars, sent>>

ServerConnected(c) ==
  /\ stage[Server] \in {"waiting", "running"} /\ ~conn[c].up
  /\ Registration(c) \in sent
  /\ conn' = [conn EXCEPT ![c].up = TRUE]
  /\ UNCHANGED <<clock, moves, stage, planVars, metricsVars, invalid, clientVars,
                 registered, frozen, stateTicks, losses, sent>>

(* Fault: one that had not registered is taken off the count too.            *)
LeavesUnasked(c) == ~frozen

Leaves(c) == conn[c].origin /\ ~frozen

(* Before the roster is frozen a client that is lost is not registered any   *)
(* more; afterwards it only has no connection.                               *)
ServerDisconnected(c) ==
  /\ stage[Server] \in {"waiting", "running"} /\ conn[c].up
  /\ losses < MaxLosses /\ losses' = losses + 1
  /\ conn' = [conn EXCEPT ![c].up = FALSE, ![c].roster = FALSE,
                          ![c].origin = @ /\ ~Leaves(c)]
  /\ registered' = IF Leaves(c) THEN registered - 1 ELSE registered
  /\ UNCHANGED <<clock, moves, stage, planVars, metricsVars, invalid, clientVars,
                 frozen, stateTicks, sent>>

-----------------------------------------------------------------------------
(* Before the measurement.                                                   *)

(* The client has waited for its connection and says ready.                  *)
Ready(c) ==
  /\ stage[c] = "connecting" /\ up[c]
  /\ stage' = [stage EXCEPT ![c] = "waiting"]
  /\ UNCHANGED <<clock, moves, planVars, metricsVars, invalid, clientVars, serverVars,
                 losses, sent>>

(* The schedule is issued once all are ready.  A client plans from now on,   *)
(* the server once its roster is complete.                                   *)
ReadSchedule(p) ==
  /\ stage[p] = "waiting" /\ \A c \in Clients : stage[c] # "connecting"
  /\ stage' = [stage EXCEPT ![p] = "running"]
  /\ begin' = [begin EXCEPT ![p] = clock]
  /\ UNCHANGED <<clock, moves, window, next, metricsVars, invalid, clientVars,
                 serverVars, losses, sent>>

(* The window message: schedule and plan go by the new window.               *)
TakeWindow(p) ==
  /\ moves /\ stage[p] = "running" /\ window[p] = Start /\ clock < Early
  /\ window' = [window EXCEPT ![p] = Early]
  /\ UNCHANGED <<clock, moves, stage, begin, next, metricsVars, invalid, clientVars,
                 serverVars, losses, sent>>

(* Time passes; every process has read the schedule and the moved window     *)
(* before they begin, or the run is invalid.                                 *)
Tick ==
  /\ clock < MaxClock
  /\ \A p \in Procs :
       /\ stage[p] \notin {"connecting", "failed"}
       /\ clock + 1 >= Start => stage[p] # "waiting"
       /\ moves /\ clock + 1 >= Early => window[p] = Early
  /\ clock' = clock + 1
  /\ UNCHANGED <<moves, stage, planVars, metricsVars, invalid, clientVars, serverVars,
                 losses, sent>>

-----------------------------------------------------------------------------
(* A client.                                                                 *)

Input(c, n, m) == [kind |-> "input", peer |-> c, seq |-> n, measured |-> m]

(* An iteration of the loop sends the slots that are due, of which the       *)
(* transport takes some; none are looked at while there is no connection.    *)
ClientSends(c) ==
  /\ stage[c] = "running" /\ clock < DrainUntil(window[c]) /\ up[c]
  /\ LET due == Due(c, begin[c], Cutoff(c))
         measured == Measured(c, begin[c], due)
     IN /\ due # {}
        /\ next' = [next EXCEPT ![c] = @ + Cardinality(due)]
        /\ \E taken \in SUBSET due :
             /\ sent' = sent \cup {Input(c, n, n \in measured) : n \in taken}
             /\ counts' = [counts EXCEPT ![c] =
                  Account(c, Cardinality(measured), Cardinality(measured \cap taken))]
             /\ input' = [input EXCEPT ![c] = Max({@} \cup taken)]
             /\ inputSent' = [inputSent EXCEPT ![c] = Max({@} \cup (measured \cap taken))]
  /\ UNCHANGED <<clock, moves, stage, window, begin, seen, invalid, up, stateSeq,
                 applied, serverVars, losses>>

TellsOfUnsent(c, m) == m.applied > input[c]

(* A state is taken if it tells of no input that was not sent.               *)
ClientReceives(m) ==
  LET c == m.peer IN
    /\ m.kind = "state"
    /\ stage[c] \in {"waiting", "running"} /\ up[c]
    /\ IF TellsOfUnsent(c, m)
       THEN invalid' = [invalid EXCEPT ![c] = TRUE]
            /\ UNCHANGED <<metricsVars, stateSeq, applied>>
       ELSE /\ IF m.measured
               THEN /\ stateSeq' = [stateSeq EXCEPT ![c] = Max({@, m.seq})]
                    /\ applied' = [applied EXCEPT ![c] = Max({@, m.applied})]
                    /\ Delivered(c, <<Server, m.seq>>)
               ELSE UNCHANGED <<metricsVars, stateSeq, applied>>
            /\ UNCHANGED invalid
    /\ UNCHANGED <<clock, moves, stage, planVars, up, input, inputSent, serverVars,
                   losses, sent>>

(* Fault: what could not be sent is forgotten.                               *)
UnsentForgotten(p, b) == {}

Unsent(p, b) == Due(p, b, Stop(window[p]) - 1)

(* The end of the loop: what was never looked at is accounted as not sent,   *)
(* and the metrics are written.                                              *)
ClientDone(c) ==
  /\ stage[c] = "running" /\ clock >= DrainUntil(window[c])
  /\ stage' = [stage EXCEPT ![c] = "done"]
  /\ LET unsent == Unsent(c, begin[c]) IN
       /\ next' = [next EXCEPT ![c] = @ + Cardinality(unsent)]
       /\ counts' = [counts EXCEPT ![c] =
            Account(c, Cardinality(Measured(c, begin[c], unsent)), 0)]
  /\ UNCHANGED <<clock, moves, window, begin, seen, invalid, clientVars, serverVars,
                 losses, sent>>

-----------------------------------------------------------------------------
(* The server.                                                               *)

(* register_origin: whether conn c can be, or is, the one of its origin, and *)
(* what that makes of the roster.                                            *)
Registrable(c) == conn[c].origin \/ (~frozen /\ ~conn[c].roster)

Register(c) ==
  [conn EXCEPT ![c].origin = TRUE, ![c].roster = @ \/ ~conn[c].origin]

(* Fault: every registration and input counts.                               *)
NowRegisteredAgain(c) == registered + 1

NowRegistered(c) == IF conn[c].origin THEN registered ELSE registered + 1

(* A registration or an input; both register the sender.                     *)
ServerReceives(m) ==
  LET c == m.peer IN
    /\ m.kind \in {"registration", "input"}
    /\ stage[Server] \in {"waiting", "running"} /\ conn[c].up
    /\ IF ~Registrable(c)
       THEN invalid' = [invalid EXCEPT ![Server] = TRUE]
            /\ UNCHANGED <<conn, registered, metricsVars>>
       ELSE /\ registered' = NowRegistered(c)
            /\ IF m.kind = "input"
               THEN /\ conn' = [Register(c) EXCEPT ![c].input = Max({@, m.seq})]
                    /\ IF m.measured THEN Delivered(Server, <<c, m.seq>>)
                                     ELSE UNCHANGED metricsVars
               ELSE conn' = Register(c) /\ UNCHANGED metricsVars
            /\ UNCHANGED invalid
    /\ UNCHANGED <<clock, moves, stage, planVars, clientVars, frozen, stateTicks,
                   losses, sent>>

ServerLoops == stage[Server] = "running" /\ clock < DrainUntil(window[Server])

(* Someone is missing when the window begins: the server gives up.           *)
GiveUp ==
  /\ ServerLoops /\ ~frozen
  /\ registered # Cardinality(Clients) /\ clock >= window[Server]
  /\ stage' = Failed
  /\ UNCHANGED <<clock, moves, planVars, metricsVars, invalid, clientVars, serverVars,
                 losses, sent>>

State(c, n, m) ==
  [kind |-> "state", peer |-> c, seq |-> n, measured |-> m, applied |-> conn[c].input]

(* Each slot that is due goes to everyone on the roster; those who are not   *)
(* there, or whose message the transport refuses, have theirs unsent.        *)
SendStates(b) ==
  LET due == Due(Server, b, Cutoff(Server))
      measured == Measured(Server, b, due)
      reachable == {c \in Clients : conn[c].roster /\ conn[c].up}
  IN /\ next' = [next EXCEPT ![Server] = @ + Cardinality(due)]
     /\ stateTicks' = stateTicks + Cardinality(measured)
     /\ \E taken \in SUBSET (reachable \X due) :
          /\ sent' = sent \cup {State(t[1], t[2], t[2] \in measured) : t \in taken}
          /\ counts' = [counts EXCEPT ![Server] =
               Account(Server, Cardinality(Clients \X measured),
                               Cardinality(taken \cap (Clients \X measured)))]

(* With everyone registered the roster is frozen; the plan begins, and its   *)
(* first slot is due.                                                        *)
Freeze ==
  /\ ServerLoops /\ ~frozen
  /\ registered = Cardinality(Clients)
  /\ frozen' = TRUE
  /\ begin' = [begin EXCEPT ![Server] = clock]
  /\ SendStates(clock)
  /\ UNCHANGED <<clock, moves, stage, window, seen, invalid, clientVars, conn,
                 registered, losses>>

ServerSends ==
  /\ ServerLoops /\ frozen
  /\ Due(Server, begin[Server], Cutoff(Server)) # {}
  /\ SendStates(begin[Server])
  /\ UNCHANGED <<clock, moves, stage, window, begin, seen, invalid, clientVars, conn,
                 registered, frozen, losses>>

ServerDone ==
  /\ stage[Server] = "running" /\ clock >= DrainUntil(window[Server])
  /\ stage' = [stage EXCEPT ![Server] = "done"]
  /\ LET unsent == IF frozen THEN Unsent(Server, begin[Server]) ELSE {}
         measured == Measured(Server, begin[Server], unsent)
     IN /\ next' = [next EXCEPT ![Server] = @ + Cardinality(unsent)]
        /\ stateTicks' = stateTicks + Cardinality(measured)
        /\ counts' = [counts EXCEPT ![Server] =
             Account(Server, Cardinality(Clients \X measured), 0)]
  /\ UNCHANGED <<clock, moves, window, begin, seen, invalid, clientVars, conn,
                 registered, frozen, losses, sent>>

-----------------------------------------------------------------------------
Network ==
  \/ \E c \in Clients : ClientConnected(c) \/ ClientDisconnected(c)
  \/ \E c \in Clients : ServerConnected(c) \/ ServerDisconnected(c)
  \/ \E m \in sent : ClientReceives(m) \/ ServerReceives(m)

Loops ==
  \/ \E c \in Clients : Ready(c) \/ ClientSends(c) \/ ClientDone(c)
  \/ \E p \in Procs : ReadSchedule(p) \/ TakeWindow(p)
  \/ Freeze \/ ServerSends \/ GiveUp \/ ServerDone

Next == Network \/ Loops \/ Tick

Spec == Init /\ [][Next]_vars

-----------------------------------------------------------------------------
(* The slots a process plans in its window, and those of them it answers for. *)
Planned(p) == Measured(p, begin[p], 1..(MaxClock + 1))
Targets(p) == IF p = Server THEN Clients ELSE {p}

(* Types and ranges: in particular registered, which is unsigned, never goes *)
(* below zero or beyond the roster, and no plan runs past the window.        *)
SutTypeOK ==
  /\ clock \in 0..MaxClock /\ moves \in BOOLEAN
  /\ stage \in [Procs -> {"connecting", "waiting", "running", "done", "failed"}]
  /\ window \in [Procs -> {Start, Early}]
  /\ begin \in [Procs -> 0..MaxClock] /\ next \in [Procs -> 1..(Stop(Start) + 1)]
  /\ counts \in [Procs -> [slots : Nat, submitted : Nat, delivered : Nat]]
  /\ seen \in [Procs -> SUBSET (Procs \X (1..Stop(Start)))]
  /\ invalid \in [Procs -> BOOLEAN]
  /\ up \in [Clients -> BOOLEAN]
  /\ {input, inputSent, stateSeq, applied} \subseteq [Clients -> 0..Stop(Start)]
  /\ conn \in [Clients -> [up : BOOLEAN, origin : BOOLEAN, roster : BOOLEAN,
                           input : 0..Stop(Start)]]
  /\ registered \in 0..Cardinality(Clients) /\ frozen \in BOOLEAN /\ stateTicks \in Nat

(* The accounts of a process that finishes hold every slot its plan puts into *)
(* the window that counted in the end, once for each target, sent or not:     *)
(* whatever disconnections, refusals, late iterations and moves of the window *)
(* there were (client_mark_unsent, server_send_slot, bk_plan_set_window).     *)
SlotsExact ==
  \A p \in Procs : stage[p] = "done" /\ (p = Server => frozen) =>
    /\ counts[p].slots = Cardinality(Targets(p) \X Planned(p))
    /\ p = Server => stateTicks = Cardinality(Planned(p))

(* Across processes, nothing is delivered that was not submitted, and nothing *)
(* twice: what the runner's delivery ratios rest on (bk_metrics_on_recv       *)
(* against bk_metrics_on_slot).                                               *)
DeliveredWasSubmitted ==
  LET Total(field) == SumFunction([c \in Clients |-> counts[c][field]]) IN
    /\ counts[Server].delivered <= Total("submitted")
    /\ Total("delivered") <= counts[Server].submitted

(* A message one end built is never refused as invalid by the other, although *)
(* the receiver judges it by its own state at a later time: a state by the    *)
(* inputs sent so far, a registration by the roster (client_receive,          *)
(* server_receive).                                                           *)
NothingInvalid == \A p \in Procs : ~invalid[p]

(* What a run of benchkit reports is true: the slots, the deliveries of each  *)
(* end against the submissions of the other, and no message taken for invalid *)
(* that was only late (metrics.c and sut.c keep these counts).                *)
AccountsExact == SlotsExact /\ DeliveredWasSubmitted /\ NothingInvalid

(* The count the server waits for is the number of connections that have an   *)
(* origin, whoever comes, goes and comes back; when the roster is frozen they *)
(* are all there; and the roster names only connections that are up           *)
(* (register_origin, bk_sut_on_disconnect).                                   *)
RosterExact ==
  /\ registered = Cardinality({c \in Clients : conn[c].origin})
  /\ frozen => \A c \in Clients : conn[c].origin
  /\ \A c \in Clients : conn[c].roster => conn[c].origin /\ conn[c].up

(* What the runner makes a run fail for, in the numbers each process reports  *)
(* when it is done                                                            *)
ServerFailures ==
  {f \in {"roster", "ticks", "corruption"} :
     CASE f = "roster" -> registered # Cardinality(Clients)
       [] f = "ticks" -> stateTicks \notin SlotRange(StateInterval, Duration, 1)
       [] f = "corruption" -> invalid[Server]}

(* Those of a client, whose smallest and largest numbers are those of its one *)
(* connection.  The last two are judged only where the network is set up to   *)
(* lose nothing (losslessScenario), the last across the client processes.     *)
ClientFailures(c) ==
  {f \in {"no_input", "no_state", "no_applied_input", "exceeds", "corruption", "behind", "tick"} :
     CASE f = "no_input" -> inputSent[c] = 0
       [] f = "no_state" -> stateSeq[c] = 0
       [] f = "no_applied_input" -> applied[c] = 0
       [] f = "exceeds" -> applied[c] > inputSent[c]
       [] f = "corruption" -> invalid[c]
       [] f = "behind" -> applied[c] + 1 < inputSent[c]
       [] f = "tick" -> \E d \in Clients : stateSeq[d] # stateSeq[c]}

(* The measured states a client has got, and the newest slot of the server in *)
(* the window so far.                                                         *)
Got(c) == {m \in sent : /\ m.kind = "state" /\ m.peer = c /\ m.measured
                         /\ <<Server, m.seq>> \in seen[c]}
NewestTick ==
  LET ticks == Measured(Server, begin[Server], 1..(next[Server] - 1))
  IN {n \in ticks : \A k \in ticks : k <= n}

(* What a client may be failed for: that no state of the window reached it;   *)
(* that none of those that did told of an input, or, where nothing is to be   *)
(* lost, of the last input but one; and there, that the server's newest tick  *)
(* did not reach everyone.                                                    *)
Deserved(c) ==
  {f \in {"no_state", "no_applied_input", "behind", "tick"} :
     CASE f = "no_state" -> Got(c) = {}
       [] f = "no_applied_input" -> \A m \in Got(c) : m.applied = 0
       [] f = "behind" -> \A m \in Got(c) : m.applied + 1 < inputSent[c]
       [] f = "tick" -> \E d \in Clients, n \in NewestTick : <<Server, n>> \notin seen[d]}

(* The gate of orchestrator/run/gate.go fails a run for its load and its      *)
(* network only.  A client that sent measured inputs at all is never told of  *)
(* a later one by a measured state, reports no corruption, and is behind, or  *)
(* on another final tick than other clients, only by states that did not      *)
(* reach them, although these numbers come from processes with windows,       *)
(* delays and connections of their own.  The server, when it froze the roster *)
(* by the start of the window, has it complete and made the ticks of the      *)
(* window, however late its loop was afterwards.                              *)
GateHolds ==
  /\ \A c \in Clients : inputSent[c] # 0 => ClientFailures(c) \subseteq Deserved(c)
  /\ (stage[Server] = "done" /\ frozen /\ begin[Server] <= window[Server]) => ServerFailures = {}
=============================================================================
