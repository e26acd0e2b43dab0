# Specifications of rudp-bench

TLA+ modules beside the rudp-bench repository: what its own protocol code does,
and what its orchestrator makes of the result, model-checked on small instances with TLC and, for the
core, proved with TLAPS for every instance. Line numbers refer to the repository's sources.

## 1. The system

rudp-bench measures reliable-UDP transports. A Go **runner** (`orchestrator/`) starts one
server process and some client processes, shapes the network between them and
synchronises them over a **control socket**; each process links **benchkit** (C or .NET),
which speaks the control protocol and keeps the metrics, and an **adapter**
(`servers/*`) for one transport. One of the transports, **coop_rudp** (`coop_rudp/rudp.c`,
2844 lines), is part of the repository; the others are libraries. What the benchmark
asks of a transport is in the README (C1 to C5) and `benchspec/README.md`: it never drops a
connection by itself, reliable messages all arrive, and it recovers after an outage.

| component | state it keeps | operations | hard behaviour | what makes it correct |
|---|---|---|---|---|
| receive path (`process_packet`, `deliver_frame`, `drain_ordered`, `rudp_recv`) | per channel `expected_ordered`, `latest_sequenced`; per endpoint the receive ring and the ordered holds | a packet arrives; a frame is delivered, held, ignored or refused; the application reads; abort | pools shared by connections, half-failed packets, wake-up of held data, 16-bit wrap | order without gap or repetition, acknowledged means kept, no stranded hold |
| acknowledgement tracker (`ack_insert`, `ack_covers_seq`) | newest number and 64 bits | record, send, read | reordering, shift by exactly the width, 32-bit wrap | a packet is covered exactly if it arrived |
| message id window (`reliable_seen_lookup`, `reliable_mark_seen`) | 1024 tagged words | look up, mark | a word serves many blocks | nothing taken twice, nothing new swallowed |
| reassembly (`process_data_frame`, `find_or_alloc_reasm`, `expire_reassembly`) | slots shared by connections | store, complete, keep, refuse, expire | deadline against retransmission, exhaustion, equal ids | a message is its own bytes, an acknowledged fragment is not lost |
| send path (`rudp_send`, `rudp_endpoint_flush`, `flush_send_batch`, `service_retransmits`, `release_acked_packets`) | rings per flow, batch, sent packets, `sent_seq_queue`, lost numbers per message | send, expire, join or open a packet, block, send a batch, retransmit, acknowledge | partial sends, late acknowledgements, slot reuse, the 64-packet window | each reliable message has one home until it is delivered; freed means arrived |
| connection table (`find_or_create_incoming_conn`, `abort_conn_internal`, `conn_map`) | hash table, active connections | create, look up, abort | restart of a peer, late packets | no stream takes over another's numbers |
| timing and pacing (`conn_rto_ns`, `refill_pace`, congestion) | srtt, tokens | sample, refill, back off | integer arithmetic at its limits | never stuck, never above the rate |
| control protocol (`orchestrator/control/server.go`, `benchkit/src/control.c`) | stage, participants, schedule, rates | hello, ready, sched_ack, rate, window, window_ack, done, timer | two clocks decide one window, timeouts, early end of a process | all participants measure one window |
| benchkit SUT and metrics (`sut.c`, `metrics.c`, `payload.c`, `plan.c`) | roster, phases, sequence accounting | register, tick, send, receive | registration against the start time | the accounts of both ends are true, a process on time is never refused |
| runner lifecycle (`orchestrator/run/runner.go`, `gate.go`, `netem_schedule.go`) | processes, waits to come, control result, reasons and blame | start, await, barrier, drain, join, judge, cancel | cancellation on every path, one-shot channels, one exit with many consequences | a VALID run is whole, nothing outlives Run, blame follows the cause |
| rig and lock (`acquisition_lock.go`, `orchestrator/netops/*`) | lock file, two namespaces and a pair under fixed names | lock, set up, check, tear down | crashes, half-done setups, leftovers of others | a measurement has a rig of its own; nobody removes another's |
| loss evidence (`netem_evidence.go`, `qdisc_evidence.go`, `losstrace/`) | counters, trace positions, two samples | sample, wait, sample, validate | slow samples, replaced qdiscs, the wrap of a trace | accepted evidence shows loss of the window |
| ramp (`ramp.go`) | snapshot files, stop marker | write, watch, publish, score | files half written, two endpoints and a watcher at their own times | the marker and the score name the same break |
| merge and gates (`metrics.go`, `scenario_metrics.go`, `scenario_judge.go`, `gate.go`) | metrics files, their sum | validate, merge, judge | every event counted twice, in different processes | what is merged was counted, blame and percentiles are true |

Interaction: the adapter's loop calls `rudp_endpoint_poll` (packets to `process_packet`),
`rudp_recv` until the receive ring is empty, `rudp_send`, `rudp_endpoint_flush`; one thread
does all of it. Two endpoints interact by packets only, each of which carries data frames and
the acknowledgement pair. Runner and processes interact over the control socket
only, the files they leave, and the signals the runner sends them; runners of one machine interact through the lock
file and the names of the namespaces.

## 2. Plan

The plan the modules were written by, most important behaviour first; all of it but the last point is done.

1. `RudpReceiver` with `SerialNumbers` and their proofs: the part every guarantee of coop_rudp ends in.
2. `AckTracker`, `RudpDedup` and proofs: the contracts between the two ends.
3. `RudpReassembly` and `RudpSender`, both with proofs: shared slots and deadlines; the books of messages and packets.
4. `ControlBarrier` and `SutExchange`, both with proofs: the measurement window, the load inside it and the accounts of its two ends.
5. `RunLifecycle` with proofs: one call of `Run`, from the start of the server to the outcome.
6. `RigOwner` (abstract) and `NetnsRig` with proofs: what surrounds a run on its machine.
7. `LossEvidence`, `OfferedLoad` with `ScenarioRanges`, `RampScore`, `MetricsMerge`: what a result rests on, with proofs.
8. Open: a `RudpLink` of sender and receiver that implements an abstract ordered channel, and the restart of a peer
   (`conn_map`); `RudpReceiver` already lets the network do whatever `RudpSender` could make it do.

## 3. Modules

### coop_rudp

**SerialNumbers.** `Wire` wraps a position into the number space, `SeqAfter` is `seq16_after`
and `seq32_after`.

**RudpReceiver.** One action per iteration of the code's loops: `Arrive` starts a packet, `IgnoreFrame`,
`DeliverOrdered`, `HoldFrame`, `DeliverUnordered`, `DeliverSequenced`, `DeliverUnreliable` and
`RefuseFrame` are the ways `deliver_frame` ends, `FinishPacket` is the tail of `process_packet`;
`DrainRelease`, `DrainNextChannel`, `DrainEnd` are `drain_ordered` and `drain_all_ordered`; `AppRecv` is
`rudp_recv`; `Abort` is `abort_conn_internal` with the creation that may follow. `packet` and `drain`
say which loop the thread is in, so nothing runs in between that the code does not allow.
The code sees only wrapped numbers; the positions in `idx` and the history variables
exist for the properties. The network is any network whose ordered frames are within `Ahead`
of the next one needed; that bound is what the sender's window and the hold slots guarantee and what
a 16-bit comparison needs. A borrowed payload is not told apart from a copied one.

**AckTracker**, **RudpDedup.** The two bit windows a connection keeps, each on its own:
the data structures with the operations of the code, in small number spaces that wrap (the tracker) or end before the
wrap (the window: a connection is taken to end before 2^32 messages).

**RudpReassembly.** Fragments of ordered messages of several connections, one fragment a packet;
the five ways `process_data_frame` ends are five actions. `parts` records for each stored fragment
which message it came from, so that mixed-up slots show. Fragment geometry (offset, length) is left out. A message that is complete before its turn goes
to a hold, or stays in its slot when no hold is free, so `PlacesSuffice` counts slots and holds together; `ReceivedUnlessExpired` says what the connections can rely on
where it holds.

**RudpSender.** One connection. `Send` with replacement; `StartFlush(n)` is a flush whose first n
outstanding packets are overdue, `StartFlushEarly` one with none; `ExpireHead`, `JoinPacket`, `NewUnreliable`,
`NewReliable`, `BlockReliable` are the iterations of the flush loop; `SendFullBatch(k)` and `EndFlush(k)` hand
the batch to a socket that takes the first k packets; `PeerRecords` is the other end; `ReceiveAck` is
`release_acked_packets` with `release_late_acked_messages`. The acknowledgements on the way are any pair
of a recorded packet and recorded packets before it, which includes every stale or reordered one.
Flows have neither rate limits nor priorities (the configuration of the adapter), so the pick order is retries
first, then round robin from the cursor. A fragment counts as a message. The abort after `max_retransmits` is not in it (0
in the adapter: never).

### Runner and processes

**ControlBarrier.** The runner's control server (`server.go`), every process's loop (`sut.c` with `control.c`) and the sockets between
them. On the runner's side `Receive` is one event through `runState.apply`; `AllHere`, `IssueSchedule`, `AllAcked`,
`KeepProvisional`, `MoveWindow`, `AllAckedWindow`, `AllDone` are the branches of `advanceStageIfReady`, `Settle` its return of the same
stage; `SendTo`, `SendFails` and `AllSent` are the loops that send a schedule or a window to one participant after the other, with time
passing in between; `CutOff` is the timer of `StageWindow`, `Timeout` every other one, `NoticeExit` the cancellation by `runner.go`. On a
process's side `Hello`, `Ready` and `ReadSchedule` lead to the loop, `LookAtClock` is its head, and `Measure`, `CountDown` or `TakeWindow`
the rest of the iteration, which goes by the clock as it was read at the head; `Done` and `Exit` leave it. All processes read one monotonic clock of one
host; it counts rate intervals from the moment the schedule is issued, since nothing that matters reads it before. A window is named by its start. `Timeout`
may come at any moment, because a deadline that is not reached in time is no different from one that is.
Whether the reported rates are steady is open once there are enough of them. The server sends no rates, as in `run_server`.

**SutExchange.** What the processes do once they have a schedule, on the same clock and with the same window, which `ControlBarrier` shows
to be one for all in a valid run; here each merely adopts it before it begins. `ClientConnected` to `ServerDisconnected` are the calls
`bk_sut_on_connect` and `bk_sut_on_disconnect`, `ClientReceives` and `ServerReceives` are `bk_sut_on_receive`, `ClientSends` and `ServerSends` an iteration of the two
loops, `Freeze` the iteration in which the server's plan begins, `TakeWindow` the change of the window, `ClientDone` and `ServerDone` the accounts at the end. The
transport is any library the adapters bind: `sent` is never used up, so that what it took comes late, repeatedly, in any order or not at all,
and each send is taken or refused. `ClientFailures` and `ServerFailures` are the faults `validateScenarioDoneStats` finds, those it looks for on a loss-free link included (`behind`, `tick`:
gate.go:547-562); `Deserved` is what really went wrong for a client: states that did not reach it, or were all built too early. A client is a process with one connection,
so the least and the greatest value of its connections (gate.go:551) are the same, a connection number belongs to one client (no
adapter reconnects under another one), and a failing process ends the run. The metrics keep what their counts say; the tables behind them are sets.

**RunLifecycle.** One call of `Run` as its goroutine executes it (`pc`), next to the processes, the control server, the operator and
the goroutine that waits for the window. `StartServer`, `AwaitReady` and `StartClient` are the start and its failures; `BarrierExit`,
`BarrierControl` and `BarrierCanceled` are the cases of the barrier's select, of which any ready one may be taken; `DrainOne` and
`Drained` are `drainWaits` with its timer, before and after the kill; `Judge` joins the goroutines and applies
`EvaluateGate` (`GateReasons`, `GateBlame`) and `classifyRunOutcome` (`Classify`). A run is a ramp, a fixed workload without criteria, or one of a scenario (`kind`); of the
last `validateScenarioDoneStats` also asks what the dones of the participants carried (`Stats`): a participant without a done has no stats, and once the schedule is `issued`
everyone is a participant. Negative schedule margins, receive buffer overflows, failed UDP counters and the sampler are one reason, `failed` in `Judge`. The goroutine either captures loss evidence
(`Capture`) or applies the netem schedule command by command (`Tc`, `ScheduleCut`). The end of `runCtx` (`Cut`) kills the processes and may kill a command
that has had its effect. The control server is its result only; it is `ControlBarrier`.

**RigOwner**, **NetnsRig.** The rig is two namespaces and a link under fixed names. `RigOwner` says who owns it: nobody, one run, or debris.
`NetnsRig` is the lock (`Lock`, `GiveUp`), the setup commands one by one (`SetupCommand`), their failures with or without an effect and
the teardown of what was made so far (`SetupFails`), the checks of the finished rig and what their traffic does to the loss traces (`Check`, `CheckFails`),
the teardown command by command (`Delete`, `Unlock`), an operator's `Cancel` and a `Crash` at any point. `maker` records who made each piece, which no code
knows. Addresses, links, offloads and qdiscs are the sixth command, because a failure in any of them is handled alike.

### What a result rests on

**LossEvidence.** The goroutine that samples the counters of both egresses, in a clock that runs on between its steps, against a kernel that counts and drops and
may replace a qdisc; `FinalCaptureAt` is when the second sample is due, `WithinBounds` and `ValidateNetemLossEvidence` are the gate. The loss is random (netem
counts its drops) or a trace (the program counts packets; `CountDropsInRange` is the number of dropping positions in between).

**ScenarioRanges**, **OfferedLoad.** `ScenarioRanges` holds the arithmetic of `scenario_metrics.go` and of ramps and shares in `config.go`. `OfferedLoad` is a
process's loop through the window, its slots and its staleness samples (`Iterate`), for every rate, phase, period and length up to a
bound and every first slot up to the start of the window (a server that is complete only with its first iteration in the window begins later and may be short of slots,
`sut.c:757`); the orchestrator's checks (`ProcessMetricsOK`, `MergedMetricsOK`) are then applied to what it counted, for every way to share the connections out.

**RampScore.** The endpoints of a ramp (`BeginSnapshot`, `EndSnapshot`, `Boundary`, `Die`), the watcher (`Watch`, `Publish`,
`StopWatch`) and the scorer (`Score`); `Assess` and `Evaluate` judge the snapshots of a phase: too little load is a break, and so is an entry that is missing among others, while a
client's file without any entry is an error. The endpoints are adapters in several languages and
external here: what is modelled of them is what `ramp.go` relies on.

**MetricsMerge.** Slots and deliveries are counted by class and by traffic in several processes (`CountSlot`, `CountDelivery`), refusals and disconnects besides
(`CountApart`), the files are written as counted or with one count of a class or traffic key, bin, number of samples or layout off (`Written`), checked, added and finalized (`MergeFiles`) and judged (`Blame`,
`Percentile`). Not among the numbers that may be off is `timestamp_order_violations`, which has no second account: `metrics.go:542` bounds it only, and the run is refused for any above
zero (`gate.go:84`). The four histograms of a file are one, because all are treated alike.

**Faults.** Each definition marked *Fault* is a wrong version of the definition that follows it, a slip the code
could contain. Replacing the right one by it must break the property named in `PROJECT.json`; that
is how each property is known to say something about the code. Nothing else uses them.

## 4. Runs

| run | instance | shows |
|---|---|---|
| `receiver` | 2 holds, queue of 1, number space 4, 1 abort; 4 streams of 2 messages (2 connections, 2 channels), or 2 streams of 5 | order across the wrap, an exact hold count, no stranded hold, and that every message arrives |
| `receiver_classes` | 1 connection, all four classes, packets of 2 frames, 1 hold, queue of 1; streams of 2, or a sequenced stream of 6 in number space 4 | a packet that fails for one frame is repeated without harm to the other; sequenced messages only go forward, across the wrap |
| `receiver_parts` | tracker: 3 bits, number space 8, 14 packets; window: 3 words of 2 bits, 16 ids; reassembly: 2 connections, 2 messages of 2 fragments, 3 slots, 1 hold, queue of 1, 1 expiry | the acknowledgement says exactly what arrived; nothing is taken twice or swallowed; fragments never mix, no slot leaks, and with a place for every message a connection receives all, unless a slot of its own expired |
| `dedup_window` | repetitions one id further behind | not exact in the last ids of the window (disagreement 1) |
| `reassembly_expiry` | 1 connection, 3 slots, one expires | not received (disagreement 2) |
| `sender` | 1 flow, ordered and unreliable messages, 2 slots for a window of 2, packets of 2 messages, rings of 3, 3 messages | one home for each message, freed means arrived, every sent packet watched, exact count of late messages, nothing dropped, within the window |
| `sender_bypass` | 2 flows, packet numbers for unreliable packets | not within the bitmap (disagreement 3) |
| `barrier` | server and 1 client, with and without steady warmup; provisional start at 3, guard 1, duration 2, clock to 5; one report suffices | one window for a valid run, never two in one process, no message rejected, every run ends |
| `exchange` | server and 2 clients, window of 1 starting at 2 or moved to 1, drain 2, an input and a state every 2, 1 connection lost | exact roster count, true accounts, and the runner's gate on them, which finds only faults there were |
| `lifecycle` | server and 1 client, 1 step of a schedule, 1 failure of the runner's tools, a cancel at any point | a VALID run is whole, nothing outlives Run, exact count of waits, just blame, Run returns |
| `run_crash` | the same without failures of tools | a crash in a scenario is called INVALID (disagreement 4) |
| `measurement` | rig: 3 runs, 1 failing command; loss: window 1 to 4 of 5 ticks, trace of 2, 1 replaced qdisc; load: intervals and periods to 4, windows to 9, 3 connections; ramp: 3 levels; metrics: 2 files, 2 traffics, 2 bins, 3 events | the properties of section 3's last group, and that `NetnsRig` implements `RigOwner` |

Parts that share no state are checked in one run: in `receiver_parts` and `measurement` a behaviour follows one of them, as the variable
`follows` says, and the others stand still; the properties of each part are those of its module.

Why the bounds are enough: every pool is filled and emptied (the pool sizes are below the number of
messages that want them), the number spaces wrap at least once in the runs about wrapping, windows and slots are
smaller than the streams that pass through them (the reassembly of `receiver_parts` has exactly one place for each message, slots and
holds together: with one slot fewer `FragmentsArrive` is violated), and the competition of two connections or
two flows is the smallest case that is not one. In `receiver` long streams and many streams are separate instances (`instance`): the wrap needs more messages
than the number space has, and interference needs several streams, but not both at once - `RudpReceiverProofs` has no such bound. In `barrier` the window can move
from 3 to 2 with both ends of the guard hit exactly, and it is
as long as needed for the old and the new window to overlap; a second client would make about a hundred times as many states, and
the server is already a second participant that acknowledges at its own time. In `exchange` the server's plan begins before or in the window, so
that it holds none or one of their slots, slots before, in and after it are sent late, and a client is lost before or after the freeze, at one end or the other; a longer window, with two ticks for each client, has too many
states, and is covered by the proof only.
In `lifecycle` one client is a second process that exits at its own time; one step has both commands, so a link with two different ends occurs. In
`measurement` three runs are one at work, one that waits and one that has crashed before; the samples of the loss evidence can overrun each other and the window; windows
of the load are and are not multiples of intervals and periods, with slots on both edges; the last level of the ramp is a short one; two files and two traffics
of one class are the least that a sum can be wrong in. `CHECK_DEADLOCK FALSE` is said where the system stops: a run is over (`exchange`, `lifecycle`, `measurement`), all connections
are aborted (`RudpReassembly`), or the bounds on messages and packet numbers end the behaviour (`RudpSender`); elsewhere deadlock is checked.

**Fairness.** In `barrier` time passes and `Run` goes on with its loop and serves its timers (weak fairness of `Tick`, `Advance`, `CutOff`,
`Timeout`); no process is assumed to do anything, so `RunEnds` holds wherever they exit or hang. In `lifecycle` the runner takes its steps, the goroutine of the window
takes its own, and the control server ends (weak; the last is `RunEnds`); again nothing is assumed of the processes or of the operator. In `receiver` the thread goes on with a
loop it is in (`Internal`, weak), and reading is not shut out (`AppRecv`, strong, since the loops disable it in between; weak in `RudpReassembly`, where it stays
enabled): the adapter reads until the ring is empty after each poll. The peer repeats what is not acknowledged, and C1/C2 are about networks that
let something through, so a frame that is needed next gets through again and again (`NextNeeded`, strong; `Retransmit`,
weak and only while unacknowledged).

## 5. Disagreements found

1. `dedup_window`. In the last 63 ids of the window a word can already belong to the next block, and a repetition is not
   recognised; the comment at `rudp.c:37` calls the window exact. It matters only to an application
   with nearly 65536 messages in flight.
2. `reassembly_expiry`. `expire_reassembly` drops fragments that were acknowledged; the sender does not repeat them,
   and an ordered channel then waits for ever. `benchspec/README.md:138` promises arrival while the connection is kept. Messages that
   fit one frame, as all the benchmark's do, are not concerned.
3. `sender_bypass`. A reliable message that joins an unreliable packet of the batch is not subject to the window gate
   that the comment at `rudp.c:2039` describes. It takes two flows (within one flow reliable messages go first) and
   `skip_unreliable_acks` unset; the adapter has one flow.
4. `run_crash`. A process of a scenario crashes in the measurement. The control server returns what it has (`server.go:248-265`), and the participant that sent
   no done gives the reason "done.stats is not a JSON object" (`gate.go:494`), which `independentInvalidReasons` (`runner.go:989`) does not know as a consequence of a failing process: the
   run is INVALID. `outcome_test.go:26` expects FAIL of a scenario whose server crashed, and `README.md:139` keeps INVALID for problems of the environment or the measurement.
   `CrashIsFailure` says that nothing else keeps such a run from being a FAIL, and that one without a scenario always is.

Also noticed, and shown by no run, because no document says otherwise:

- `send_or_count` (`sut.c:518`) counts every refused send, those of the warm-up and of the server too, and `EvaluateGate` (`gate.go:71`) adds all of them to
  the submitted slots of the window. Refusals before the window can therefore make a shortfall that the load generator caused look like the
  SUT's; `ShortfallIsAttributed` holds without them (`early`), and without a disconnect, which takes the whole blame.
- Under a loss regime or a schedule a crash of the SUT also cuts off the evidence or the schedule, whose reasons count as independent, so
  the run is INVALID and not FAIL; `CrashIsFailure` is stated for runs with neither.
- When the operator cancels, the processes are killed with the same context, and the select of `AwaitReady` (`runner.go:315`) or of the barrier (`runner.go:426`) may
  take the exit of one of them before the cancel. A run without a scenario then has only reasons that follow from a failing process and is called FAIL; one of a scenario may be, as long
  as the control server knows of no participant that owes a done. `FailHasCause` is stated for runs nobody canceled.
- The reassembly slots can starve. A complete message whose turn has not come stays in its slot when the holds are full, and is looked at again only with another fragment of its own; when slots and holds
  are all taken by such messages, the one whose turn it is finds no place, for ever. By default there are 1024 holds and 1024 slots (`rudp.c:1253`) for up to 64 connections, and nothing
  bounds the messages outstanding to them. `FragmentsArrive` shows that this cannot happen with a place for every message that may be outstanding; TLC finds it
  in `receiver_parts` with one slot fewer. Messages of one fragment, as all the benchmark's are, need no slot.
- The last check of a loss-free link (`gate.go:547`) can fail a run in which nothing was lost. It asks that the last state of the window tells of the client's last input but one; when the delay is longer
  than an input interval, as in `scripts/badnet/gen.py` (50 ms one way, inputs at 30 Hz), the state was built before two or more of them arrived. The link counts as
  loss-free by its base regime, so also when a schedule adds loss later. `benchspec/README.md:238` says only that the final catch-up is gated, and the bad network bench does not use the outcome
  (`README.md:70`). In `GateHolds` that is one of the deserved faults, a state that told too little.

## 6. Proofs

Each module with state has one type invariant, which a run checks or a proof establishes.

`RudpReceiverProofs` proves `TypeOK`, `InOrder`, `NoStrandedHold`, `AckedIsKept`, `UnorderedOnce`,
`HoldCountExact` and `SequencedForward` for any number of connections, channels, holds, queue entries and messages and any even
number space. The inductive invariant `IInv` adds to the type: the wrapped counter is the wire form of the true one
(`CountInv`); holds are ahead of the stream and within reach (`HoldInv`), so that equal wire numbers mean equal messages; what is marked seen is what
was released or is held (`SeenInv`), without which a repetition could be delivered twice; delivered and queued messages
make up the released prefix (`QueueInv`); the frames of a packet under way stay in reach (`PacketInv`); and a ready hold has an event of its
connection in the queue, or the drain loop still has its channel before it (`WakeInv`), which is what `NoStrandedHold` says once
both loops have ended. `SequencedForward` has an invariant of its own (`SequencedInv`): the latest number is the wire form of the newest position, and
the frames left in a packet, which were within `Stray` of it when the packet arrived, are within `2 * Stray` of each other, so that the first of them
to be delivered does not carry the comparison out of half the number space for the next. The bridge from wrapped to true numbers is `SeqAfterIsLater` in `NumberProofs`, which also holds
what several components need of arithmetic: division of two variables (the provers know it only by a constant), least and greatest elements,
how many numbers lie in a range, the size of a set of pairs as a sum, and sums over any finite set: how they
split, scale, are bounded and change their order. Those are inductions on the size of the set, done without an induction theorem by taking a least counterexample.

`RudpPartsProofs` treats the three parts of the receiver that `receiver_parts` runs. It proves `AckIsExact` for every width and number space allowed by
`WidthAssumption`; the invariant relates each bit to a position. It proves `DedupIsSound`, that is `NotTakenTwice` and `NothingSwallowed`, for every geometry
of the ring, if repetitions come from at most `Window - Bits` behind - the condition of the theorem, which `dedup_window` shows to be needed: two ids that near each other share
a word only if they share a block (`SameSlotSameBlock`), so a set bit of a word whose tag is the block of an id is that id's own.

It proves `ReassemblyIsSound` for any number of connections, messages, fragments and slots. The invariant (`PartsInv`, `SlotInv`, `AckInv`) is
that of the property, made local to a slot: a slot holds fragments of its own message only, that message is still needed and has no second slot, and an
acknowledged fragment is where its message's slot is. `FindsSlot` is the contract of `find_or_alloc_reasm` it all rests on: the slot returned is
the message's own, or free while no other has it. Every way a slot is emptied, by completion, expiry or abort, is one lemma, `EmptyStep`.

`RudpSenderProofs` proves of the send path, for any number of flows, slots and messages, any ring capacities and batch sizes, `TypeOK`, `BooksAgree` and
the half `DoneArrived` of `NothingLost`. The invariant `Inv` says what each place may hold (`RingsHold`, `BatchHolds`, `SlotsHold`) and that the places are disjoint
(`Apart`); that the numbers in the batch are above all tracked ones and their slots free (`Numbered`), so that `record_sent_packet` overwrites no reference;
that the entries of a batch still have the room they left in their rings (`RoomLeft`), so that `requeue_unsent_packet` never fails; which messages may have lost a packet, and that
`late_ack_msg_count` counts them (`Booked`); and that a reference or a lost number stands for a packet that carried the message (`Traced`). `StartFlush` and
`ReceiveAck` are instances of one step, `Settles`, which moves messages out of packets to the retry rings or to their end.

`WithinAckWindow` and the other half of `NothingLost` do not hold for every configuration, so their theorems have hypotheses, which name what the
configuration has to provide. `WindowIsKept` assumes `Sequential`: one flow or `skip_unreliable_acks`, and no fewer slots than the window is wide. `sender_bypass` shows what happens
without the first part; with them the numbers of the reliable packets are consecutive (`Windowed`). `NothingIsLost` assumes `RetryFits`: a retry ring has room for all messages, or for what
as many packets as there are slots can carry, or, if `Sequential`, as many as the window is wide. `pick_from_flow` serves new messages only when the flow has none to repeat, so all that may
come back to the ring is then in packets (`RetryRoom`). The adapter (`coop_rudp.c:111`) has one flow, 4096 slots, and rings of as little as 1024 entries (`rudp.c:1269`), which is 64 packets of
16 messages: it satisfies both hypotheses, the second without one entry to spare.

`MeasurementProofs` proves of the rig, for any number of orchestrators and of failing commands, `MeasuresOwnRig`, `CleanRunsLeaveNothing`, `DeletesOwn` (a piece
is removed only while its maker is at work) and the refinement `PromiseKept`. The invariant: the lock is held by the run at work (`LockInv`); during setup the
number of completed commands tells exactly which pieces are the run's (`SetupInv`), whatever debris lies about, so that the partial
teardown deletes nothing else; the ends of a pair lie in namespaces of the same maker (`InsideInv`), which is why deleting one's own
namespace cannot take another's pair along; what is still to be deleted is the run's own and, without a failed command, all of it (`TeardownInv`).
For the refinement the owner is told from the lock (`OwnerIs`), and every step moves it as `RigOwner` allows or not at all.

`RunLifecycleProofs` proves, for any number of clients, schedule steps and failures of the runner's tools, every safety property the run `lifecycle` checks:
`LifecycleTypeOK`, `RemainingExact`, `NothingOutlivesRun`, `ValidIsWhole` and `OutcomeIsJust`. None is inductive alone. Where Run is tells which processes
were started (`StartInv`), whether `runCtx` was ended and that an orderly drain leaves nothing running (`StopInv`, from the exact count); a result that is
not good has left a reason, and a good one came after every done (`ControlInv`); while no record of the schedule carries an error, the link is what the records
say (`WatchInv`), which is what lets the gate judge the link by the records; and whatever stopped a run that nobody canceled left a blame or a failed barrier
(`CauseInv`), so that killed processes alone never make a FAIL. `OutcomesAreJust` says of a crash that every reason follows from it and is known to do so, except the missing
dones of a scenario, which are disagreement 4. The judgement then rests on two lemmas about `EvaluateGate`: everything wrong is a reason
(`WrongIsReason`), and every reason is something wrong (`ReasonIsWrong`).

`ControlBarrierProofs` proves, for any number of clients, any times and any delay of messages and threads, `WindowsAgree`, `NothingRejected` and
`BarrierTypeOK`, the safety of the run `barrier`. Neither of the first two is inductive: a wrong window needs several steps of several processes to come about. The invariant follows one process at a time. What it has
said, on the way or received, tells where it is (`PlaceInv`); what it was sent is what it goes by or has yet to read, and as soon as it has
acknowledged the window nothing else is in its mail (`MailInv`), which covers the schedule and the moved window lying in the socket together; a process that
was late has said so (`LateInv`), so that a run that became valid had none; the messages on the way are said once and each in its turn
(`SpeechInv`), which the queue lemmas `QueueAppend` and `QueueReceive` carry over a send and a receive; and the runner's own
variables are those of its stage (`RunInv`). All of that is claimed while the run is open; that a process goes by one window for good once it measures
(`LocalInv`) holds afterwards too, which is why no process ever measures in two even when the run has failed. The types
need only `Bounds`: a process's next report is due at most an interval after the clock it looked at, which may lie beyond every possible window.

`SutExchangeProofs` proves, for any number of clients, any intervals, window and drain, and any loss, order and repetition of messages, all the safety of the run
`exchange`: `SutTypeOK`, `AccountsExact`, `RosterExact` and `GateHolds`. The plan of a process is a row of slots of which it has looked at a beginning (`LookedAt`), all of those
before the cutoff when it is done (`DoneInv`). Each counter is the size of a set that is never stored: slots are the looked-at slots of the window times their targets (`SlotInv`),
submissions are the different messages the transport took (`SubmittedInv`), deliveries the different ones that arrived, a subset of those the other
end had taken (`DeliveredInv`), which is what makes a repeated or late message harmless. That a state never tells of an input its client has not sent is a statement about
every message that was ever on the way (`MessageInv`, `InputInv`). For the gate, `SlotRangeIsRight` shows that `expectedSlotRange` is right about every plan: the number of slots
in a window is a quotient of two variables. For the checks of a loss-free link, `GotInv` relates what a client reports to the states that reached it: it reports no less than any of them tells, and its tick is a slot
of the window that the server has looked at, so clients that all got the newest tick report the same one (`SameTick`).

`MeasurementProofs` further proves, for every value of the constants, the other properties of the run `measurement`. `MarkerIsScore` and `StopLosesNoScore`: what the watcher took for a break is judged the same by the
scorer (`VerdictStays`, because a file that is whole is not written again), and phases before the marker are no breaks (`Watched`), so the first break the
scorer finds is the marker. `EvidenceIsInner`: while the window is open, the counters seen so far are those of its own packets (`Inside`), for a counter that may have been replaced
in between. `LoadIsInRange`: slots and samples counted so far are those of an arithmetic progression from the first one in the window (`SamplesInv`, `SlotsInv`); at
the end their number is a quotient that the ranges of `scenario_metrics.go` enclose, for each process and, by sums over the clients, for the merged file.

`MergeIsExact`, `ShortfallIsAttributed` and `WithinLimitIsTrue` are proved for any number of files, traffics, bins and events. The invariant (`MetricsInv`) is of the files
as they are counted: each passes the checks of its own (`FileSound`), a slot that was not submitted was late or refused (`SlotsAccountedFor`), and over all files together no more was
delivered than the slots call for (`DeliveriesPossible`), though one file alone may well have received more than it sent. `MergeIsSum`
turns the fold of `MergeFiles`, in whatever order the files come, into sums over the files; `SumAgrees` and `FinalizesSum` show that a sum of sound files is sound, by changing
the order of the sums over files and over the traffics of a class; `OffSpoils` that one number off, whichever of those `Off` names, fails a check. For the blame, `Outcome` ties the verdict to the merged
counts; for percentiles a rank is rounded up (`RankRoundsUp`), and what lies up to a bin grows with the bin (`BelowGrows`), so a limit
at or above the chosen bin has the whole rank below it.

Assumptions: `InstanceAssumption`, `SenderAssumption`, `SeqSpaceAssumption`, `WidthAssumption`, `RingAssumption`, `RigAssumption`, `LifecycleAssumption`, `BarrierAssumption`, `ReassemblyAssumption`, `ExchangeAssumption`, `RampAssumption`, `EvidenceAssumption`, `LoadAssumption`, `MetricsAssumption`; TLC evaluates each in the runs.

Only model-checked: the liveness properties `AllDelivered` (`receiver`), `FragmentsArrive` (`receiver_parts`), `RunEnds` (`barrier`) and `RunReturns`
(`lifecycle`). They rest on fairness, and this prover has neither that nor ENABLED. Every safety property of the passing runs is proved; `WithinAckWindow`
and one half of `NothingLost` under the hypotheses named above.

## 7. Not modelled

Packet validation and the byte layout, sockets, borrowed payload memory, byte counters and statistics; the timing
arithmetic of coop_rudp, since its timers may fire at any time in `RudpSender`; the connection table and the restart of a peer, which the benchmark does not do;
the .NET benchkit and the adapters of libraries, which follow the same interface or are not in the repository; parsing and
formatting of configuration, metrics and reports; identity, cost and treatment records, which state what a run was and decide nothing in it; the ages of staleness samples and
cohorts; scripts. `PROJECT.json` lists each component with its reason, and each hazard with the property that covers it or a note.
