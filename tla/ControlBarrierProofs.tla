------------------------ MODULE ControlBarrierProofs ------------------------
(***************************************************************************)
(* For any number of clients, any warmup, guard, duration and drain, and   *)
(* any delay of messages and threads: the processes of a valid run measure *)
(* in one window, the one the runner published, no process ever measures   *)
(* in two, and the runner rejects no message of a process.                 *)
(*                                                                         *)
(* The argument goes process by process: what it has said (on the way or   *)
(* received) tells where it is; what it was sent and has not read is its   *)
(* schedule, its window, or both; and the window it goes by is the one in  *)
(* force as soon as it has acknowledged what it was sent last.             *)
(***************************************************************************)
EXTENDS ControlBarrier, NumberProofs, FiniteSetTheorems, SequenceTheorems, TLAPS

(* What a process says once, and what it says as often as it likes         *)
Once == {"hello", "ready", "sched_ack", "window_ack", "done"}
Acks == {"sched_ack", "window_ack"}
Message == [type : Once \union {"rate"}, late : BOOLEAN]
Window == [type : {"schedule", "window"}, start : Nat]
Time == Nat \union {None}

(* What must be said before                                                *)
Before == [t \in Once \union {"rate"} |->
  IF t = "hello" THEN {}
  ELSE IF t = "sched_ack" THEN {"hello", "ready"}
  ELSE IF t = "done" THEN {"hello", "sched_ack"} ELSE {"hello"}]

-----------------------------------------------------------------------------
(* What is on the way to the runner, q, after T was received               *)

(* Nothing is said twice, and nothing before what must come before it.     *)
NoLateness(q) == \A i \in 1..Len(q) : q[i].late => q[i].type \in Acks
SaidOnce(q, T) ==
  \A i \in 1..Len(q) : q[i].type \in Once =>
    /\ q[i].type \notin T
    /\ \A j \in 1..Len(q) : q[j].type = q[i].type => j = i
InOrder(q, T) ==
  \A i \in 1..Len(q) : \A b \in Before[q[i].type] :
    b \in T \/ \E j \in 1..(i - 1) : q[j].type = b
QueueOK(q, T) == NoLateness(q) /\ SaidOnce(q, T) /\ InOrder(q, T)

LEMMA BeforeIsOnce == \A t \in Once \union {"rate"} : Before[t] \subseteq Once
<1> SUFFICES ASSUME NEW t \in Once \union {"rate"} PROVE Before[t] \subseteq Once  OBVIOUS
<1>1. Before[t] \subseteq {"hello", "ready", "sched_ack"}  BY DEF Before
<1> QED BY <1>1 DEF Once

(* What a process has said                                                 *)
Sent(q, T) == {t \in Once : t \in T \/ \E i \in 1..Len(q) : q[i].type = t}

LEMMA QueueAppend ==
  ASSUME NEW q \in Seq(Message), NEW T \in SUBSET Once, NEW m \in Message, QueueOK(q, T),
         m.late => m.type \in Acks,
         m.type \notin Sent(q, T), Before[m.type] \subseteq Sent(q, T)
  PROVE  /\ Append(q, m) \in Seq(Message) /\ QueueOK(Append(q, m), T)
         /\ Sent(Append(q, m), T) = Sent(q, T) \union ({m.type} \intersect Once)
<1> DEFINE r == Append(q, m)
<1>1. /\ r \in Seq(Message) /\ Len(r) = Len(q) + 1 /\ Len(q) \in Nat
      /\ r[Len(q) + 1] = m
      /\ \A i \in 1..Len(q) : r[i] = q[i]
  BY AppendProperties
<1> HIDE DEF r
<1>2. \A i \in 1..Len(r) : i \in 1..Len(q) \/ i = Len(q) + 1  BY <1>1
<1>3. \A i \in 1..Len(q) : i \in 1..Len(r)  BY <1>1
<1>4. NoLateness(r)  BY <1>1, <1>2 DEF QueueOK, NoLateness
<1>5. SaidOnce(r, T)
  <2> SUFFICES ASSUME NEW i \in 1..Len(r), r[i].type \in Once
               PROVE  r[i].type \notin T /\ \A j \in 1..Len(r) : r[j].type = r[i].type => j = i
    BY DEF SaidOnce
  <2>1. CASE i \in 1..Len(q)
    <3>1. r[i].type \notin T /\ r[i].type # m.type  BY <1>1, <2>1 DEF QueueOK, SaidOnce, Sent
    <3> QED BY <1>1, <1>2, <2>1, <3>1 DEF QueueOK, SaidOnce
  <2>2. CASE i = Len(q) + 1
    <3>1. r[i].type = m.type  BY <1>1, <2>2
    <3>2. m.type \notin T /\ \A j \in 1..Len(q) : r[j].type # m.type
      BY <1>1, <3>1 DEF Sent
    <3> QED BY <1>2, <2>2, <3>1, <3>2
  <2> QED BY <1>2, <2>1, <2>2
<1>6. InOrder(r, T)
  <2> SUFFICES ASSUME NEW i \in 1..Len(r), NEW b \in Before[r[i].type]
               PROVE  b \in T \/ \E j \in 1..(i - 1) : r[j].type = b
    BY DEF InOrder
  <2>1. CASE i \in 1..Len(q)
    <3>1. b \in T \/ \E j \in 1..(i - 1) : q[j].type = b  BY <1>1, <2>1 DEF QueueOK, InOrder
    <3>2. \A j \in 1..(i - 1) : j \in 1..Len(q)  BY <1>1, <2>1
    <3> QED BY <1>1, <3>1, <3>2
  <2>2. CASE i = Len(q) + 1
    <3>1. b \in Sent(q, T)  BY <1>1, <2>2
    <3>2. b \in T \/ \E j \in 1..Len(q) : q[j].type = b  BY <3>1 DEF Sent
    <3>3. i - 1 = Len(q)  BY <1>1, <2>2
    <3> QED BY <1>1, <3>2, <3>3
  <2> QED BY <1>2, <2>1, <2>2
<1>7. Sent(r, T) = Sent(q, T) \union ({m.type} \intersect Once)
  <2>1. \A t \in Once : (\E i \in 1..Len(r) : r[i].type = t)
                          <=> (t = m.type \/ \E i \in 1..Len(q) : q[i].type = t)
    <3>1. Len(q) + 1 \in 1..Len(r)  BY <1>1
    <3> QED BY <1>1, <1>2, <1>3, <3>1
  <2> QED BY <2>1 DEF Sent
<1> QED BY <1>1, <1>4, <1>5, <1>6, <1>7 DEF QueueOK, r

LEMMA QueueReceive ==
  ASSUME NEW q \in Seq(Message), NEW T \in SUBSET Once, QueueOK(q, T), q # <<>>
  PROVE  /\ Head(q) \in Message /\ Head(q) = q[1] /\ 1 \in 1..Len(q)
         /\ Head(q).type \notin T /\ Before[Head(q).type] \subseteq T
         /\ Tail(q) \in Seq(Message)
         /\ QueueOK(Tail(q), T \union ({Head(q).type} \intersect Once))
         /\ Sent(Tail(q), T \union ({Head(q).type} \intersect Once)) = Sent(q, T)
         /\ Len(Tail(q)) = Len(q) - 1 /\ \A i \in 1..Len(Tail(q)) : Tail(q)[i] = q[i + 1]
<1> DEFINE r == Tail(q)
           h == Head(q)
           U == T \union ({h.type} \intersect Once)
<1>1. /\ h \in Message /\ h = q[1] /\ Len(q) \in Nat /\ Len(q) > 0
      /\ r \in Seq(Message) /\ Len(r) = Len(q) - 1
      /\ \A i \in 1..Len(r) : r[i] = q[i + 1]
  BY HeadTailProperties
<1> HIDE DEF r, h
<1>2. 1 \in 1..Len(q) /\ \A i \in 1..Len(r) : i + 1 \in 1..Len(q)  BY <1>1
<1>3. \A i \in 1..Len(q) : i = 1 \/ (i - 1 \in 1..Len(r) /\ r[i - 1] = q[i])
  <2> SUFFICES ASSUME NEW i \in 1..Len(q), i # 1 PROVE i - 1 \in 1..Len(r) /\ r[i - 1] = q[i]
    OBVIOUS
  <2>1. i - 1 \in 1..Len(r) /\ (i - 1) + 1 = i  BY <1>1
  <2>2. r[i - 1] = q[(i - 1) + 1]  BY <1>1, <2>1
  <2> QED BY <2>1, <2>2
<1>4. h.type \notin T
  <2>1. h.type \in Once => h.type \notin T  BY <1>1, <1>2 DEF QueueOK, SaidOnce
  <2> QED BY <2>1
<1>5. Before[h.type] \subseteq T
  <2> SUFFICES ASSUME NEW b \in Before[h.type] PROVE b \in T  OBVIOUS
  <2>1. 1..(1 - 1) = {}  OBVIOUS
  <2> QED BY <1>1, <1>2, <2>1 DEF QueueOK, InOrder
<1>6. NoLateness(r)  BY <1>1, <1>2 DEF QueueOK, NoLateness
<1>7. SaidOnce(r, U)
  <2> SUFFICES ASSUME NEW i \in 1..Len(r), r[i].type \in Once
               PROVE  r[i].type \notin U /\ \A j \in 1..Len(r) : r[j].type = r[i].type => j = i
    BY DEF SaidOnce
  <2>1. r[i] = q[i + 1] /\ i + 1 \in 1..Len(q) /\ i + 1 # 1  BY <1>1, <1>2
  <2>2. r[i].type \notin T /\ \A j \in 1..Len(q) : q[j].type = r[i].type => j = i + 1
    BY <2>1 DEF QueueOK, SaidOnce
  <2>3. r[i].type # h.type  BY <1>1, <1>2, <2>1, <2>2
  <2>4. ASSUME NEW j \in 1..Len(r), r[j].type = r[i].type PROVE j = i
    <3>1. j + 1 = i + 1  BY <1>1, <1>2, <2>2, <2>4
    <3> QED BY <3>1
  <2> QED BY <2>2, <2>3, <2>4
<1>8. InOrder(r, U)
  <2> SUFFICES ASSUME NEW i \in 1..Len(r), NEW b \in Before[r[i].type]
               PROVE  b \in U \/ \E j \in 1..(i - 1) : r[j].type = b
    BY DEF InOrder
  <2>1. b \in T \/ \E j \in 1..((i + 1) - 1) : q[j].type = b
    BY <1>1, <1>2 DEF QueueOK, InOrder
  <2>2. ASSUME NEW j \in 1..((i + 1) - 1), q[j].type = b
        PROVE  b \in U \/ \E k \in 1..(i - 1) : r[k].type = b
    <3>1. CASE j = 1
      <4>1. r[i] \in Message  BY <1>1, ElementOfSeq
      <4>2. r[i].type \in Once \union {"rate"}  BY <4>1 DEF Message
      <4>3. b \in Once  BY <4>2, BeforeIsOnce
      <4> QED BY <1>1, <2>2, <3>1, <4>3
    <3>2. CASE j # 1
      <4>1. j \in 1..Len(q) /\ j - 1 \in 1..(i - 1)  BY <1>1, <3>2
      <4> QED BY <1>3, <2>2, <3>2, <4>1
    <3> QED BY <3>1, <3>2
  <2> QED BY <2>1, <2>2
<1>9. Sent(r, U) = Sent(q, T)
  <2>1. \A t \in Once : (\E i \in 1..Len(q) : q[i].type = t)
                          <=> (t = h.type \/ \E i \in 1..Len(r) : r[i].type = t)
    BY <1>1, <1>2, <1>3
  <2> QED BY <2>1 DEF Sent
<1> QED BY <1>1, <1>2, <1>4, <1>5, <1>6, <1>7, <1>8, <1>9 DEF QueueOK, r, h

(* Whether a message that was late, or a report, is on the way             *)
LateIn(q) == \E i \in 1..Len(q) : q[i].late
RateIn(q) == \E i \in 1..Len(q) : q[i].type = "rate"

LEMMA AppendCarries ==
  ASSUME NEW q \in Seq(Message), NEW m \in Message
  PROVE  /\ LateIn(Append(q, m)) <=> (LateIn(q) \/ m.late)
         /\ RateIn(Append(q, m)) <=> (RateIn(q) \/ m.type = "rate")
<1> DEFINE r == Append(q, m)
<1>1. /\ Len(r) = Len(q) + 1 /\ Len(q) \in Nat /\ r[Len(q) + 1] = m
      /\ \A i \in 1..Len(q) : r[i] = q[i]
  BY AppendProperties
<1> HIDE DEF r
<1>2. /\ \A i \in 1..Len(r) : i \in 1..Len(q) \/ i = Len(q) + 1
      /\ Len(q) + 1 \in 1..Len(r) /\ \A i \in 1..Len(q) : i \in 1..Len(r)
  BY <1>1
<1>3. LateIn(r) <=> (LateIn(q) \/ m.late)  BY <1>1, <1>2 DEF LateIn
<1>4. RateIn(r) <=> (RateIn(q) \/ m.type = "rate")  BY <1>1, <1>2 DEF RateIn
<1> QED BY <1>3, <1>4 DEF r

LEMMA TailCarries ==
  ASSUME NEW q \in Seq(Message), q # <<>>
  PROVE  /\ LateIn(q) => LateIn(Tail(q)) \/ Head(q).late
         /\ RateIn(Tail(q)) => RateIn(q)
         /\ Head(q).type = "rate" => RateIn(q)
<1>1. /\ Head(q) = q[1] /\ Len(q) \in Nat /\ Len(q) > 0
      /\ Len(Tail(q)) = Len(q) - 1
      /\ \A i \in 1..Len(Tail(q)) : Tail(q)[i] = q[i + 1]
  BY HeadTailProperties
<1>2. 1 \in 1..Len(q) /\ \A i \in 1..Len(Tail(q)) : i + 1 \in 1..Len(q)  BY <1>1
<1>3. \A i \in 1..Len(q) : i = 1 \/ (i - 1 \in 1..Len(Tail(q)) /\ Tail(q)[i - 1] = q[i])
  <2> SUFFICES ASSUME NEW i \in 1..Len(q), i # 1
               PROVE  i - 1 \in 1..Len(Tail(q)) /\ Tail(q)[i - 1] = q[i]
    OBVIOUS
  <2>1. i - 1 \in 1..Len(Tail(q)) /\ (i - 1) + 1 = i  BY <1>1
  <2>2. Tail(q)[i - 1] = q[(i - 1) + 1]  BY <1>1, <2>1
  <2> QED BY <2>1, <2>2
<1>4. LateIn(q) => LateIn(Tail(q)) \/ Head(q).late
  <2> SUFFICES ASSUME NEW i \in 1..Len(q), q[i].late PROVE LateIn(Tail(q)) \/ Head(q).late
    BY DEF LateIn
  <2> QED BY <1>1, <1>3 DEF LateIn
<1>5. RateIn(Tail(q)) => RateIn(q)
  <2> SUFFICES ASSUME NEW i \in 1..Len(Tail(q)), Tail(q)[i].type = "rate" PROVE RateIn(q)
    BY DEF RateIn
  <2> QED BY <1>1, <1>2 DEF RateIn
<1>6. Head(q).type = "rate" => RateIn(q)  BY <1>1, <1>2 DEF RateIn
<1> QED BY <1>4, <1>5, <1>6

-----------------------------------------------------------------------------
(* The invariant                                                           *)

Types ==
  /\ steadyWarmup \in BOOLEAN /\ clock \in Nat /\ stage \in Stages
  /\ settling \in BOOLEAN /\ late \in BOOLEAN
  /\ told \in [Procs -> SUBSET Once]
  /\ schedule \in Time /\ sending \in Time /\ unsent \subseteq Procs
  /\ toRunner \in [Procs -> Seq(Message)] /\ toProc \in [Procs -> Seq(Window)]
  /\ pc \in [Procs -> {"begin", "connecting", "waiting", "running", "done", "failed"}]
  /\ now \in [Procs -> Time] /\ start \in [Procs -> Time]
  /\ final \in [Procs -> BOOLEAN] /\ missed \in [Procs -> BOOLEAN]
  /\ opened \in [Procs -> SUBSET Time]

(* A process only measures in the window it goes by, and once it does,     *)
(* nothing moves that any more.                                            *)
LocalInv(p) ==
  /\ opened[p] \subseteq {start[p]}
  /\ opened[p] # {} => final[p]
  /\ pc[p] \in {"begin", "connecting", "waiting"} => opened[p] = {} /\ ~final[p]

(* What a process has said tells where it is.                              *)
Said(p) == Sent(toRunner[p], told[p])
PlaceInv(p) ==
  /\ pc[p] = "begin" => Said(p) = {}
  /\ pc[p] = "connecting" => Said(p) = {"hello"}
  /\ pc[p] = "waiting" => Said(p) = {"hello", "ready"}
  /\ pc[p] = "running" => {"hello", "ready", "sched_ack"} \subseteq Said(p) /\ "done" \notin Said(p)
  /\ "sched_ack" \in Said(p) <=> start[p] # None
  /\ "window_ack" \in Said(p) => final[p]

(* What the runner has sent to a process, and the start it sent last       *)
SentSchedule(p) ==
  \/ stage \in {"sched_ack", "window", "window_ack", "done"}
  \/ stage = "ready" /\ sending # None /\ p \notin unsent
SentWindow(p) ==
  \/ stage = "window_ack"
  \/ stage = "window" /\ sending # None /\ p \notin unsent
  \/ stage = "done" /\ AllTold("window_ack")
InForce == IF sending # None THEN sending ELSE schedule

(* What was sent to a process is what it goes by or has yet to read.       *)
MailInv(p) ==
  /\ ~SentSchedule(p) => toProc[p] = <<>> /\ start[p] = None
  /\ SentSchedule(p) /\ ~SentWindow(p) =>
       \/ toProc[p] = <<>> /\ start[p] = schedule
       \/ Len(toProc[p]) = 1 /\ start[p] = None /\ toProc[p][1].start = schedule
  /\ SentWindow(p) =>
       \/ toProc[p] = <<>> /\ start[p] = InForce
       \/ Len(toProc[p]) = 1 /\ start[p] # None /\ toProc[p][1].start = InForce
       \/ Len(toProc[p]) = 2 /\ start[p] = None /\ toProc[p][2].start = InForce
  /\ "window_ack" \in Said(p) => SentWindow(p) /\ toProc[p] = <<>>

(* A process that was late has said so.                                    *)
LateInv(p) == missed[p] => late \/ LateIn(toRunner[p])

(* The messages on the way are acceptable, each in its turn.               *)
SpeechInv(p) == QueueOK(toRunner[p], told[p]) /\ (RateIn(toRunner[p]) => p # Server)

ProcInv(p) == PlaceInv(p) /\ MailInv(p) /\ LateInv(p) /\ SpeechInv(p)

(* The runner: what each stage has decided                                 *)
RunInv ==
  /\ sending = None => unsent = {}
  /\ sending # None => settling /\ stage \in {"ready", "window"}
  /\ stage = "hello" => schedule = None
  /\ stage = "ready" => schedule = sending
  /\ stage \in {"sched_ack", "window", "window_ack", "done"} => schedule # None
  /\ stage \in {"window", "window_ack", "done"} => AllTold("sched_ack")
  /\ stage \in {"hello", "ready", "window"} => published = None
  /\ stage = "sched_ack" => published = IF steadyWarmup THEN None ELSE schedule
  /\ stage \in {"window_ack", "done"} => published = schedule

IInv ==
  /\ Types /\ NothingRejected /\ OneWindow
  /\ \A p \in Procs : LocalInv(p)
  /\ Open => RunInv /\ \A p \in Procs : ProcInv(p)

USE BarrierAssumption DEF BarrierAssumption

LEMMA NoneIsNoTime == None \notin Nat /\ \A n \in Nat : n # None
BY DEF None

LEMMA InitInv == Init => IInv
<1> SUFFICES ASSUME Init PROVE IInv  OBVIOUS
<1>1. <<>> \in Seq(Message) /\ <<>> \in Seq(Window) /\ Len(<<>>) = 0  OBVIOUS
<1>2. 1..0 = {}  OBVIOUS
<1>3. Types  BY <1>1 DEF Init, Types, Stages, Time
<1>4. \A p \in Procs : Said(p) = {}  BY <1>1, <1>2 DEF Init, Said, Sent
<1>5. ASSUME NEW p \in Procs PROVE LocalInv(p) /\ ProcInv(p)
  <2>1. LocalInv(p)  BY DEF Init, LocalInv
  <2>2. PlaceInv(p)  BY <1>4 DEF Init, PlaceInv
  <2>3. MailInv(p)  BY <1>4 DEF Init, MailInv, SentSchedule, SentWindow
  <2>4. LateInv(p)  BY DEF Init, LateInv
  <2>5. SpeechInv(p)
    BY <1>1, <1>2 DEF Init, SpeechInv, QueueOK, NoLateness, SaidOnce, InOrder, RateIn
  <2> QED BY <2>1, <2>2, <2>3, <2>4, <2>5 DEF ProcInv
<1>6. RunInv  BY DEF Init, RunInv
<1>7. NothingRejected /\ OneWindow  BY DEF Init, NothingRejected, OneWindow
<1> QED BY <1>3, <1>5, <1>6, <1>7 DEF IInv

-----------------------------------------------------------------------------
(* The processes                                                           *)

(* A step of one process leaves the runner and the others alone.           *)
LEMMA ProcessFrame ==
  ASSUME IInv, Open, NEW p \in Procs, UNCHANGED <<steadyWarmup, clock, runnerVars>>,
         \A d \in Procs \ {p} :
           /\ toRunner'[d] = toRunner[d] /\ toProc'[d] = toProc[d]
           /\ pc'[d] = pc[d] /\ start'[d] = start[d] /\ final'[d] = final[d]
           /\ missed'[d] = missed[d] /\ opened'[d] = opened[d],
         Types', LocalInv(p)', PlaceInv(p)', MailInv(p)', LateInv(p)', SpeechInv(p)'
  PROVE  IInv'
<1> USE DEF runnerVars
<1>1. Open' /\ NothingRejected' /\ OneWindow'  BY DEF Open, NothingRejected, OneWindow
<1>2. RunInv'  BY DEF IInv, RunInv, AllTold
<1>3. ASSUME NEW d \in Procs, d # p PROVE LocalInv(d)' /\ ProcInv(d)'
  <2>1. d \in Procs \ {p} /\ ProcInv(d) /\ LocalInv(d)  BY <1>3 DEF IInv
  <2>2. Said(d)' = Said(d)  BY <2>1 DEF Said
  <2>3. LocalInv(d)'  BY <2>1 DEF LocalInv
  <2>4. PlaceInv(d)'  BY <2>1, <2>2 DEF ProcInv, PlaceInv
  <2>5. MailInv(d)'
    BY <2>1, <2>2 DEF ProcInv, MailInv, SentSchedule, SentWindow, InForce, AllTold
  <2>6. LateInv(d)' /\ SpeechInv(d)'  BY <2>1 DEF ProcInv, LateInv, SpeechInv
  <2> QED BY <2>3, <2>4, <2>5, <2>6 DEF ProcInv
<1>4. ProcInv(p)'  BY DEF ProcInv
<1> QED BY <1>1, <1>2, <1>3, <1>4 DEF IInv

(* What a process says next is in its turn.                                *)
LEMMA Says ==
  ASSUME IInv, Open, NEW p \in Procs, NEW q \in Seq(Message), NEW m \in Message,
         told' = told, toRunner' = [toRunner EXCEPT ![p] = Append(q, m)],
         QueueOK(q, told[p]), Sent(q, told[p]) = Said(p),
         LateIn(toRunner[p]) => LateIn(q), RateIn(q) => p # Server,
         m.late => m.type \in Acks, m.type = "rate" => p # Server,
         m.type \notin Said(p), Before[m.type] \subseteq Said(p)
  PROVE  /\ toRunner' \in [Procs -> Seq(Message)]
         /\ \A d \in Procs \ {p} : toRunner'[d] = toRunner[d]
         /\ SpeechInv(p)'
         /\ Said(p)' = Said(p) \union ({m.type} \intersect Once)
         /\ LateIn(toRunner[p]) \/ m.late => LateIn(toRunner'[p])
<1>1. toRunner \in [Procs -> Seq(Message)] /\ told[p] \in SUBSET Once  BY DEF IInv, Types
<1>2. toRunner'[p] = Append(q, m) /\ told'[p] = told[p]  BY <1>1
<1>3. /\ Append(q, m) \in Seq(Message) /\ QueueOK(Append(q, m), told[p])
      /\ Sent(Append(q, m), told[p]) = Said(p) \union ({m.type} \intersect Once)
  <2> DEFINE T == told[p]
  <2>1. T \in SUBSET Once /\ QueueOK(q, T) /\ Sent(q, T) = Said(p)  BY <1>1
  <2> HIDE DEF T
  <2>2. m.type \notin Sent(q, T) /\ Before[m.type] \subseteq Sent(q, T)  BY <2>1
  <2>3. /\ Append(q, m) \in Seq(Message) /\ QueueOK(Append(q, m), T)
        /\ Sent(Append(q, m), T) = Sent(q, T) \union ({m.type} \intersect Once)
    BY <2>1, <2>2, QueueAppend
  <2> QED BY <2>1, <2>3 DEF T
<1>4. /\ LateIn(Append(q, m)) <=> (LateIn(q) \/ m.late)
      /\ RateIn(Append(q, m)) <=> (RateIn(q) \/ m.type = "rate")
  BY AppendCarries
<1>5. toRunner' \in [Procs -> Seq(Message)] /\ \A d \in Procs \ {p} : toRunner'[d] = toRunner[d]
  BY <1>1, <1>3
<1>6. SpeechInv(p)'  BY <1>2, <1>3, <1>4 DEF SpeechInv
<1>7. Said(p)' = Said(p) \union ({m.type} \intersect Once)  BY <1>2, <1>3 DEF Said
<1>8. LateIn(toRunner[p]) \/ m.late => LateIn(toRunner'[p])  BY <1>2, <1>4
<1> QED BY <1>5, <1>6, <1>7, <1>8

LEMMA Tells ==
  ASSUME IInv, Open, NEW p \in Procs, NEW m \in Message, told' = told, Tell(p, m),
         m.late => m.type \in Acks, m.type # "rate",
         m.type \notin Said(p), Before[m.type] \subseteq Said(p)
  PROVE  /\ toRunner' \in [Procs -> Seq(Message)]
         /\ \A d \in Procs \ {p} : toRunner'[d] = toRunner[d]
         /\ SpeechInv(p)'
         /\ Said(p)' = Said(p) \union ({m.type} \intersect Once)
         /\ LateIn(toRunner[p]) \/ m.late => LateIn(toRunner'[p])
<1>1. toRunner[p] \in Seq(Message)  BY DEF IInv, Types
<1>2. QueueOK(toRunner[p], told[p]) /\ (RateIn(toRunner[p]) => p # Server)
  BY DEF IInv, ProcInv, SpeechInv
<1>3. toRunner' = [toRunner EXCEPT ![p] = Append(toRunner[p], m)]  BY DEF Tell
<1>4. Sent(toRunner[p], told[p]) = Said(p)  BY DEF Said
<1> QED BY <1>1, <1>2, <1>3, <1>4, Says

(* The mail of a process that reads none                                   *)
LEMMA MailKeeps ==
  ASSUME NEW p \in Procs, MailInv(p), UNCHANGED <<steadyWarmup, clock, runnerVars>>,
         toProc'[p] = toProc[p], start'[p] = start[p],
         "window_ack" \in Said(p)' => "window_ack" \in Said(p)
  PROVE  MailInv(p)'
BY DEF MailInv, SentSchedule, SentWindow, InForce, AllTold, runnerVars

LEMMA Facts ==
  ASSUME IInv, Open, NEW p \in Procs
  PROVE  /\ PlaceInv(p) /\ MailInv(p) /\ LateInv(p) /\ SpeechInv(p) /\ LocalInv(p) /\ RunInv
         /\ now[p] \in Time /\ start[p] \in Time /\ toProc[p] \in Seq(Window)
         /\ final[p] \in BOOLEAN /\ missed[p] \in BOOLEAN /\ clock \in Nat
         /\ schedule \in Time /\ sending \in Time
BY DEF IInv, ProcInv, Types

LEMMA HelloStep == ASSUME IInv, NEW p \in Procs, Hello(p) PROVE IInv'
<1> DEFINE m == Msg("hello")
<1>1. /\ Open /\ pc[p] = "begin" /\ Tell(p, m) /\ pc' = [pc EXCEPT ![p] = "connecting"]
      /\ UNCHANGED <<steadyWarmup, clock, runnerVars, toProc, now, start, final, missed, opened>>
  BY DEF Hello
<1>2. told' = told  BY <1>1 DEF runnerVars
<1>3. m \in Message /\ ~m.late /\ m.type = "hello" /\ Before["hello"] = {}
  BY DEF Msg, Message, Once, Before
<1>4. Said(p) = {} /\ opened[p] = {} /\ ~final[p]  BY <1>1, Facts DEF PlaceInv, LocalInv
<1> HIDE DEF m
<1>5. /\ toRunner' \in [Procs -> Seq(Message)]
      /\ \A d \in Procs \ {p} : toRunner'[d] = toRunner[d]
      /\ SpeechInv(p)' /\ Said(p)' = Said(p) \union ({"hello"} \intersect Once)
      /\ LateIn(toRunner[p]) => LateIn(toRunner'[p])
  BY <1>1, <1>2, <1>3, <1>4, Tells
<1>6. Said(p)' = {"hello"}  BY <1>4, <1>5 DEF Once
<1>7. Types'  BY <1>1, <1>5 DEF IInv, Types, runnerVars
<1>8. pc'[p] = "connecting" /\ \A d \in Procs \ {p} : pc'[d] = pc[d]  BY <1>1 DEF IInv, Types
<1>9. LocalInv(p)'  BY <1>1, <1>4 DEF LocalInv
<1>10. PlaceInv(p)'  BY <1>1, <1>4, <1>6, <1>8, Facts DEF PlaceInv
<1>11. MailInv(p)'  BY <1>1, <1>6, Facts, MailKeeps
<1>12. LateInv(p)'  BY <1>1, <1>5, Facts DEF LateInv, runnerVars
<1> QED BY <1>1, <1>5, <1>7, <1>8, <1>9, <1>10, <1>11, <1>12, ProcessFrame

LEMMA ReadyStep == ASSUME IInv, NEW p \in Procs, Ready(p) PROVE IInv'
<1> DEFINE m == Msg("ready")
<1>1. /\ Open /\ pc[p] = "connecting" /\ Tell(p, m) /\ pc' = [pc EXCEPT ![p] = "waiting"]
      /\ UNCHANGED <<steadyWarmup, clock, runnerVars, toProc, now, start, final, missed, opened>>
  BY DEF Ready
<1>2. told' = told  BY <1>1 DEF runnerVars
<1>3. m \in Message /\ ~m.late /\ m.type = "ready" /\ Before["ready"] = {"hello"}
  BY DEF Msg, Message, Once, Before
<1>4. Said(p) = {"hello"} /\ opened[p] = {} /\ ~final[p]  BY <1>1, Facts DEF PlaceInv, LocalInv
<1> HIDE DEF m
<1>5. /\ toRunner' \in [Procs -> Seq(Message)]
      /\ \A d \in Procs \ {p} : toRunner'[d] = toRunner[d]
      /\ SpeechInv(p)' /\ Said(p)' = Said(p) \union ({"ready"} \intersect Once)
      /\ LateIn(toRunner[p]) => LateIn(toRunner'[p])
  BY <1>1, <1>2, <1>3, <1>4, Tells
<1>6. Said(p)' = {"hello", "ready"}  BY <1>4, <1>5 DEF Once
<1>7. Types'  BY <1>1, <1>5 DEF IInv, Types, runnerVars
<1>8. pc'[p] = "waiting" /\ \A d \in Procs \ {p} : pc'[d] = pc[d]  BY <1>1 DEF IInv, Types
<1>9. LocalInv(p)'  BY <1>1, <1>4 DEF LocalInv
<1>10. PlaceInv(p)'  BY <1>1, <1>4, <1>6, <1>8, Facts DEF PlaceInv
<1>11. MailInv(p)'  BY <1>1, <1>6, Facts, MailKeeps
<1>12. LateInv(p)'  BY <1>1, <1>5, Facts DEF LateInv, runnerVars
<1> QED BY <1>1, <1>5, <1>7, <1>8, <1>9, <1>10, <1>11, <1>12, ProcessFrame

LEMMA DoneStep == ASSUME IInv, NEW p \in Procs, Done(p) PROVE IInv'
<1> DEFINE m == Msg("done")
<1>1. /\ Open /\ pc[p] = "running" /\ Tell(p, m) /\ pc' = [pc EXCEPT ![p] = "done"]
      /\ UNCHANGED <<steadyWarmup, clock, runnerVars, toProc, now, start, final, missed, opened>>
  BY DEF Done
<1>2. told' = told  BY <1>1 DEF runnerVars
<1>3. m \in Message /\ ~m.late /\ m.type = "done" /\ Before["done"] = {"hello", "sched_ack"}
  BY DEF Msg, Message, Once, Before
<1>4. {"hello", "ready", "sched_ack"} \subseteq Said(p) /\ "done" \notin Said(p)
  BY <1>1, Facts DEF PlaceInv
<1> HIDE DEF m
<1>5. /\ toRunner' \in [Procs -> Seq(Message)]
      /\ \A d \in Procs \ {p} : toRunner'[d] = toRunner[d]
      /\ SpeechInv(p)' /\ Said(p)' = Said(p) \union ({"done"} \intersect Once)
      /\ LateIn(toRunner[p]) => LateIn(toRunner'[p])
  BY <1>1, <1>2, <1>3, <1>4, Tells
<1>6. Said(p)' = Said(p) \union {"done"}  BY <1>5 DEF Once
<1>7. Types'  BY <1>1, <1>5 DEF IInv, Types, runnerVars
<1>8. pc'[p] = "done" /\ \A d \in Procs \ {p} : pc'[d] = pc[d]  BY <1>1 DEF IInv, Types
<1>9. LocalInv(p)'  BY <1>1, <1>8, Facts DEF LocalInv
<1>10. PlaceInv(p)'  BY <1>1, <1>4, <1>6, <1>8, Facts DEF PlaceInv
<1>11. MailInv(p)'  BY <1>1, <1>6, Facts, MailKeeps
<1>12. LateInv(p)'  BY <1>1, <1>5, Facts DEF LateInv, runnerVars
<1> QED BY <1>1, <1>5, <1>7, <1>8, <1>9, <1>10, <1>11, <1>12, ProcessFrame

(* A step in which a process says nothing and reads nothing                *)
LEMMA SilentFrame ==
  ASSUME IInv, Open, NEW p \in Procs, UNCHANGED <<steadyWarmup, clock, runnerVars>>,
         \A d \in Procs \ {p} :
           pc'[d] = pc[d] /\ final'[d] = final[d] /\ opened'[d] = opened[d],
         UNCHANGED <<toRunner, toProc, start, missed>>,
         Types', LocalInv(p)', pc'[p] \in {pc[p], "failed"}, final[p] => final'[p]
  PROVE  IInv'
<1>1. Said(p)' = Said(p)  BY DEF Said, runnerVars
<1>2. PlaceInv(p)'  BY <1>1, Facts DEF PlaceInv
<1>3. MailInv(p)'  BY <1>1, Facts, MailKeeps
<1>4. LateInv(p)' /\ SpeechInv(p)'  BY Facts DEF LateInv, SpeechInv, runnerVars
<1> QED BY <1>2, <1>3, <1>4, ProcessFrame

LEMMA LookAtClockStep == ASSUME IInv, NEW p \in Procs, LookAtClock(p) PROVE IInv'
<1> USE DEF LookAtClock
<1>1. Types'  BY DEF IInv, Types, runnerVars, Time
<1>2. LocalInv(p)'  BY Facts DEF LocalInv
<1> QED BY <1>1, <1>2, SilentFrame

LEMMA ExitStep == ASSUME IInv, NEW p \in Procs, Exit(p) PROVE IInv'
<1> USE DEF Exit
<1>1. Types'  BY DEF IInv, Types, runnerVars
<1>2. pc'[p] = "failed" /\ \A d \in Procs \ {p} : pc'[d] = pc[d]  BY DEF IInv, Types
<1>3. LocalInv(p)'  BY <1>2, Facts DEF LocalInv
<1> QED BY <1>1, <1>2, <1>3, SilentFrame

LEMMA MeasureStep == ASSUME IInv, NEW p \in Procs, Measure(p) PROVE IInv'
<1> USE DEF Measure, EndIteration, Iterating
<1>1. opened' \in {opened, [opened EXCEPT ![p] = @ \union {start[p]}]}  OBVIOUS
<1>2. /\ opened' \in [Procs -> SUBSET Time] /\ opened'[p] \subseteq opened[p] \union {start[p]}
      /\ \A d \in Procs \ {p} : opened'[d] = opened[d]
  BY <1>1, Facts DEF IInv, Types
<1>3. /\ final' \in [Procs -> BOOLEAN] /\ final'[p] = TRUE
      /\ \A d \in Procs \ {p} : final'[d] = final[d]
  BY DEF IInv, Types
<1>4. now' \in [Procs -> Time]  BY DEF IInv, Types, Time
<1>5. Types'  BY <1>2, <1>3, <1>4 DEF IInv, Types, runnerVars
<1>6. LocalInv(p)'  BY <1>2, <1>3, Facts DEF LocalInv
<1> QED BY <1>2, <1>3, <1>5, <1>6, SilentFrame

(* What a process goes by after it has read the first of its mail          *)
LEMMA Adopts ==
  ASSUME IInv, Open, NEW p \in Procs, toProc[p] # <<>>, NEW ack, Adopt(p, ack),
         UNCHANGED <<steadyWarmup, clock, runnerVars>>,
         start[p] # None => "window_ack" \notin Said(p)
  PROVE  /\ start' \in [Procs -> Time] /\ toProc' \in [Procs -> Seq(Window)]
         /\ missed' \in [Procs -> BOOLEAN]
         /\ \A d \in Procs \ {p} :
              start'[d] = start[d] /\ toProc'[d] = toProc[d] /\ missed'[d] = missed[d]
         /\ start'[p] # None /\ start'[p] \in Nat /\ (missed'[p] <=> ack.late)
         /\ ack.late \in BOOLEAN
         /\ ack.type = IF pc[p] = "waiting" THEN "sched_ack" ELSE "window_ack"
         /\ SentSchedule(p)
         /\ start[p] # None => SentWindow(p) /\ toProc'[p] = <<>> /\ start'[p] = InForce
         /\ start[p] = None /\ ~SentWindow(p) => toProc'[p] = <<>> /\ start'[p] = schedule
         /\ start[p] = None /\ SentWindow(p) =>
              Len(toProc'[p]) = 1 /\ toProc'[p][1].start = InForce
<1> DEFINE q == toProc[p]
           s == Head(q).start
<1>1. q \in Seq(Window) /\ q # <<>>  BY Facts
<1>2. /\ Head(q) \in Window /\ Head(q) = q[1] /\ Tail(q) \in Seq(Window)
      /\ Len(q) \in Nat /\ Len(q) > 0 /\ Len(Tail(q)) = Len(q) - 1
      /\ \A i \in 1..Len(Tail(q)) : Tail(q)[i] = q[i + 1]
  BY <1>1, HeadTailProperties
<1>3. s \in Nat /\ s # None  BY <1>2, NoneIsNoTime DEF Window
<1>4. ASSUME Len(q) = 1 PROVE Tail(q) = <<>>
  <2>1. Len(Tail(q)) = 0  BY <1>2, <1>4
  <2> QED BY <1>2, <2>1, EmptySeq
<1>5. Len(q) = 2 => Len(Tail(q)) = 1 /\ Tail(q)[1] = q[2]  BY <1>2
<1>6. /\ start' = [start EXCEPT ![p] = s] /\ missed' = [missed EXCEPT ![p] = s < clock]
      /\ toProc' = [toProc EXCEPT ![p] = Tail(q)]
      /\ ack = [type |-> IF pc[p] = "waiting" THEN "sched_ack" ELSE "window_ack", late |-> s < clock]
  BY DEF Adopt
<1> HIDE DEF s, q
<1>7. /\ start' \in [Procs -> Time] /\ toProc' \in [Procs -> Seq(Window)]
      /\ missed' \in [Procs -> BOOLEAN]
  BY <1>2, <1>3, <1>6 DEF IInv, Types, Time, q
<1>8. /\ start'[p] = s /\ toProc'[p] = Tail(q) /\ missed'[p] = (s < clock)
      /\ \A d \in Procs \ {p} :
           start'[d] = start[d] /\ toProc'[d] = toProc[d] /\ missed'[d] = missed[d]
  BY <1>6 DEF IInv, Types, q
<1>9. MailInv(p) /\ q = toProc[p]  BY Facts DEF q
<1>10. SentSchedule(p)  BY <1>1, <1>9 DEF MailInv
<1>11. ASSUME ~SentWindow(p) PROVE start[p] = None /\ Len(q) = 1 /\ q[1].start = schedule
  BY <1>1, <1>9, <1>10, <1>11 DEF MailInv
<1>12. ASSUME SentWindow(p)
       PROVE  \/ Len(q) = 1 /\ start[p] # None /\ q[1].start = InForce
              \/ Len(q) = 2 /\ start[p] = None /\ q[2].start = InForce
  BY <1>1, <1>9, <1>12 DEF MailInv
<1>13. s = q[1].start  BY <1>2 DEF s
<1>14. start[p] # None => SentWindow(p) /\ Tail(q) = <<>> /\ s = InForce
  BY <1>4, <1>11, <1>12, <1>13
<1>15. start[p] = None /\ ~SentWindow(p) => Tail(q) = <<>> /\ s = schedule
  BY <1>4, <1>11, <1>13
<1>16. start[p] = None /\ SentWindow(p) => Len(Tail(q)) = 1 /\ Tail(q)[1].start = InForce
  BY <1>5, <1>12
<1>17. ack.late = (s < clock) /\ ack.late \in BOOLEAN
       /\ ack.type = IF pc[p] = "waiting" THEN "sched_ack" ELSE "window_ack"
  BY <1>6
<1> QED BY <1>3, <1>7, <1>8, <1>10, <1>14, <1>15, <1>16, <1>17

LEMMA ReadScheduleStep == ASSUME IInv, NEW p \in Procs, ReadSchedule(p) PROVE IInv'
<1>1. /\ Open /\ pc[p] = "waiting" /\ toProc[p] # <<>> /\ pc' = [pc EXCEPT ![p] = "running"]
      /\ UNCHANGED <<steadyWarmup, clock, runnerVars, now, final, opened>>
  BY DEF ReadSchedule
<1>2. PICK ack \in [type : {"sched_ack"}, late : BOOLEAN] : Adopt(p, ack) /\ Tell(p, ack)
  BY DEF ReadSchedule
<1>3. /\ Said(p) = {"hello", "ready"} /\ start[p] = None /\ opened[p] = {} /\ ~final[p]
  BY <1>1, Facts DEF PlaceInv, LocalInv
<1>4. ack \in Message /\ ack.type = "sched_ack" /\ "sched_ack" \in Acks
      /\ Before["sched_ack"] = {"hello", "ready"}
  BY <1>2 DEF Message, Once, Acks, Before
<1>5. told' = told  BY <1>1 DEF runnerVars
<1>6. /\ toRunner' \in [Procs -> Seq(Message)]
      /\ \A d \in Procs \ {p} : toRunner'[d] = toRunner[d]
      /\ SpeechInv(p)' /\ Said(p)' = Said(p) \union ({"sched_ack"} \intersect Once)
      /\ LateIn(toRunner[p]) \/ ack.late => LateIn(toRunner'[p])
  BY <1>1, <1>2, <1>3, <1>4, <1>5, Tells
<1>7. Said(p)' = {"hello", "ready", "sched_ack"}  BY <1>3, <1>6 DEF Once
<1>8. /\ start' \in [Procs -> Time] /\ toProc' \in [Procs -> Seq(Window)]
      /\ missed' \in [Procs -> BOOLEAN]
      /\ \A d \in Procs \ {p} :
           start'[d] = start[d] /\ toProc'[d] = toProc[d] /\ missed'[d] = missed[d]
      /\ start'[p] # None /\ (missed'[p] <=> ack.late) /\ SentSchedule(p)
      /\ ~SentWindow(p) => toProc'[p] = <<>> /\ start'[p] = schedule
      /\ SentWindow(p) => Len(toProc'[p]) = 1 /\ toProc'[p][1].start = InForce
  BY <1>1, <1>2, <1>3, Adopts
<1>9. pc'[p] = "running" /\ \A d \in Procs \ {p} : pc'[d] = pc[d]  BY <1>1 DEF IInv, Types
<1>10. Types'  BY <1>1, <1>6, <1>8 DEF IInv, Types, runnerVars
<1>11. LocalInv(p)'  BY <1>1, <1>3, <1>9 DEF LocalInv
<1>12. PlaceInv(p)'  BY <1>7, <1>8, <1>9 DEF PlaceInv
<1>13. MailInv(p)'
  <2>1. SentSchedule(p)' /\ (SentWindow(p)' <=> SentWindow(p)) /\ InForce' = InForce
        /\ schedule' = schedule
    BY <1>1, <1>8 DEF SentSchedule, SentWindow, InForce, AllTold, runnerVars
  <2>2. "window_ack" \notin Said(p)'  BY <1>7
  <2> QED BY <1>8, <2>1, <2>2 DEF MailInv
<1>14. LateInv(p)'  BY <1>6, <1>8 DEF LateInv
<1> QED BY <1>1, <1>6, <1>8, <1>9, <1>10, <1>11, <1>12, <1>13, <1>14, ProcessFrame

(* The reports of a client do not change what it has said once.            *)
LEMMA Reports ==
  ASSUME IInv, Open, NEW p \in Procs, pc[p] = "running", NEW q, q = toRunner[p] \o Report(p)
  PROVE  /\ q \in Seq(Message) /\ QueueOK(q, told[p]) /\ Sent(q, told[p]) = Said(p)
         /\ LateIn(toRunner[p]) => LateIn(q)
         /\ RateIn(q) => p # Server
<1>1. toRunner[p] \in Seq(Message) /\ told[p] \in SUBSET Once  BY DEF IInv, Types
<1>2. QueueOK(toRunner[p], told[p]) /\ (RateIn(toRunner[p]) => p # Server)
  BY Facts DEF SpeechInv
<1>3. CASE ~ReportDue(p)
  <2>1. q = toRunner[p]  BY <1>1, <1>3, ConcatEmptySeq DEF Report
  <2> QED BY <1>1, <1>2, <2>1 DEF Said
<1>4. CASE ReportDue(p)
  <2> DEFINE m == Msg("rate")
  <2>1. m \in Message /\ ~m.late /\ m.type = "rate" /\ Before["rate"] = {"hello"}
        /\ "rate" \notin Once
    BY DEF Msg, Message, Once, Before
  <2> HIDE DEF m
  <2>2. q = toRunner[p] \o <<m>>  BY <1>4 DEF Report, m
  <2>3. q = Append(toRunner[p], m)  BY <1>1, <2>1, <2>2, AppendIsConcat
  <2>4. m.type \notin Said(p) /\ Before[m.type] \subseteq Said(p)
    BY <2>1, Facts DEF PlaceInv, Said, Sent
  <2>5. /\ q \in Seq(Message) /\ QueueOK(q, told[p])
        /\ Sent(q, told[p]) = Said(p) \union ({m.type} \intersect Once)
    <3> DEFINE r == toRunner[p]
               T == told[p]
    <3>1. r \in Seq(Message) /\ T \in SUBSET Once /\ QueueOK(r, T) /\ Sent(r, T) = Said(p)
      BY <1>1, <1>2 DEF Said
    <3>2. q = Append(r, m)  BY <2>3
    <3> HIDE DEF r, T
    <3>3. m.type \notin Sent(r, T) /\ Before[m.type] \subseteq Sent(r, T)  BY <2>4, <3>1
    <3>4. /\ Append(r, m) \in Seq(Message) /\ QueueOK(Append(r, m), T)
          /\ Sent(Append(r, m), T) = Sent(r, T) \union ({m.type} \intersect Once)
      BY <2>1, <3>1, <3>3, QueueAppend
    <3> QED BY <3>1, <3>2, <3>4 DEF T
  <2>6. /\ LateIn(toRunner[p]) => LateIn(q)
    BY <1>1, <2>1, <2>3, AppendCarries
  <2>7. p # Server  BY <1>4 DEF ReportDue
  <2> QED BY <2>1, <2>5, <2>6, <2>7
<1> QED BY <1>3, <1>4

LEMMA CountDownStep == ASSUME IInv, NEW p \in Procs, CountDown(p) PROVE IInv'
<1>1. /\ Open /\ pc[p] = "running" /\ now[p] # None /\ ~IsFinal(p)
      /\ toRunner' = [toRunner EXCEPT ![p] = toRunner[p] \o Report(p)]
      /\ now' = [now EXCEPT ![p] = None]
      /\ UNCHANGED <<steadyWarmup, clock, runnerVars, toProc, pc, start, final, missed>>
  BY DEF CountDown, EndIteration, Iterating
<1>2. opened' = opened
  <2>1. now[p] \in Nat /\ start[p] \in Time /\ ~(now[p] >= start[p])
    BY <1>1, Facts DEF IsFinal, Time
  <2>2. ~(start[p] <= now[p])  BY <2>1, NoneIsNoTime DEF Time, None
  <2>3. start' = start  BY <1>1
  <2> QED BY <2>2, <2>3 DEF CountDown, EndIteration
<1> DEFINE q == toRunner[p] \o Report(p)
<1>3. /\ q \in Seq(Message) /\ QueueOK(q, told[p]) /\ Sent(q, told[p]) = Said(p)
      /\ LateIn(toRunner[p]) => LateIn(q)
      /\ RateIn(q) => p # Server
  BY <1>1, Reports
<1> HIDE DEF q
<1>4. /\ toRunner' \in [Procs -> Seq(Message)] /\ toRunner'[p] = q
      /\ \A d \in Procs \ {p} : toRunner'[d] = toRunner[d]
  BY <1>1, <1>3 DEF IInv, Types, q
<1>5. Said(p)' = Said(p) /\ SpeechInv(p)'
  BY <1>1, <1>3, <1>4 DEF Said, SpeechInv, runnerVars
<1>6. now' \in [Procs -> Time]  BY <1>1 DEF IInv, Types, Time
<1>7. Types'  BY <1>1, <1>2, <1>4, <1>6 DEF IInv, Types, runnerVars
<1>8. LocalInv(p)'  BY <1>1, <1>2, Facts DEF LocalInv
<1>9. PlaceInv(p)'  BY <1>1, <1>5, Facts DEF PlaceInv
<1>10. MailInv(p)'  BY <1>1, <1>5, Facts, MailKeeps
<1>11. LateInv(p)'  BY <1>1, <1>3, <1>4, Facts DEF LateInv, runnerVars
<1> QED BY <1>1, <1>2, <1>4, <1>5, <1>7, <1>8, <1>9, <1>10, <1>11, ProcessFrame

LEMMA TakeWindowStep == ASSUME IInv, NEW p \in Procs, TakeWindow(p) PROVE IInv'
<1> DEFINE q == toRunner[p] \o Report(p)
<1>1. /\ Open /\ pc[p] = "running" /\ now[p] # None /\ ~IsFinal(p) /\ toProc[p] # <<>>
      /\ final' = [final EXCEPT ![p] = TRUE] /\ now' = [now EXCEPT ![p] = None]
      /\ opened' \in {opened, [opened EXCEPT ![p] = @ \union {start'[p]}]}
      /\ UNCHANGED <<steadyWarmup, clock, runnerVars, pc>>
  BY DEF TakeWindow, EndIteration, Iterating
<1>2. PICK ack \in [type : {"window_ack"}, late : BOOLEAN] :
        Adopt(p, ack) /\ toRunner' = [toRunner EXCEPT ![p] = q \o <<ack>>]
  BY DEF TakeWindow
<1>3. ack \in Message /\ ack.type = "window_ack" /\ "window_ack" \in Acks
      /\ Before["window_ack"] = {"hello"}
  BY <1>2 DEF Message, Once, Acks, Before
<1>4. /\ q \in Seq(Message) /\ QueueOK(q, told[p]) /\ Sent(q, told[p]) = Said(p)
      /\ LateIn(toRunner[p]) => LateIn(q)
      /\ RateIn(q) => p # Server
  BY <1>1, Reports
<1> HIDE DEF q
<1>5. q \o <<ack>> = Append(q, ack)  BY <1>3, <1>4, AppendIsConcat
<1>6. /\ ~final[p] /\ opened[p] = {} /\ start[p] # None /\ "window_ack" \notin Said(p)
      /\ {"hello", "ready", "sched_ack"} \subseteq Said(p) /\ "done" \notin Said(p)
  BY <1>1, Facts DEF IsFinal, LocalInv, PlaceInv
<1>7. /\ told' = told /\ toRunner' = [toRunner EXCEPT ![p] = Append(q, ack)]
      /\ ack.type \notin Said(p) /\ Before[ack.type] \subseteq Said(p)
      /\ (ack.late => ack.type \in Acks) /\ (ack.type = "rate" => p # Server)
  BY <1>1, <1>2, <1>3, <1>5, <1>6 DEF runnerVars
<1>8. /\ toRunner' \in [Procs -> Seq(Message)]
      /\ \A d \in Procs \ {p} : toRunner'[d] = toRunner[d]
      /\ SpeechInv(p)' /\ Said(p)' = Said(p) \union ({"window_ack"} \intersect Once)
      /\ LateIn(toRunner[p]) \/ ack.late => LateIn(toRunner'[p])
  <2>1. Open /\ ack \in Message /\ ack.type = "window_ack"  BY <1>1, <1>3
  <2> QED BY <1>4, <1>7, <2>1, Says
<1>9. Said(p)' = Said(p) \union {"window_ack"}  BY <1>8 DEF Once
<1>10. /\ start' \in [Procs -> Time] /\ toProc' \in [Procs -> Seq(Window)]
       /\ missed' \in [Procs -> BOOLEAN]
       /\ \A d \in Procs \ {p} :
            start'[d] = start[d] /\ toProc'[d] = toProc[d] /\ missed'[d] = missed[d]
       /\ start'[p] # None /\ start'[p] \in Nat /\ (missed'[p] <=> ack.late) /\ SentSchedule(p)
       /\ SentWindow(p) /\ toProc'[p] = <<>> /\ start'[p] = InForce
  BY <1>1, <1>2, <1>6, Adopts
<1>11. /\ final' \in [Procs -> BOOLEAN] /\ final'[p] = TRUE
       /\ \A d \in Procs \ {p} : final'[d] = final[d]
       /\ now' \in [Procs -> Time]
  BY <1>1 DEF IInv, Types, Time
<1>12. /\ opened' \in [Procs -> SUBSET Time] /\ opened'[p] \subseteq {start'[p]}
       /\ \A d \in Procs \ {p} : opened'[d] = opened[d]
  <2>1. opened \in [Procs -> SUBSET Time] /\ start'[p] \in Time
    BY <1>10 DEF IInv, Types, Time
  <2>2. CASE opened' = opened  BY <1>6, <2>1, <2>2
  <2>3. CASE opened' = [opened EXCEPT ![p] = @ \union {start'[p]}]  BY <1>6, <2>1, <2>3
  <2> QED BY <1>1, <2>2, <2>3
<1>13. Types'  BY <1>1, <1>8, <1>10, <1>11, <1>12 DEF IInv, Types, runnerVars
<1>14. pc' = pc  BY <1>1
<1>15. LocalInv(p)'  BY <1>1, <1>11, <1>12, <1>14 DEF LocalInv
<1>16. PlaceInv(p)'  BY <1>1, <1>6, <1>9, <1>10, <1>11, <1>14 DEF PlaceInv
<1>17. MailInv(p)'
  <2>1. SentSchedule(p)' /\ SentWindow(p)' /\ InForce' = InForce
    BY <1>1, <1>10 DEF SentSchedule, SentWindow, InForce, AllTold, runnerVars
  <2> QED BY <1>10, <2>1 DEF MailInv
<1>18. LateInv(p)'  BY <1>8, <1>10 DEF LateInv
<1> QED
  BY <1>1, <1>8, <1>10, <1>11, <1>12, <1>13, <1>14, <1>15, <1>16, <1>17, <1>18, ProcessFrame

-----------------------------------------------------------------------------
(* The runner                                                              *)

(* A step of the runner that receives nothing and does not return          *)
LEMMA RunnerFrame ==
  ASSUME IInv, Open, Types', RunInv', \A p \in Procs : MailInv(p)',
         UNCHANGED <<steadyWarmup, told, late, result, toRunner, procVars>>
  PROVE  IInv'
<1> USE DEF procVars
<1>1. Open' /\ NothingRejected' /\ OneWindow'  BY DEF Open, NothingRejected, OneWindow
<1>2. ASSUME NEW p \in Procs PROVE LocalInv(p)' /\ ProcInv(p)'
  <2>1. Said(p)' = Said(p)  BY DEF Said
  <2>2. LocalInv(p)'  BY Facts DEF LocalInv
  <2>3. PlaceInv(p)'  BY <2>1, Facts DEF PlaceInv
  <2>4. LateInv(p)' /\ SpeechInv(p)'  BY Facts DEF LateInv, SpeechInv
  <2> QED BY <2>2, <2>3, <2>4 DEF ProcInv
<1> QED BY <1>1, <1>2 DEF IInv

LEMMA SomeProcess == Server \in Procs
BY DEF Procs

(* Before the window was sent nobody has acknowledged it.                  *)
LEMMA NoAckYet ==
  ASSUME IInv, Open, NEW p \in Procs, ~SentWindow(p)
  PROVE  ~AllTold("window_ack")
<1>1. "window_ack" \notin Said(p)  BY Facts DEF MailInv
<1>2. "window_ack" \notin told[p]  BY <1>1 DEF Said, Sent, Once
<1> QED BY <1>2 DEF AllTold

(* The end of a run                                                        *)
LEMMA ReturnsStep ==
  ASSUME IInv, NEW r \in {"ok", "failed"}, Returns(r), r = "ok" => OneWindow'
  PROVE  IInv'
<1> USE DEF Returns
<1>1. <<>> \in Seq(Message) /\ <<>> \in Seq(Window)  OBVIOUS
<1>2. toRunner' \in [Procs -> Seq(Message)] /\ toProc' \in [Procs -> Seq(Window)]  BY <1>1
<1>3. Types'  BY <1>2 DEF IInv, Types, procVars
<1>4. ~Open' /\ NothingRejected'  BY DEF Open, NothingRejected
<1>5. OneWindow'  BY DEF OneWindow
<1>6. \A p \in Procs : LocalInv(p)'  BY DEF IInv, LocalInv, procVars
<1> QED BY <1>3, <1>4, <1>5, <1>6 DEF IInv

LEMMA FailedStep ==
  ASSUME IInv, Timeout \/ \E p \in Procs : NoticeExit(p) \/ SendFails(p)
  PROVE  IInv'
BY ReturnsStep DEF Timeout, NoticeExit, SendFails

(* A run in which everybody is done has one window, unless someone was     *)
(* late.                                                                   *)
LEMMA AllDoneStep == ASSUME IInv, AllDone PROVE IInv'
<1>1. /\ Open /\ stage = "done" /\ sending = None /\ Returns("ok")  BY DEF AllDone, Leaves
<1>2. /\ result' = "ok"
      /\ UNCHANGED <<late, schedule, published, start, missed, opened>>
  BY <1>1 DEF Returns, procVars
<1>3. published = schedule /\ AllTold("sched_ack") /\ InForce = schedule
  BY <1>1, SomeProcess, Facts DEF RunInv, InForce
<1>4. ASSUME ~late, NEW p \in Procs
      PROVE  start[p] = schedule /\ ~missed[p] /\ opened[p] \subseteq {schedule}
  <2>1. PlaceInv(p) /\ MailInv(p) /\ LateInv(p) /\ SpeechInv(p) /\ LocalInv(p)  BY <1>1, Facts
  <2>2. "sched_ack" \in told[p] /\ "sched_ack" \in Said(p)
    BY <1>3 DEF AllTold, Said, Sent, Once
  <2>3. start[p] # None /\ SentSchedule(p)  BY <1>1, <2>1, <2>2 DEF PlaceInv, SentSchedule
  <2>4. SentWindow(p) => "window_ack" \in told[p]  BY <1>1 DEF SentWindow, AllTold
  <2>5. "window_ack" \in told[p] => "window_ack" \in Said(p)  BY DEF Said, Sent, Once
  <2>6. start[p] = schedule
    <3>1. CASE ~SentWindow(p)  BY <2>1, <2>3, <3>1 DEF MailInv
    <3>2. CASE SentWindow(p)
      <4>1. toProc[p] = <<>> /\ Len(<<>>) = 0  BY <2>1, <2>4, <2>5, <3>2 DEF MailInv
      <4> QED BY <1>3, <2>1, <3>2, <4>1 DEF MailInv
    <3> QED BY <3>1, <3>2
  <2>7. ~LateIn(toRunner[p])
    <3> SUFFICES ASSUME NEW i \in 1..Len(toRunner[p]), toRunner[p][i].late PROVE FALSE
      BY DEF LateIn
    <3>1. toRunner[p][i].type \in Acks /\ toRunner[p][i].type \in Once
      BY <2>1 DEF SpeechInv, QueueOK, NoLateness, Acks, Once
    <3>2. toRunner[p][i].type \notin told[p]  BY <2>1, <3>1 DEF SpeechInv, QueueOK, SaidOnce
    <3>3. toRunner[p][i].type = "window_ack"  BY <2>2, <3>1, <3>2 DEF Acks
    <3>4. "window_ack" \in Said(p)  BY <3>1, <3>3 DEF Said, Sent
    <3>5. SentWindow(p)  BY <2>1, <3>4 DEF MailInv
    <3> QED BY <2>4, <3>2, <3>3, <3>5
  <2>8. ~missed[p]  BY <1>4, <2>1, <2>7 DEF LateInv
  <2> QED BY <2>1, <2>6, <2>8 DEF LocalInv
<1>5. OneWindow'  BY <1>2, <1>3, <1>4 DEF OneWindow
<1> QED BY <1>1, <1>5, ReturnsStep

LEMMA AllHereStep == ASSUME IInv, AllHere PROVE IInv'
<1> USE DEF AllHere, Leaves, KeepsRun, KeepsSending
<1>1. RunInv /\ sending = None /\ schedule = None  BY SomeProcess, Facts DEF RunInv
<1>2. Types'  BY DEF IInv, Types, Stages, procVars
<1>3. RunInv'  BY <1>1 DEF RunInv, AllTold
<1>4. ASSUME NEW p \in Procs PROVE MailInv(p)'
  <2>1. ~SentSchedule(p) /\ ~SentSchedule(p)' /\ ~SentWindow(p) /\ ~SentWindow(p)'
    BY <1>1 DEF SentSchedule, SentWindow
  <2>2. Said(p)' = Said(p) /\ toProc' = toProc /\ start' = start  BY DEF Said, procVars
  <2> QED BY <2>1, <2>2, Facts DEF MailInv
<1> QED BY <1>2, <1>3, <1>4, RunnerFrame

LEMMA IssueScheduleStep == ASSUME IInv, IssueSchedule PROVE IInv'
<1> USE DEF IssueSchedule, Leaves, StartSending, KeepsRun
<1>1. RunInv /\ clock + Warmup \in Nat /\ clock + Warmup # None
  BY SomeProcess, Facts, NoneIsNoTime DEF RunInv
<1>2. Types'  BY <1>1 DEF IInv, Types, procVars, Time
<1>3. RunInv'  BY <1>1 DEF RunInv, AllTold
<1>4. ASSUME NEW p \in Procs PROVE MailInv(p)'
  <2>1. ~SentSchedule(p) /\ ~SentSchedule(p)' /\ ~SentWindow(p) /\ ~SentWindow(p)'
    BY <1>1 DEF SentSchedule, SentWindow
  <2>2. Said(p)' = Said(p) /\ toProc' = toProc /\ start' = start  BY DEF Said, procVars
  <2> QED BY <2>1, <2>2, Facts DEF MailInv
<1> QED BY <1>2, <1>3, <1>4, RunnerFrame

LEMMA MoveWindowStep == ASSUME IInv, MoveWindow PROVE IInv'
<1> USE DEF MoveWindow, Leaves, StartSending, KeepsRun
<1>1. RunInv /\ clock + Guard \in Nat /\ clock + Guard # None
  BY SomeProcess, Facts, NoneIsNoTime DEF RunInv
<1>2. Types'  BY <1>1 DEF IInv, Types, procVars, Time
<1>3. RunInv'  BY <1>1 DEF RunInv, AllTold
<1>4. ASSUME NEW p \in Procs PROVE MailInv(p)'
  <2>1. SentSchedule(p) /\ SentSchedule(p)' /\ ~SentWindow(p) /\ ~SentWindow(p)'
    BY <1>1 DEF SentSchedule, SentWindow
  <2>2. Said(p)' = Said(p) /\ toProc' = toProc /\ start' = start /\ schedule' = schedule
    BY DEF Said, procVars
  <2> QED BY <2>1, <2>2, Facts DEF MailInv
<1> QED BY <1>2, <1>3, <1>4, RunnerFrame

LEMMA AllAckedStep == ASSUME IInv, AllAcked PROVE IInv'
<1> USE DEF AllAcked, Leaves, KeepsRun, KeepsSending
<1>1. RunInv  BY SomeProcess, Facts
<1>2. stage' \in {"window", "done"} /\ (stage' = "window" <=> steadyWarmup)
  BY DEF IInv, Types
<1>3. Types'  BY <1>2 DEF IInv, Types, Stages, procVars
<1>4. RunInv'  BY <1>1, <1>2 DEF RunInv, AllTold
<1>5. ASSUME NEW p \in Procs PROVE MailInv(p)'
  <2>1. SentSchedule(p) /\ SentSchedule(p)' /\ ~SentWindow(p)
    BY <1>2 DEF SentSchedule, SentWindow
  <2>2. ~SentWindow(p)'  BY <1>2, <2>1, NoAckYet DEF SentWindow, AllTold
  <2>3. Said(p)' = Said(p) /\ toProc' = toProc /\ start' = start /\ schedule' = schedule
    BY DEF Said, procVars
  <2> QED BY <2>1, <2>2, <2>3, Facts DEF MailInv
<1> QED BY <1>3, <1>4, <1>5, RunnerFrame

(* The provisional window is kept: for want of a steady state, or because  *)
(* it begins before a new one could.                                       *)
LEMMA WindowKeptStep == ASSUME IInv, KeepProvisional \/ CutOff PROVE IInv'
<1>1. /\ Open /\ stage = "window" /\ stage' = "done" /\ Publish(schedule)
      /\ UNCHANGED <<schedule, cutoff, result>> /\ KeepsRun /\ KeepsSending
      /\ sending = None
  <2>1. CASE KeepProvisional  BY <2>1 DEF KeepProvisional, Leaves
  <2>2. CASE CutOff
    <3>1. Open /\ ~settling  BY <2>2 DEF CutOff
    <3>2. sending = None  BY <3>1, SomeProcess, Facts DEF RunInv
    <3> QED BY <2>2, <3>2 DEF CutOff
  <2> QED BY <2>1, <2>2
<1> USE <1>1 DEF KeepsRun, KeepsSending
<1>2. RunInv  BY SomeProcess, Facts
<1>3. published' = schedule  BY <1>2 DEF RunInv, Publish
<1>4. Types'  BY DEF IInv, Types, Stages, procVars
<1>5. RunInv'  BY <1>2, <1>3 DEF RunInv, AllTold
<1>6. ASSUME NEW p \in Procs PROVE MailInv(p)'
  <2>1. SentSchedule(p) /\ SentSchedule(p)' /\ ~SentWindow(p)  BY DEF SentSchedule, SentWindow
  <2>2. ~SentWindow(p)'  BY <2>1, NoAckYet DEF SentWindow, AllTold
  <2>3. Said(p)' = Said(p) /\ toProc' = toProc /\ start' = start /\ schedule' = schedule
    BY DEF Said, procVars
  <2> QED BY <2>1, <2>2, <2>3, Facts DEF MailInv
<1> QED BY <1>4, <1>5, <1>6, RunnerFrame

LEMMA AllAckedWindowStep == ASSUME IInv, AllAckedWindow PROVE IInv'
<1> USE DEF AllAckedWindow, Leaves, KeepsRun, KeepsSending
<1>1. RunInv  BY SomeProcess, Facts
<1>2. Types'  BY DEF IInv, Types, Stages, procVars
<1>3. RunInv'  BY <1>1 DEF RunInv, AllTold
<1>4. ASSUME NEW p \in Procs PROVE MailInv(p)'
  <2>1. SentSchedule(p) /\ SentSchedule(p)' /\ SentWindow(p) /\ SentWindow(p)'
    BY DEF SentSchedule, SentWindow, WindowIsAcked, AllTold
  <2>2. Said(p)' = Said(p) /\ toProc' = toProc /\ start' = start /\ InForce' = InForce
    BY DEF Said, procVars, InForce
  <2> QED BY <2>1, <2>2, Facts DEF MailInv
<1> QED BY <1>2, <1>3, <1>4, RunnerFrame

LEMMA AllSentStep == ASSUME IInv, AllSent PROVE IInv'
<1>1. /\ Open /\ sending # None /\ unsent = {} /\ sending' = None /\ schedule' = sending
      /\ UNCHANGED <<unsent, cutoff, result, toProc>> /\ KeepsRun
  BY DEF AllSent
<1> USE <1>1 DEF KeepsRun
<1>2. RunInv /\ stage \in {"ready", "window"} /\ settling /\ published = None
  BY SomeProcess, Facts DEF RunInv
<1>3. \/ /\ stage = "ready" /\ stage' = "sched_ack" /\ schedule' = schedule
         /\ published' = IF steadyWarmup THEN None ELSE schedule'
      \/ stage = "window" /\ stage' = "window_ack" /\ published' = schedule'
  BY <1>2 DEF AllSent, Publish, RunInv
<1>4. Types'  BY <1>3 DEF IInv, Types, Stages, procVars, Time
<1>5. RunInv'  BY <1>2, <1>3 DEF RunInv, AllTold
<1>6. ASSUME NEW p \in Procs PROVE MailInv(p)'
  <2>1. Said(p)' = Said(p) /\ toProc' = toProc /\ start' = start /\ InForce' = InForce
    BY DEF Said, procVars, InForce
  <2>2. CASE stage = "ready"
    <3>1. SentSchedule(p) /\ SentSchedule(p)' /\ ~SentWindow(p) /\ ~SentWindow(p)'
          /\ schedule' = schedule
      BY <1>3, <2>2 DEF SentSchedule, SentWindow
    <3> QED BY <2>1, <3>1, Facts DEF MailInv
  <2>3. CASE stage = "window"
    <3>1. SentSchedule(p) /\ SentSchedule(p)' /\ SentWindow(p) /\ SentWindow(p)'
      BY <1>3, <2>3 DEF SentSchedule, SentWindow
    <3> QED BY <2>1, <3>1, Facts DEF MailInv
  <2> QED BY <1>2, <2>2, <2>3
<1> QED BY <1>4, <1>5, <1>6, RunnerFrame

(* The loop ends, or time passes.                                          *)
LEMMA QuietStep ==
  ASSUME IInv, Open, settling' \in BOOLEAN, sending # None => settling', clock' \in Nat,
         UNCHANGED <<steadyWarmup, told, late, result, toRunner, procVars>>,
         UNCHANGED <<toProc, stage, schedule, sending, unsent, published>>
  PROVE  IInv'
<1>1. Types'  BY DEF IInv, Types, procVars
<1>2. RunInv'  BY SomeProcess, Facts DEF RunInv, AllTold
<1>3. ASSUME NEW p \in Procs PROVE MailInv(p)'
  <2>1. /\ (SentSchedule(p)' <=> SentSchedule(p)) /\ (SentWindow(p)' <=> SentWindow(p))
        /\ InForce' = InForce /\ schedule' = schedule
    BY DEF SentSchedule, SentWindow, InForce, AllTold
  <2>2. Said(p)' = Said(p) /\ toProc' = toProc /\ start' = start  BY DEF Said, procVars
  <2> QED BY <2>1, <2>2, Facts DEF MailInv
<1> QED BY <1>1, <1>2, <1>3, RunnerFrame

LEMMA SettleStep == ASSUME IInv, Settle PROVE IInv'
<1>1. /\ Open /\ sending = None /\ settling' = FALSE
      /\ UNCHANGED <<steadyWarmup, clock, told, late, result, toRunner, procVars>>
      /\ UNCHANGED <<toProc, stage, schedule, sending, unsent, published>>
  BY DEF Settle
<1>2. clock \in Nat  BY DEF IInv, Types
<1> QED BY <1>1, <1>2, QuietStep

LEMMA TickStep == ASSUME IInv, Tick PROVE IInv'
<1>1. /\ Open /\ clock' = clock + 1
      /\ UNCHANGED <<steadyWarmup, settling, told, late, result, toRunner, procVars>>
      /\ UNCHANGED <<toProc, stage, schedule, sending, unsent, published>>
  BY DEF Tick, runnerVars
<1>2. clock + 1 \in Nat /\ settling \in BOOLEAN  BY DEF IInv, Types
<1>3. sending # None => settling  BY <1>1, SomeProcess, Facts DEF RunInv
<1> QED BY <1>1, <1>2, <1>3, QuietStep

LEMMA SendToStep == ASSUME IInv, NEW p \in Procs, SendTo(p) PROVE IInv'
<1> DEFINE w == [type |-> IF stage = "ready" THEN "schedule" ELSE "window", start |-> sending]
<1>1. /\ Open /\ p \in unsent /\ unsent' = unsent \ {p}
      /\ toProc' = [toProc EXCEPT ![p] = Append(toProc[p], w)]
      /\ UNCHANGED <<stage, schedule, sending, cutoff, published, result>> /\ KeepsRun
  BY DEF SendTo
<1>2. /\ RunInv /\ sending # None /\ sending \in Nat /\ settling /\ stage \in {"ready", "window"}
  BY <1>1, Facts DEF RunInv, Time
<1>3. w \in Window /\ w.start = sending /\ toProc[p] \in Seq(Window)
  BY <1>1, <1>2, Facts DEF Window
<1> HIDE DEF w
<1> DEFINE q == Append(toProc[p], w)
<1>4. /\ q \in Seq(Window) /\ Len(q) = Len(toProc[p]) + 1 /\ Len(toProc[p]) \in Nat
      /\ q[Len(toProc[p]) + 1] = w /\ \A i \in 1..Len(toProc[p]) : q[i] = toProc[p][i]
  BY <1>3, AppendProperties
<1>5. toProc' = [toProc EXCEPT ![p] = q]  BY <1>1
<1> HIDE DEF q
<1>6. toProc' \in [Procs -> Seq(Window)] /\ toProc'[p] = q
      /\ \A d \in Procs \ {p} : toProc'[d] = toProc[d]
  BY <1>4, <1>5 DEF IInv, Types
<1>7. Types'  BY <1>1, <1>6 DEF IInv, Types, KeepsRun, procVars
<1>8. RunInv'  BY <1>1, <1>2 DEF RunInv, AllTold, KeepsRun
<1>9. ASSUME NEW d \in Procs, d # p PROVE MailInv(d)'
  <2>1. /\ (SentSchedule(d)' <=> SentSchedule(d)) /\ (SentWindow(d)' <=> SentWindow(d))
        /\ InForce' = InForce /\ schedule' = schedule
    BY <1>1, <1>9 DEF SentSchedule, SentWindow, InForce, AllTold, KeepsRun
  <2>2. Said(d)' = Said(d) /\ toProc'[d] = toProc[d] /\ start' = start
    BY <1>1, <1>6, <1>9 DEF Said, KeepsRun, procVars
  <2>3. MailInv(d)  BY <1>1, Facts
  <2> QED BY <2>1, <2>2, <2>3 DEF MailInv
<1>10. MailInv(p)'
  <2>1. ~SentWindow(p) /\ MailInv(p)  BY <1>1, <1>2, Facts DEF SentWindow
  <2>2. "window_ack" \notin Said(p)'
    <3>1. "window_ack" \notin Said(p)  BY <2>1 DEF MailInv
    <3> QED BY <1>1, <3>1 DEF Said, KeepsRun
  <2>3. start' = start /\ schedule' = schedule /\ sending' = sending /\ InForce' = sending
    BY <1>1, <1>2 DEF KeepsRun, procVars, InForce
  <2>4. CASE stage = "ready"
    <3>1. ~SentSchedule(p) /\ SentSchedule(p)' /\ ~SentWindow(p)'
      BY <1>1, <1>2, <2>4 DEF SentSchedule, SentWindow
    <3>2. toProc[p] = <<>> /\ start[p] = None  BY <2>1, <3>1 DEF MailInv
    <3>3. Len(q) = 1 /\ q[1] = w  BY <1>4, <3>2
    <3>4. schedule = sending  BY <1>2, <2>4 DEF RunInv
    <3> QED BY <1>3, <1>6, <2>2, <2>3, <3>1, <3>2, <3>3, <3>4 DEF MailInv
  <2>5. CASE stage = "window"
    <3>1. SentSchedule(p) /\ SentSchedule(p)' /\ SentWindow(p)' /\ schedule # None
      BY <1>1, <1>2, <2>5 DEF SentSchedule, SentWindow, RunInv
    <3>2. \/ toProc[p] = <<>> /\ start[p] # None
          \/ Len(toProc[p]) = 1 /\ start[p] = None
      BY <2>1, <3>1 DEF MailInv
    <3>3. CASE toProc[p] = <<>> /\ start[p] # None
      <4>1. Len(q) = 1 /\ q[1] = w  BY <1>4, <3>3
      <4> QED BY <1>3, <1>6, <2>2, <2>3, <3>1, <3>3, <4>1 DEF MailInv
    <3>4. CASE Len(toProc[p]) = 1 /\ start[p] = None
      <4>1. Len(q) = 2 /\ q[2] = w  BY <1>4, <3>4
      <4> QED BY <1>3, <1>6, <2>2, <2>3, <3>1, <3>4, <4>1 DEF MailInv
    <3> QED BY <3>2, <3>3, <3>4
  <2> QED BY <1>2, <2>4, <2>5
<1> QED BY <1>1, <1>7, <1>8, <1>9, <1>10, RunnerFrame DEF KeepsRun

(* What a process says is accepted, whatever the others have said.         *)
LEMMA HeadIsAccepted ==
  ASSUME IInv, Open, NEW p \in Procs, toRunner[p] # <<>>
  PROVE  Accepts(p, Head(toRunner[p]).type)
<1> DEFINE q == toRunner[p]
           t == Head(q).type
<1>1. q \in Seq(Message) /\ told[p] \in SUBSET Once  BY DEF IInv, Types
<1>2. QueueOK(q, told[p]) /\ (RateIn(q) => p # Server)  BY Facts DEF SpeechInv
<1>3. /\ Head(q) \in Message /\ Head(q) = q[1] /\ 1 \in 1..Len(q)
      /\ t \notin told[p] /\ Before[t] \subseteq told[p]
  BY <1>1, <1>2, QueueReceive
<1>4. t = "rate" => p # Server  BY <1>1, <1>2, TailCarries
<1>5. t \in Once \union {"rate"}  BY <1>3 DEF Message
<1>6. t = "sched_ack" => schedule # None
  <2> SUFFICES ASSUME t = "sched_ack" PROVE schedule # None  OBVIOUS
  <2>1. "sched_ack" \in Said(p)  BY <1>3 DEF Said, Sent, Once
  <2>2. start[p] # None  BY <2>1, Facts DEF PlaceInv
  <2>3. SentSchedule(p)  BY <2>2, Facts DEF MailInv
  <2>4. RunInv  BY Facts
  <2> QED BY <2>3, <2>4 DEF SentSchedule, RunInv
<1> HIDE DEF t, q
<1>7. /\ t # "hello" => "hello" \in told[p]
      /\ t = "sched_ack" => "ready" \in told[p]
      /\ t = "done" => "sched_ack" \in told[p]
  BY <1>3, <1>5 DEF Before
<1>8. Accepts(p, t)  BY <1>3, <1>4, <1>6, <1>7 DEF Accepts
<1> QED BY <1>8 DEF t, q

LEMMA ReceiveStep == ASSUME IInv, NEW p \in Procs, Receive(p) PROVE IInv'
<1> DEFINE q == toRunner[p]
           m == Head(q)
<1>1. Open /\ ~settling /\ q # <<>>  BY DEF Receive
<1>2. /\ settling' = TRUE /\ late' = (late \/ m.late)
      /\ told' = [told EXCEPT ![p] = @ \union ({m.type} \intersect Once)]
      /\ toRunner' = [toRunner EXCEPT ![p] = Tail(q)]
      /\ UNCHANGED <<steadyWarmup, clock, stage, schedule, cutoff, published, result, procVars>>
      /\ UNCHANGED <<sending, unsent, toProc>>
  <2>1. Accepts(p, m.type)  BY <1>1, HeadIsAccepted
  <2>2. /\ settling' = TRUE /\ late' = (late \/ m.late)
        /\ toRunner' = [toRunner EXCEPT ![p] = Tail(q)]
        /\ UNCHANGED <<steadyWarmup, clock, stage, schedule, cutoff, published, result, procVars>>
        /\ UNCHANGED <<sending, unsent, toProc>>
    BY <2>1 DEF Receive, KeepsSending
  <2>3. told' = IF m.type = "rate" THEN told ELSE [told EXCEPT ![p] = @ \union {m.type}]
    BY <2>1 DEF Receive
  <2>4. told \in [Procs -> SUBSET Once] /\ q \in Seq(Message)  BY DEF IInv, Types
  <2>5. m.type \in Once \union {"rate"}
    <3>1. m \in Message  BY <1>1, <2>4, HeadTailProperties
    <3> QED BY <3>1 DEF Message
  <2>6. "rate" \notin Once  BY DEF Once
  <2> HIDE DEF m, q
  <2>7. CASE m.type = "rate"
    <3>1. told' = told /\ {m.type} \intersect Once = {}  BY <2>3, <2>6, <2>7
    <3>2. told = [told EXCEPT ![p] = @ \union {}]  BY <2>4
    <3> QED BY <2>2, <3>1, <3>2
  <2>8. CASE m.type # "rate"
    <3>1. {m.type} \intersect Once = {m.type}  BY <2>5, <2>8
    <3> QED BY <2>2, <2>3, <2>8, <3>1
  <2> QED BY <2>7, <2>8
<1>3. q \in Seq(Message) /\ told[p] \in SUBSET Once  BY DEF IInv, Types
<1>4. QueueOK(q, told[p]) /\ (RateIn(q) => p # Server)  BY <1>1, Facts DEF SpeechInv
<1> DEFINE U == told[p] \union ({m.type} \intersect Once)
<1>5. /\ m \in Message /\ Tail(q) \in Seq(Message)
      /\ QueueOK(Tail(q), U) /\ Sent(Tail(q), U) = Sent(q, told[p])
  BY <1>1, <1>3, <1>4, QueueReceive
<1>6. (LateIn(q) => LateIn(Tail(q)) \/ m.late) /\ (RateIn(Tail(q)) => RateIn(q))
  BY <1>1, <1>3, TailCarries
<1> HIDE DEF m
<1>7. /\ told' \in [Procs -> SUBSET Once] /\ told'[p] = U
      /\ toRunner' \in [Procs -> Seq(Message)] /\ toRunner'[p] = Tail(q)
      /\ \A d \in Procs \ {p} : told'[d] = told[d] /\ toRunner'[d] = toRunner[d]
  BY <1>2, <1>5 DEF IInv, Types
<1> HIDE DEF U, q
<1>8. Open' /\ NothingRejected' /\ OneWindow'
  BY <1>1, <1>2 DEF Open, NothingRejected, OneWindow
<1>9. late' \in BOOLEAN /\ (late => late') /\ (m.late => late')
  BY <1>2, <1>5 DEF IInv, Types, Message
<1>10. Types'  BY <1>2, <1>7, <1>9 DEF IInv, Types, procVars
<1>11. \A d \in Procs : Said(d)' = Said(d) /\ told[d] \subseteq told'[d]
  BY <1>5, <1>7 DEF Said, U, q
<1>12. RunInv'  BY <1>1, <1>2, <1>11, Facts DEF RunInv, AllTold
<1>13. ASSUME NEW d \in Procs PROVE SentWindow(d)' <=> SentWindow(d)
  <2>1. CASE stage # "done"  BY <1>2, <2>1 DEF SentWindow
  <2>2. CASE stage = "done"
    <3>1. AllTold("window_ack") => AllTold("window_ack")'  BY <1>11 DEF AllTold
    <3>2. ASSUME AllTold("window_ack")' PROVE AllTold("window_ack")
      <4>1. "window_ack" \in Said(d)'  BY <3>2 DEF AllTold, Said, Sent, Once
      <4>2. SentWindow(d)  BY <1>1, <1>11, <4>1, Facts DEF MailInv
      <4> QED BY <2>2, <4>2 DEF SentWindow
    <3> QED BY <1>2, <2>2, <3>1, <3>2 DEF SentWindow
  <2> QED BY <2>1, <2>2
<1>14. ASSUME NEW d \in Procs PROVE LocalInv(d)' /\ PlaceInv(d)' /\ MailInv(d)'
  <2>1. LocalInv(d)'  BY <1>1, <1>2, Facts DEF LocalInv, procVars
  <2>2. PlaceInv(d)'  BY <1>1, <1>2, <1>11, Facts DEF PlaceInv, procVars
  <2>3. (SentSchedule(d)' <=> SentSchedule(d)) /\ InForce' = InForce /\ schedule' = schedule
        /\ toProc' = toProc /\ start' = start
    BY <1>2 DEF SentSchedule, InForce, procVars
  <2>4. MailInv(d)'  BY <1>1, <1>11, <1>13, <2>3, Facts DEF MailInv
  <2> QED BY <2>1, <2>2, <2>4
<1>15. LateInv(p)' /\ SpeechInv(p)'
  BY <1>1, <1>2, <1>4, <1>5, <1>6, <1>7, <1>9, Facts DEF LateInv, SpeechInv, procVars, q
<1>16. ASSUME NEW d \in Procs, d # p PROVE LateInv(d)' /\ SpeechInv(d)'
  BY <1>1, <1>2, <1>7, <1>9, <1>16, Facts DEF LateInv, SpeechInv, procVars
<1> QED BY <1>8, <1>10, <1>12, <1>14, <1>15, <1>16 DEF IInv, ProcInv

-----------------------------------------------------------------------------
(* Every step keeps the invariant.                                         *)
LEMMA Inductive == ASSUME IInv, [Next]_vars PROVE IInv'
<1>1. ASSUME NEW p \in Procs, Process(p) PROVE IInv'
  BY <1>1, HelloStep, ReadyStep, ReadScheduleStep, LookAtClockStep, MeasureStep, CountDownStep,
     TakeWindowStep, DoneStep, ExitStep DEF Process
<1>2. ASSUME NEW p \in Procs, Receive(p) PROVE IInv'  BY <1>2, ReceiveStep
<1>3. CASE Timeout \/ \E p \in Procs : NoticeExit(p) \/ SendFails(p)  BY <1>3, FailedStep
<1>4. CASE AllHere \/ IssueSchedule \/ AllAcked
  BY <1>4, AllHereStep, IssueScheduleStep, AllAckedStep
<1>5. CASE KeepProvisional \/ CutOff  BY <1>5, WindowKeptStep
<1>6. CASE MoveWindow \/ AllAckedWindow \/ AllSent
  BY <1>6, MoveWindowStep, AllAckedWindowStep, AllSentStep
<1>7. CASE AllDone  BY <1>7, AllDoneStep
<1>8. CASE Settle \/ Tick  BY <1>8, SettleStep, TickStep
<1>9. ASSUME NEW p \in Procs, SendTo(p) PROVE IInv'  BY <1>9, SendToStep
<1>10. CASE UNCHANGED vars
  <2> USE <1>10 DEF vars, runnerVars, procVars
  <2>1. Types' /\ NothingRejected' /\ OneWindow'
    BY DEF IInv, Types, NothingRejected, OneWindow
  <2>2. ASSUME NEW p \in Procs PROVE LocalInv(p)'  BY DEF IInv, LocalInv
  <2>3. ASSUME Open' PROVE RunInv' /\ \A p \in Procs : ProcInv(p)'
    <3>1. Open  BY <2>3 DEF Open
    <3>2. RunInv'  BY <3>1, SomeProcess, Facts DEF RunInv, AllTold
    <3>3. ASSUME NEW p \in Procs PROVE ProcInv(p)'
      <4>1. Said(p)' = Said(p)  BY DEF Said
      <4>2. PlaceInv(p)'  BY <3>1, <4>1, Facts DEF PlaceInv
      <4>3. MailInv(p)'
        BY <3>1, <4>1, Facts DEF MailInv, SentSchedule, SentWindow, InForce, AllTold
      <4>4. LateInv(p)' /\ SpeechInv(p)'  BY <3>1, Facts DEF LateInv, SpeechInv
      <4> QED BY <4>2, <4>3, <4>4 DEF ProcInv
    <3> QED BY <3>2, <3>3
  <2> QED BY <2>1, <2>2, <2>3 DEF IInv
<1> QED
  BY <1>1, <1>2, <1>3, <1>4, <1>5, <1>6, <1>7, <1>8, <1>9, <1>10 DEF Next, Advance, RunOver

LEMMA Always == Spec => []IInv
BY InitInv, Inductive, PTL DEF Spec

-----------------------------------------------------------------------------
(* What a run keeps, for any number of clients and any times               *)

(* In a valid run, the window the runner published is the one every        *)
(* process goes by and the only one any of them measured in; and no        *)
(* process ever measures in two, valid run or not.                         *)
THEOREM WindowsAlwaysAgree == Spec => []WindowsAgree
<1>1. ASSUME IInv, NEW p \in Procs PROVE Cardinality(opened[p]) <= 1
  <2>1. opened[p] \subseteq {start[p]}  BY <1>1 DEF IInv, LocalInv
  <2>2. CASE opened[p] = {}
    <3>1. Cardinality(opened[p]) = 0  BY <2>2, FS_EmptySet, Zenon
    <3> QED BY <3>1
  <2>3. CASE opened[p] = {start[p]}
    <3>1. Cardinality(opened[p]) = 1  BY <2>3, FS_Singleton, Zenon
    <3> QED BY <3>1
  <2> QED BY <2>1, <2>2, <2>3
<1>2. IInv => WindowsAgree  BY <1>1 DEF WindowsAgree, NeverTwoWindows, IInv
<1> QED BY <1>2, Always, PTL

(* The runner rejects no message of a process that follows benchkit,       *)
(* however the processes overtake each other.                              *)
THEOREM NothingIsRejected == Spec => []NothingRejected
<1>1. IInv => NothingRejected  BY DEF IInv
<1> QED BY <1>1, Always, PTL

-----------------------------------------------------------------------------
(* How large the times get                                                  *)

Past == 0..MaxClock
TimeOrNone == Times \union {None}
Counts == 0..ReportsNeeded

(* The next report is at most an interval after the clock of its loop, and  *)
(* a window at most a warm-up or a guard after the clock of the runner.     *)
Bounds ==
  /\ clock \in Past /\ reports \in [Procs -> Counts]
  /\ schedule \in TimeOrNone /\ sending \in TimeOrNone
  /\ cutoff \in TimeOrNone /\ published \in TimeOrNone
  /\ result \in {"none", "ok", "rejected", "failed"}
  /\ toProc \in [Procs -> Seq(Window)]
  /\ \A p \in Procs : \A i \in 1..Len(toProc[p]) : toProc[p][i].start \in Times
  /\ nextRate \in [Procs -> Times]
  /\ now \in [Procs -> Past \union {None}] /\ start \in [Procs -> TimeOrNone]
  /\ opened \in [Procs -> SUBSET Times]

LEMMA BoundFacts ==
  /\ MaxClock \in Nat /\ Warmup \in Nat /\ Guard \in Nat /\ None = -1
  /\ RateInterval \in Nat \ {0} /\ ReportsNeeded \in Nat \ {0}
  /\ \A t \in Past : t \in Nat /\ t \in Times /\ t + Warmup \in Times /\ t + Guard \in Times
                     /\ \A n \in 0..(t + RateInterval) : n \in Times
  /\ \A t \in Times : t \in Nat /\ t # None
<1>1. /\ MaxClock \in Nat /\ Warmup \in Nat /\ Guard \in Nat
      /\ RateInterval \in Nat \ {0} /\ ReportsNeeded \in Nat \ {0}
  BY BarrierAssumption
<1>2. ASSUME NEW t \in Past
      PROVE  /\ t \in Nat /\ t \in Times /\ t + Warmup \in Times /\ t + Guard \in Times
             /\ \A n \in 0..(t + RateInterval) : n \in Times
  BY <1>1 DEF Past, Times
<1>3. ASSUME NEW t \in Times PROVE t \in Nat /\ t # None
  BY <1>1 DEF Times, None
<1> QED BY <1>1, <1>2, <1>3 DEF None

LEMMA BoundInit == Init => Bounds
<1> SUFFICES ASSUME Init PROVE Bounds  OBVIOUS
<1>1. 0 \in Past /\ 0 \in Times /\ 0 \in Counts /\ <<>> \in Seq(Window) /\ Len(<<>>) = 0
  BY BoundFacts DEF Past, Counts
<1> QED BY <1>1 DEF Init, Bounds, TimeOrNone

(* What the processes do: the window one reads comes from what it was sent, *)
(* and its next report is due within an interval.                           *)
LEMMA BoundReport ==
  ASSUME Bounds, NEW p \in Procs, now[p] # None, KeepRates(p)
  PROVE  nextRate' \in [Procs -> Times]
<1> DEFINE n == now[p]
           r == NextReport(p)
<1>1. n \in Past /\ n \in Nat /\ nextRate[p] \in Times /\ nextRate[p] \in Nat
  BY BoundFacts DEF Bounds
<1>2. r = IF nextRate[p] = 0 THEN n + RateInterval ELSE nextRate[p]  BY DEF NextReport
<1>3. r \in Times /\ r \in Nat
  <2>1. n + RateInterval \in 0..(n + RateInterval)  BY <1>1, BoundFacts
  <2> QED BY <1>1, <1>2, <2>1, BoundFacts
<1>4. ReportDue(p) => AfterReport(p) \in Times
  <2> SUFFICES ASSUME ReportDue(p) PROVE AfterReport(p) \in Times  OBVIOUS
  <2> DEFINE d == (n - r) \div RateInterval
  <2>1. n >= r  BY DEF ReportDue
  <2> HIDE DEF n, r
  <2>2. n - r \in Nat  BY <1>1, <1>3, <2>1
  <2>3. d \in Nat /\ RateInterval * d <= n - r  BY <2>2, BoundFacts, NatDivMod
  <2> HIDE DEF d
  <2>4. RateInterval * (d + 1) = RateInterval * d + RateInterval /\ RateInterval * d \in Nat
    BY <2>3, BoundFacts
  <2> DEFINE e == RateInterval * d
  <2> HIDE DEF e
  <2>5. r + (e + RateInterval) \in 0..(n + RateInterval)
    BY <1>1, <1>3, <2>3, <2>4, BoundFacts DEF e
  <2>6. r + RateInterval * (d + 1) \in Times  BY <1>1, <2>4, <2>5, BoundFacts DEF e
  <2> QED BY <2>6 DEF AfterReport, n, r, d
<1> QED BY <1>3, <1>4 DEF KeepRates, Bounds

LEMMA BoundAdopt ==
  ASSUME Bounds, NEW p \in Procs, NEW ack, toProc[p] # <<>>, Adopt(p, ack)
  PROVE  /\ start' \in [Procs -> TimeOrNone] /\ toProc' \in [Procs -> Seq(Window)]
         /\ \A d \in Procs : \A i \in 1..Len(toProc'[d]) : toProc'[d][i].start \in Times
<1> DEFINE q == toProc[p]
<1>1. q \in Seq(Window) /\ q # <<>> /\ \A i \in 1..Len(q) : q[i].start \in Times  BY DEF Bounds
<1>2. /\ start' = [start EXCEPT ![p] = Head(q).start]
      /\ toProc' = [toProc EXCEPT ![p] = Tail(q)]
  BY DEF Adopt
<1> HIDE DEF q
<1>3. Head(q) = q[1] /\ 1 \in 1..Len(q) /\ Tail(q) \in Seq(Window)
      /\ \A i \in 1..Len(Tail(q)) : i + 1 \in 1..Len(q) /\ Tail(q)[i] = q[i + 1]
  BY <1>1
<1>4. Head(q).start \in Times /\ \A i \in 1..Len(Tail(q)) : Tail(q)[i].start \in Times
  BY <1>1, <1>3
<1> QED BY <1>2, <1>3, <1>4 DEF Bounds, TimeOrNone

LEMMA BoundIteration ==
  ASSUME Bounds, NEW p \in Procs, now[p] # None, EndIteration(p),
         start'[p] \in TimeOrNone, start'[p] # None
  PROVE  now' \in [Procs -> Past \union {None}] /\ opened' \in [Procs -> SUBSET Times]
BY DEF Bounds, EndIteration, TimeOrNone

LEMMA BoundProcess ==
  ASSUME IInv, Bounds, NEW p \in Procs, Process(p) PROVE Bounds'
<1>1. UNCHANGED <<clock, reports, schedule, sending, cutoff, published, result>>
  BY DEF Process, Hello, Ready, ReadSchedule, LookAtClock, Measure, CountDown, TakeWindow, Done,
         Exit, runnerVars
<1> DEFINE Kept == UNCHANGED <<clock, reports, schedule, sending, cutoff, published, result>>
<1> HIDE DEF Kept
<1>2. Kept  BY <1>1 DEF Kept
<1>3. CASE Hello(p) \/ Ready(p) \/ Done(p) \/ Exit(p)
  <2>1. UNCHANGED <<toProc, nextRate, now, start, opened>>
    BY <1>3 DEF Hello, Ready, Done, Exit
  <2> QED BY <1>2, <2>1 DEF Bounds, Kept
<1>4. CASE LookAtClock(p)
  <2>1. UNCHANGED <<toProc, nextRate, start, opened>> /\ now' = [now EXCEPT ![p] = clock]
    BY <1>4 DEF LookAtClock
  <2> QED BY <1>2, <2>1 DEF Bounds, Kept
<1>5. CASE ReadSchedule(p)
  <2>1. UNCHANGED <<nextRate, now, opened>> /\ toProc[p] # <<>> /\ \E ack : Adopt(p, ack)
    BY <1>5 DEF ReadSchedule
  <2>2. /\ start' \in [Procs -> TimeOrNone] /\ toProc' \in [Procs -> Seq(Window)]
        /\ \A d \in Procs : \A i \in 1..Len(toProc'[d]) : toProc'[d][i].start \in Times
    BY <2>1, BoundAdopt
  <2> QED BY <1>2, <2>1, <2>2 DEF Bounds, Kept
<1>6. ASSUME pc[p] = "running", Open PROVE start[p] # None /\ start[p] \in TimeOrNone
  <2>1. {"hello", "ready", "sched_ack"} \subseteq Said(p)  BY <1>6, Facts DEF PlaceInv
  <2> QED BY <1>6, <2>1, Facts DEF PlaceInv, Bounds
<1>7. CASE Measure(p) \/ CountDown(p)
  <2>1. /\ Iterating(p) /\ EndIteration(p) /\ UNCHANGED <<toProc, start>>
        /\ nextRate' = nextRate \/ KeepRates(p)
    BY <1>7 DEF Measure, CountDown
  <2>2. now[p] # None /\ pc[p] = "running" /\ Open  BY <2>1 DEF Iterating
  <2>3. now' \in [Procs -> Past \union {None}] /\ opened' \in [Procs -> SUBSET Times]
    BY <1>6, <2>1, <2>2, BoundIteration
  <2>4. nextRate' \in [Procs -> Times]  BY <2>1, <2>2, BoundReport DEF Bounds
  <2> QED BY <1>2, <2>1, <2>3, <2>4 DEF Bounds, Kept
<1>8. CASE TakeWindow(p)
  <2>1. /\ Iterating(p) /\ EndIteration(p) /\ KeepRates(p) /\ toProc[p] # <<>>
        /\ \E ack : Adopt(p, ack)
    BY <1>8 DEF TakeWindow
  <2>2. now[p] # None  BY <2>1 DEF Iterating
  <2>3. /\ start' \in [Procs -> TimeOrNone] /\ toProc' \in [Procs -> Seq(Window)]
        /\ \A d \in Procs : \A i \in 1..Len(toProc'[d]) : toProc'[d][i].start \in Times
    BY <2>1, BoundAdopt
  <2>4. start'[p] # None
    <3>1. start' = [start EXCEPT ![p] = Head(toProc[p]).start]  BY <2>1 DEF Adopt
    <3>2. toProc[p] \in Seq(Window) /\ \A i \in 1..Len(toProc[p]) : toProc[p][i].start \in Times
      BY DEF Bounds
    <3>3. Head(toProc[p]) = toProc[p][1] /\ 1 \in 1..Len(toProc[p])  BY <2>1, <3>2
    <3>4. Head(toProc[p]).start \in Times  BY <3>2, <3>3
    <3> QED BY <3>1, <3>4, BoundFacts DEF Bounds
  <2>5. now' \in [Procs -> Past \union {None}] /\ opened' \in [Procs -> SUBSET Times]
    BY <2>1, <2>2, <2>3, <2>4, BoundIteration
  <2>6. nextRate' \in [Procs -> Times]  BY <2>1, <2>2, BoundReport
  <2> QED BY <1>2, <2>3, <2>5, <2>6 DEF Bounds, Kept
<1> QED BY <1>3, <1>4, <1>5, <1>7, <1>8 DEF Process

(* What the runner does: it leaves the processes alone but for what it sends *)
LEMMA BoundRunner ==
  ASSUME Bounds, UNCHANGED procVars, clock' \in Past, reports' \in [Procs -> Counts],
         schedule' \in TimeOrNone, sending' \in TimeOrNone,
         cutoff' \in TimeOrNone, published' \in TimeOrNone,
         result' \in {"none", "ok", "rejected", "failed"},
         toProc' = toProc \/ toProc' = [p \in Procs |-> <<>>]
  PROVE  Bounds'
<1>1. <<>> \in Seq(Window) /\ Len(<<>>) = 0  OBVIOUS
<1>2. toProc' \in [Procs -> Seq(Window)]  BY <1>1 DEF Bounds
<1>3. \A p \in Procs : \A i \in 1..Len(toProc'[p]) : toProc'[p][i].start \in Times
  BY <1>1 DEF Bounds
<1> QED BY <1>2, <1>3 DEF Bounds, procVars

LEMMA BoundReturns == ASSUME Bounds, NEW r \in {"ok", "rejected", "failed"}, Returns(r) PROVE Bounds'
BY BoundRunner DEF Returns, Bounds

LEMMA BoundSendTo == ASSUME IInv, Bounds, NEW p \in Procs, SendTo(p) PROVE Bounds'
<1> DEFINE m == [type |-> IF stage = "ready" THEN "schedule" ELSE "window", start |-> sending]
           q == toProc[p]
<1>1. /\ Open /\ p \in unsent /\ toProc' = [toProc EXCEPT ![p] = Append(q, m)]
      /\ UNCHANGED <<clock, reports, schedule, sending, cutoff, published, result>>
      /\ UNCHANGED <<nextRate, now, start, opened>>
  BY DEF SendTo, KeepsRun, procVars
<1>2. sending # None  BY <1>1, SomeProcess, Facts DEF RunInv
<1>3. sending \in Times  BY <1>2 DEF Bounds, TimeOrNone
<1>4. m \in Window /\ m.start \in Times  BY <1>3, BoundFacts DEF Window
<1>5. q \in Seq(Window) /\ \A i \in 1..Len(q) : q[i].start \in Times  BY DEF Bounds
<1> HIDE DEF m, q
<1>6. /\ Append(q, m) \in Seq(Window) /\ Len(Append(q, m)) = Len(q) + 1 /\ Len(q) \in Nat
      /\ Append(q, m)[Len(q) + 1] = m /\ \A i \in 1..Len(q) : Append(q, m)[i] = q[i]
  BY <1>4, <1>5, AppendProperties
<1>7. \A i \in 1..Len(Append(q, m)) : Append(q, m)[i].start \in Times
  <2>1. \A i \in 1..Len(Append(q, m)) : i \in 1..Len(q) \/ i = Len(q) + 1  BY <1>6
  <2> QED BY <1>4, <1>5, <1>6, <2>1
<1> QED BY <1>1, <1>6, <1>7 DEF Bounds

LEMMA BoundCounted == \A n \in Counts : Counted(n) \in Counts
BY BoundFacts DEF Counts, Counted

LEMMA BoundStep == ASSUME IInv, Bounds, [Next]_vars PROVE Bounds'
<1>1. ASSUME NEW p \in Procs, Process(p) PROVE Bounds'  BY <1>1, BoundProcess
<1>2. ASSUME NEW p \in Procs, Receive(p) PROVE Bounds'
  <2>1. CASE Returns("rejected")  BY <2>1, BoundReturns
  <2>2. CASE ~Returns("rejected")
    <3>1. /\ UNCHANGED <<clock, schedule, sending, cutoff, published, result, toProc>>
          /\ UNCHANGED procVars
          /\ reports' = reports \/ reports' = [reports EXCEPT ![p] = Counted(@)]
      BY <1>2, <2>2 DEF Receive, KeepsSending
    <3>2. reports' \in [Procs -> Counts]
      <4>1. reports \in [Procs -> Counts]  BY DEF Bounds
      <4>2. Counted(reports[p]) \in Counts  BY <4>1, BoundCounted
      <4> QED BY <3>1, <4>1, <4>2
    <3> QED BY <3>1, <3>2, BoundRunner DEF Bounds
  <2> QED BY <2>1, <2>2
<1>3. CASE Timeout \/ AllDone \/ \E p \in Procs : NoticeExit(p) \/ SendFails(p)
  BY <1>3, BoundReturns DEF Timeout, AllDone, NoticeExit, SendFails
<1>4. ASSUME NEW p \in Procs, SendTo(p) PROVE Bounds'  BY <1>4, BoundSendTo
<1>5. CASE AllHere \/ AllAckedWindow \/ Settle
  BY <1>5, BoundRunner DEF AllHere, AllAckedWindow, Settle, KeepsRun, KeepsSending, Bounds
<1>6. CASE IssueSchedule \/ MoveWindow
  <2>1. clock + Warmup \in TimeOrNone /\ clock + Guard \in TimeOrNone
    BY BoundFacts DEF Bounds, TimeOrNone
  <2> QED BY <1>6, <2>1, BoundRunner DEF IssueSchedule, MoveWindow, StartSending, KeepsRun, Bounds
<1>7. CASE AllSent \/ KeepProvisional \/ CutOff
  <2>1. /\ UNCHANGED <<clock, reports, cutoff, result, toProc>> /\ UNCHANGED procVars
        /\ schedule' = schedule \/ schedule' = sending
        /\ sending' = sending \/ sending' = None
        /\ published' = published \/ published' = sending \/ published' = schedule
    BY <1>7 DEF AllSent, KeepProvisional, CutOff, Publish, KeepsRun, KeepsSending
  <2>2. None \in TimeOrNone  BY DEF TimeOrNone
  <2> QED BY <2>1, <2>2, BoundRunner DEF Bounds
<1>8. CASE AllAcked
  <2> DEFINE late_ == schedule - Guard < clock
  <2>1. clock \in TimeOrNone  BY BoundFacts DEF Bounds, TimeOrNone
  <2>2. ~late_ => schedule - Guard \in TimeOrNone
    <3> SUFFICES ASSUME schedule - Guard >= clock, clock \in Nat, schedule \in Times \union {None}
                 PROVE  schedule - Guard \in TimeOrNone
      BY BoundFacts DEF Bounds, TimeOrNone, Times, Past
    <3> QED BY BoundFacts DEF TimeOrNone, Times
  <2>3. /\ UNCHANGED <<clock, reports, schedule, sending, published, result, toProc>>
        /\ UNCHANGED procVars
        /\ \/ cutoff' = cutoff
           \/ cutoff' = IF late_ THEN clock ELSE schedule - Guard
    BY <1>8 DEF AllAcked, KeepsRun, KeepsSending
  <2> HIDE DEF late_
  <2> QED BY <2>1, <2>2, <2>3, BoundRunner DEF Bounds
<1>9. CASE Tick
  <2>1. clock' = clock + 1 /\ clock < MaxClock /\ UNCHANGED <<runnerVars, toProc, procVars>>
    BY <1>9 DEF Tick
  <2>2. clock' \in Past  BY <2>1, BoundFacts DEF Bounds, Past
  <2> QED BY <2>1, <2>2, BoundRunner DEF Bounds, runnerVars
<1>10. CASE UNCHANGED vars
  BY <1>10, BoundRunner DEF vars, runnerVars, procVars, Bounds
<1> QED
  BY <1>1, <1>2, <1>3, <1>4, <1>5, <1>6, <1>7, <1>8, <1>9, <1>10 DEF Next, Advance, RunOver

(* Every variable keeps its shape, no more reports are kept than are        *)
(* needed, and no time lies further ahead than a warm-up, a guard or a      *)
(* report interval, however late a thread runs.                             *)
THEOREM BarrierTypes == Spec => []BarrierTypeOK
<1>1. Init => IInv /\ Bounds  BY InitInv, BoundInit
<1>2. IInv /\ Bounds /\ [Next]_vars => (IInv /\ Bounds)'  BY Inductive, BoundStep
<1>3. IInv /\ Bounds => BarrierTypeOK
  <2> SUFFICES ASSUME IInv, Bounds PROVE BarrierTypeOK  OBVIOUS
  <2>1. Once \subseteq Stages /\ Message = ToRunner
    BY DEF Once, Stages, Message, ToRunner
  <2>2. /\ clock \in 0..MaxClock /\ stage \in Stages /\ {steadyWarmup, settling, late} \subseteq BOOLEAN
        /\ unsent \subseteq Procs /\ {schedule, sending, cutoff, published} \subseteq Times \cup {None}
    BY DEF IInv, Types, Bounds, Past, TimeOrNone
  <2>3. told \in [Procs -> SUBSET Stages] /\ reports \in [Procs -> 0..ReportsNeeded]
    BY <2>1 DEF IInv, Types, Bounds, Counts
  <2>4. result \in {"none", "ok", "rejected", "failed"} /\ \A p \in Procs : toRunner[p] \in Seq(ToRunner)
    BY <2>1 DEF IInv, Types, Bounds
  <2>5. ASSUME NEW p \in Procs
        PROVE  toProc[p] \in Seq([type : {"schedule", "window"}, start : Times])
    <3> DEFINE q == toProc[p]
               W == [type : {"schedule", "window"}, start : Times]
    <3>1. q \in Seq(Window) /\ \A i \in 1..Len(q) : q[i].start \in Times  BY DEF Bounds
    <3>0. ASSUME NEW r \in Window, r.start \in Times PROVE r \in W
      BY <3>0 DEF Window
    <3> HIDE DEF q, W
    <3>2. \A i \in 1..Len(q) : q[i] \in W  BY <3>0, <3>1
    <3>3. Len(q) \in Nat /\ q = [i \in 1..Len(q) |-> q[i]]  BY ONLY <3>1, LenProperties
    <3>4. [i \in 1..Len(q) |-> q[i]] \in [1..Len(q) -> W]  BY <3>2
    <3>5. [i \in 1..Len(q) |-> q[i]] \in Seq(W)  BY <3>3, <3>4, SeqDef
    <3>6. q \in Seq(W)  BY <3>3, <3>5
    <3> QED BY <3>6 DEF q, W
  <2>6. /\ pc \in [Procs -> {"begin", "connecting", "waiting", "running", "done", "failed"}]
        /\ final \in [Procs -> BOOLEAN] /\ missed \in [Procs -> BOOLEAN]
        /\ nextRate \in [Procs -> Times] /\ opened \in [Procs -> SUBSET Times]
    BY DEF IInv, Types, Bounds
  <2>7. {now, start} \subseteq [Procs -> Times \cup {None}]
    <3>1. Past \subseteq Times  BY BoundFacts
    <3> QED BY <3>1 DEF Bounds, TimeOrNone
  <2> QED BY <2>2, <2>3, <2>4, <2>5, <2>6, <2>7 DEF BarrierTypeOK
<1> QED BY <1>1, <1>2, <1>3, PTL DEF Spec
=============================================================================
