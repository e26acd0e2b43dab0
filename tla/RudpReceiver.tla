---------------------------- MODULE RudpReceiver ----------------------------
(***************************************************************************)
(* The receive path of one coop_rudp endpoint: process_packet,              *)
(* deliver_frame, the ordered holds, the receive queue and rudp_recv.       *)
(*                                                                          *)
(* One thread runs the endpoint.  A packet is processed frame by frame, and *)
(* an ordered frame may set a drain of held frames going; rudp_recv pops    *)
(* one event and drains too.  Each loop iteration of the code is one step   *)
(* here, and `packet' and `drain' say which loop the thread is in: nothing  *)
(* else can run until both loops are finished.                              *)
(*                                                                          *)
(* All connections of an endpoint share the receive queue and the hold      *)
(* slots.  The network is any network: it may lose, repeat and reorder      *)
(* packets, and a packet may carry any frames the peer has sent.  A frame   *)
(* is named by the position idx of its message in the peer's stream; what   *)
(* the code sees of it is CSeq(f), the wrapped channel sequence number, and *)
(* the message id, which tells any two messages apart.                      *)
(***************************************************************************)
EXTENDS SerialNumbers, Sequences, FiniteSets

CONSTANTS
  Conns,        \* connections of the endpoint
  NumChannels,  \* max_channels
  Kinds,        \* message classes the peers use
  SeqSpace,     \* width of channel_seq: 2^16 in the code
  MaxHolds,     \* max_ordered_holds, shared by all connections
  MaxRecv,      \* max_recv_events, shared by all connections
  StreamLen,    \* bound: messages of one class on one channel
  MaxFrames,    \* bound: frames of one packet
  Ahead,        \* an ordered frame on the network is less than Ahead past the next one needed
  Stray,        \* a sequenced frame is at most Stray behind or ahead of the newest
  MaxAborts     \* bound: connections aborted (0: the run has none)

Channels == 0..(NumChannels - 1)
AllKinds == {"ordered", "unordered", "sequenced", "unreliable"}

ASSUME InstanceAssumption ==
  /\ NumChannels \in Nat \ {0}
  /\ Kinds \subseteq AllKinds
  /\ MaxHolds \in Nat /\ MaxRecv \in Nat \ {0}
  /\ StreamLen \in Nat /\ MaxFrames \in Nat /\ MaxAborts \in Nat

(* What the wrapped comparison needs of the peer: the send window and the   *)
(* hold slots keep an ordered stream far within half of the number space.   *)
ASSUME SeqSpaceAssumption ==
  /\ SeqSpace \in Nat /\ SeqSpace > 1 /\ SeqSpace % 2 = 0
  /\ Ahead \in Nat \ {0} /\ Ahead <= SeqSpace \div 2
  /\ Stray \in Nat \ {0} /\ 4 * Stray <= SeqSpace

Frame == [kind : Kinds, chan : Channels, idx : 0..(StreamLen - 1)]
Event == [conn : Conns, frame : Frame]

CSeq(f) == Wire(f.idx, SeqSpace)
Reliable(f) == f.kind \in {"ordered", "unordered"}

VARIABLES
  expected,   \* expected_ordered of each channel
  latest,     \* latest_sequenced of each channel: <<>> before the first frame
  seen,       \* the reliable messages marked seen (the rx_dedup ring)
  holds,      \* the used ordered hold slots, as events
  holdCount,  \* ordered_hold_count
  recvq,      \* the receive queue
  packet,     \* the packet being processed: the frames left and those done
  drain,      \* the drain loop: channels conn still has to look at
  released,   \* history: ordered messages put in the receive queue, in number
  newest,     \* history: position of the newest sequenced message, -1 if none
  delivered,  \* history: positions of the ordered messages the application got
  copies,     \* history: how often each unordered message was queued
  acked,      \* history: reliable frames of the packets recorded for ack
  aborts      \* connections aborted so far

connVars == <<expected, latest, seen>>
endpointVars == <<holds, holdCount, recvq>>
history == <<released, newest, delivered, copies, acked, aborts>>
vars == <<connVars, endpointVars, packet, drain, history>>

NoPacket == [on |-> FALSE]
NoDrain == [on |-> FALSE]
Idle == ~packet.on /\ ~drain.on

Ev(c, f) == [conn |-> c, frame |-> f]
Room == Len(recvq) < MaxRecv
UnorderedFrame == {f \in Frame : f.kind = "unordered"}

Init ==
  /\ expected = [c \in Conns |-> [ch \in Channels |-> 0]]
  /\ latest = [c \in Conns |-> [ch \in Channels |-> <<>>]]
  /\ seen = [c \in Conns |-> {}]
  /\ holds = {} /\ holdCount = 0 /\ recvq = <<>>
  /\ packet = NoPacket /\ drain = NoDrain
  /\ released = [c \in Conns |-> [ch \in Channels |-> 0]]
  /\ newest = [c \in Conns |-> [ch \in Channels |-> -1]]
  /\ delivered = [c \in Conns |-> [ch \in Channels |-> <<>>]]
  /\ copies = [c \in Conns |-> [f \in UnorderedFrame |-> 0]]
  /\ acked = [c \in Conns |-> {}]
  /\ aborts = 0

-----------------------------------------------------------------------------
(* Packets.                                                                 *)

(* What the network may hold for connection c: any frame the peer can have  *)
(* sent by now, first copy or repetition.                                   *)
OnNetwork(c) ==
  {f \in Frame :
     /\ f.kind = "ordered" => f.idx < released[c][f.chan] + Ahead
     /\ f.kind = "sequenced" => /\ f.idx <= newest[c][f.chan] + Stray
                                /\ f.idx >= newest[c][f.chan] - Stray}

(* process_packet up to its frame loop.                                     *)
Arrive(c, frames) ==
  /\ Idle
  /\ \A i \in DOMAIN frames : frames[i] \in OnNetwork(c)
  /\ packet' = [on |-> TRUE, conn |-> c, frames |-> frames,
                done |-> {}, failed |-> FALSE]
  /\ UNCHANGED <<connVars, endpointVars, drain, history>>

(* The tail of process_packet: the packet is recorded for acknowledgement   *)
(* only if none of its frames failed.                                       *)
FinishPacket ==
  /\ packet.on /\ ~drain.on /\ packet.frames = <<>>
  /\ acked' = IF packet.failed THEN acked
              ELSE [acked EXCEPT ![packet.conn] = @ \cup packet.done]
  /\ packet' = NoPacket
  /\ UNCHANGED <<connVars, endpointVars, drain, released, newest, delivered,
                 copies, aborts>>

(* The frame loop is at frame f of a packet of connection c.                *)
AtFrame(c, f) ==
  /\ packet.on /\ ~drain.on /\ packet.conn = c
  /\ packet.frames # <<>> /\ f = Head(packet.frames)

(* Fault: a refused frame does not fail its packet.                         *)
FrameDoneAnyway(f, ok) ==
  packet' = [packet EXCEPT !.frames = Tail(@),
                           !.done = IF Reliable(f) THEN @ \cup {f} ELSE @]

FrameDone(f, ok) ==
  packet' = [packet EXCEPT !.frames = Tail(@),
                           !.done = IF Reliable(f) THEN @ \cup {f} ELSE @,
                           !.failed = @ \/ ~ok]

-----------------------------------------------------------------------------
(* deliver_frame: one action for each way it can end.                       *)

IsNext(c, f) == CSeq(f) = expected[c][f.chan]
IsLater(c, f) == SeqAfter(CSeq(f), expected[c][f.chan], SeqSpace)
(* Fault: only a repetition of the newest counts as old.                    *)
IsFreshOther(c, f) == latest[c][f.chan] # <<>> => CSeq(f) # latest[c][f.chan][1]
IsFresh(c, f) == latest[c][f.chan] # <<>> =>
                   SeqAfter(CSeq(f), latest[c][f.chan][1], SeqSpace)

(* A reliable message already seen, an ordered one from before the expected *)
(* one, a sequenced one not newer than the newest: accepted and dropped.    *)
IgnoreFrame(c, f) ==
  /\ AtFrame(c, f)
  /\ \/ Reliable(f) /\ f \in seen[c]
     \/ f.kind = "ordered" /\ ~IsNext(c, f) /\ ~IsLater(c, f)
     \/ f.kind = "sequenced" /\ ~IsFresh(c, f)
  /\ FrameDone(f, TRUE)
  /\ UNCHANGED <<connVars, endpointVars, drain, history>>

(* Fault: one held frame counts as none.                                    *)
StartDrainOverOne(c, first, last) ==
  drain' = IF holdCount <= 1 THEN NoDrain
           ELSE [on |-> TRUE, conn |-> c, chan |-> first, last |-> last]
(* Fault: only the first channel is drained.                                *)
StartDrainFirst(c, first, last) ==
  drain' = IF holdCount = 0 THEN NoDrain
           ELSE [on |-> TRUE, conn |-> c, chan |-> first, last |-> first]

(* drain_ordered and drain_all_ordered scan nothing when no slot is used.   *)
StartDrain(c, first, last) ==
  drain' = IF holdCount = 0 THEN NoDrain
           ELSE [on |-> TRUE, conn |-> c, chan |-> first, last |-> last]

DeliverOrdered(c, f) ==
  /\ AtFrame(c, f)
  /\ f.kind = "ordered" /\ f \notin seen[c] /\ IsNext(c, f) /\ Room
  /\ recvq' = Append(recvq, Ev(c, f))
  /\ seen' = [seen EXCEPT ![c] = @ \cup {f}]
  /\ expected' = [expected EXCEPT ![c][f.chan] = Succ(@, SeqSpace)]
  /\ released' = [released EXCEPT ![c][f.chan] = @ + 1]
  /\ StartDrain(c, f.chan, f.chan)
  /\ FrameDone(f, TRUE)
  /\ UNCHANGED <<latest, holds, holdCount, newest, delivered, copies, acked, aborts>>

(* hold_ordered: a slot that already holds this sequence number of the      *)
(* channel, or else a free one.                                             *)
Rivals(c, f) == {h \in holds : /\ h.conn = c /\ h.frame.chan = f.chan
                               /\ CSeq(h.frame) = CSeq(f)}
(* Fault: the slots are not counted.                                        *)
CanHoldMore(c, f) == IF holdCount > 0 /\ Rivals(c, f) # {}
                     THEN Ev(c, f) \in holds ELSE TRUE
CanHold(c, f) == IF holdCount > 0 /\ Rivals(c, f) # {}
                 THEN Ev(c, f) \in holds
                 ELSE Cardinality(holds) < MaxHolds

HoldFrame(c, f) ==
  /\ AtFrame(c, f)
  /\ f.kind = "ordered" /\ f \notin seen[c] /\ ~IsNext(c, f) /\ IsLater(c, f)
  /\ CanHold(c, f)
  /\ holds' = holds \cup {Ev(c, f)}
  /\ holdCount' = IF Ev(c, f) \in holds THEN holdCount ELSE holdCount + 1
  /\ seen' = [seen EXCEPT ![c] = @ \cup {f}]
  /\ FrameDone(f, TRUE)
  /\ UNCHANGED <<expected, latest, recvq, drain, history>>

(* Fault: the message is not marked seen.                                   *)
DeliverUnmarked(c, f) ==
  /\ AtFrame(c, f)
  /\ f.kind = "unordered" /\ f \notin seen[c] /\ Room
  /\ recvq' = Append(recvq, Ev(c, f))
  /\ copies' = [copies EXCEPT ![c][f] = @ + 1]
  /\ FrameDone(f, TRUE)
  /\ UNCHANGED <<connVars, holds, holdCount, drain, released, newest,
                 delivered, acked, aborts>>

DeliverUnordered(c, f) ==
  /\ AtFrame(c, f)
  /\ f.kind = "unordered" /\ f \notin seen[c] /\ Room
  /\ recvq' = Append(recvq, Ev(c, f))
  /\ seen' = [seen EXCEPT ![c] = @ \cup {f}]
  /\ copies' = [copies EXCEPT ![c][f] = @ + 1]
  /\ FrameDone(f, TRUE)
  /\ UNCHANGED <<expected, latest, holds, holdCount, drain, released, newest,
                 delivered, acked, aborts>>

(* The newest number advances even when the queue has no room for the data. *)
DeliverSequenced(c, f) ==
  /\ AtFrame(c, f)
  /\ f.kind = "sequenced" /\ IsFresh(c, f)
  /\ latest' = [latest EXCEPT ![c][f.chan] = <<CSeq(f)>>]
  /\ newest' = [newest EXCEPT ![c][f.chan] = f.idx]
  /\ recvq' = IF Room THEN Append(recvq, Ev(c, f)) ELSE recvq
  /\ FrameDone(f, TRUE)
  /\ UNCHANGED <<expected, seen, holds, holdCount, drain, released, delivered,
                 copies, acked, aborts>>

DeliverUnreliable(c, f) ==
  /\ AtFrame(c, f)
  /\ f.kind = "unreliable"
  /\ recvq' = IF Room THEN Append(recvq, Ev(c, f)) ELSE recvq
  /\ FrameDone(f, TRUE)
  /\ UNCHANGED <<connVars, holds, holdCount, drain, history>>

(* A reliable frame for which there is no room fails its packet.            *)
RefuseFrame(c, f) ==
  /\ AtFrame(c, f)
  /\ Reliable(f) /\ f \notin seen[c]
  /\ \/ f.kind = "unordered" /\ ~Room
     \/ f.kind = "ordered" /\ IsNext(c, f) /\ ~Room
     \/ f.kind = "ordered" /\ ~IsNext(c, f) /\ IsLater(c, f) /\ ~CanHold(c, f)
  /\ FrameDone(f, FALSE)
  /\ UNCHANGED <<connVars, endpointVars, drain, history>>

-----------------------------------------------------------------------------
(* The drain loop and the application.                                      *)

(* Fault: the holds of other connections count too.                         *)
ReadyHoldsOfAny(c, ch) ==
  {h \in holds : h.frame.chan = ch /\ CSeq(h.frame) = expected[c][ch]}

ReadyHolds(c, ch) == {h \in holds : /\ h.conn = c /\ h.frame.chan = ch
                                    /\ CSeq(h.frame) = expected[c][ch]}

(* Fault: ordered_hold_count is not decremented.                            *)
DrainReleaseUncounted(h) ==
  /\ drain.on /\ Room
  /\ h \in ReadyHolds(drain.conn, drain.chan)
  /\ recvq' = Append(recvq, h)
  /\ holds' = holds \ {h}
  /\ expected' = [expected EXCEPT ![h.conn][h.frame.chan] = Succ(@, SeqSpace)]
  /\ released' = [released EXCEPT ![h.conn][h.frame.chan] = @ + 1]
  /\ UNCHANGED <<holdCount, latest, seen, packet, drain, newest, delivered,
                 copies, acked, aborts>>

(* drain_ordered: move the hold whose turn it is to the receive queue.      *)
DrainRelease(h) ==
  /\ drain.on /\ Room
  /\ h \in ReadyHolds(drain.conn, drain.chan)
  /\ recvq' = Append(recvq, h)
  /\ holds' = holds \ {h}
  /\ holdCount' = IF holdCount > 0 THEN holdCount - 1 ELSE holdCount
  /\ expected' = [expected EXCEPT ![h.conn][h.frame.chan] = Succ(@, SeqSpace)]
  /\ released' = [released EXCEPT ![h.conn][h.frame.chan] = @ + 1]
  /\ UNCHANGED <<latest, seen, packet, drain, newest, delivered, copies, acked, aborts>>

(* drain_all_ordered: on to the next channel.                               *)
DrainNextChannel ==
  /\ drain.on /\ Room /\ drain.chan < drain.last
  /\ ReadyHolds(drain.conn, drain.chan) = {}
  /\ drain' = [drain EXCEPT !.chan = @ + 1]
  /\ UNCHANGED <<connVars, endpointVars, packet, history>>

(* Both loops end when the queue is full, or after the last channel.        *)
DrainEnd ==
  /\ drain.on
  /\ \/ ~Room
     \/ drain.chan = drain.last /\ ReadyHolds(drain.conn, drain.chan) = {}
  /\ drain' = NoDrain
  /\ UNCHANGED <<connVars, endpointVars, packet, history>>

(* rudp_recv and its borrowing forms: pop one event, then drain the holds   *)
(* of that event's connection, and of no other.                             *)
AppRecv ==
  /\ Idle /\ recvq # <<>>
  /\ LET e == Head(recvq) IN
       /\ recvq' = Tail(recvq)
       /\ delivered' = IF e.frame.kind = "ordered"
                       THEN [delivered EXCEPT ![e.conn][e.frame.chan] = Append(@, e.frame.idx)]
                       ELSE delivered
       /\ StartDrain(e.conn, 0, NumChannels - 1)
  /\ UNCHANGED <<connVars, holds, holdCount, packet, released, newest, copies,
                 acked, aborts>>

(* r is the receive queue q without the events of connection c, in order.   *)
IsWithout(r, q, c) ==
  \E at \in [1..Len(r) -> DOMAIN q] :
    /\ \A i, j \in DOMAIN at : i < j => at[i] < at[j]
    /\ {at[i] : i \in DOMAIN at} = {i \in DOMAIN q : q[i].conn # c}
    /\ \A i \in DOMAIN at : r[i] = q[at[i]]

(* abort_conn_internal, and create_conn_at when the connection is made      *)
(* again: nothing of the old incarnation is left in the shared pools.       *)
Abort(c, r) ==
  /\ Idle /\ aborts < MaxAborts
  /\ IsWithout(r, recvq, c)
  /\ recvq' = r
  /\ holds' = {h \in holds : h.conn # c}
  /\ holdCount' = holdCount - Cardinality({h \in holds : h.conn = c})
  /\ expected' = [expected EXCEPT ![c] = [ch \in Channels |-> 0]]
  /\ latest' = [latest EXCEPT ![c] = [ch \in Channels |-> <<>>]]
  /\ seen' = [seen EXCEPT ![c] = {}]
  /\ released' = [released EXCEPT ![c] = [ch \in Channels |-> 0]]
  /\ newest' = [newest EXCEPT ![c] = [ch \in Channels |-> -1]]
  /\ delivered' = [delivered EXCEPT ![c] = [ch \in Channels |-> <<>>]]
  /\ copies' = [copies EXCEPT ![c] = [f \in UnorderedFrame |-> 0]]
  /\ acked' = [acked EXCEPT ![c] = {}]
  /\ aborts' = aborts + 1
  /\ UNCHANGED <<packet, drain>>

-----------------------------------------------------------------------------
Packets == UNION {[1..n -> Frame] : n \in 1..MaxFrames}
ShorterQueues == UNION {[1..n -> {recvq[i] : i \in DOMAIN recvq}] : n \in 0..Len(recvq)}

Deliver(c, f) ==
  \/ IgnoreFrame(c, f) \/ DeliverOrdered(c, f) \/ HoldFrame(c, f)
  \/ DeliverUnordered(c, f) \/ DeliverSequenced(c, f)
  \/ DeliverUnreliable(c, f) \/ RefuseFrame(c, f)

(* What the thread does by itself, once a packet or a drain is under way.   *)
Internal ==
  \/ \E c \in Conns, f \in Frame : Deliver(c, f)
  \/ \E h \in holds : DrainRelease(h)
  \/ DrainNextChannel \/ DrainEnd \/ FinishPacket

Next ==
  \/ \E c \in Conns, frames \in Packets : Arrive(c, frames)
  \/ Internal
  \/ AppRecv
  \/ \E c \in Conns, r \in ShorterQueues : Abort(c, r)

Spec == Init /\ [][Next]_vars

(* The frame that is needed next reaches an idle endpoint with room in its  *)
(* queue.                                                                   *)
NextNeeded(c, ch) ==
  \E f \in Frame : /\ f.kind = "ordered" /\ f.chan = ch /\ f.idx = released[c][ch]
                   /\ Room /\ Arrive(c, <<f>>)
-----------------------------------------------------------------------------
(* Properties.                                                              *)

PacketType ==
  [on : {TRUE}, conn : Conns, frames : Seq(Frame), done : SUBSET Frame, failed : BOOLEAN]
DrainType == [on : {TRUE}, conn : Conns, chan : Channels, last : Channels]

(* Every variable keeps its shape, and the two shared pools their size: no  *)
(* step queues an event without room or holds a frame without a free slot.  *)
TypeOK ==
  /\ expected \in [Conns -> [Channels -> 0..(SeqSpace - 1)]]
  /\ latest \in [Conns -> [Channels -> {<<>>} \cup {<<s>> : s \in 0..(SeqSpace - 1)}]]
  /\ seen \in [Conns -> SUBSET Frame]
  /\ holds \in SUBSET Event /\ Cardinality(holds) <= MaxHolds
  /\ holdCount \in Int
  /\ recvq \in Seq(Event) /\ Len(recvq) <= MaxRecv
  /\ packet \in PacketType \cup {NoPacket}
  /\ drain \in DrainType \cup {NoDrain}
  /\ released \in [Conns -> [Channels -> Nat]]
  /\ newest \in [Conns -> [Channels -> Int]]
  /\ delivered \in [Conns -> [Channels -> Seq(Nat)]]
  /\ copies \in [Conns -> [UnorderedFrame -> Nat]]
  /\ acked \in [Conns -> SUBSET Frame]
  /\ aborts \in Nat

(* Whatever the network repeats, reorders or loses, and wherever the 16-bit *)
(* numbers wrap, the application gets the ordered messages of a channel     *)
(* once each and in the order they were sent, with no gap.                  *)
InOrder ==
  \A c \in Conns, ch \in Channels :
    \A i \in DOMAIN delivered[c][ch] : delivered[c][ch][i] = i - 1

(* No lost wake-up.  drain_ordered runs only when an event of the hold's    *)
(* own connection is popped or a frame of its channel is delivered, so a    *)
(* hold whose turn has come, left behind because the shared queue was full, *)
(* must have an event of its connection still in the queue.                 *)
NoStrandedHold ==
  Idle => \A h \in holds :
            CSeq(h.frame) = expected[h.conn][h.frame.chan] =>
              \E i \in DOMAIN recvq : recvq[i].conn = h.conn

(* The peer forgets a message once its packet is acknowledged: by then the  *)
(* message is with the application, in the receive queue or held, even when *)
(* another frame of the packet, or a hold slot, was refused.                *)
AckedIsKept ==
  \A c \in Conns : \A f \in acked[c] :
    \/ f.kind = "unordered" /\ copies[c][f] = 1
    \/ f.kind = "ordered" /\ \/ f.idx < Len(delivered[c][f.chan])
                             \/ \E i \in DOMAIN recvq : recvq[i] = Ev(c, f)
                             \/ Ev(c, f) \in holds

(* A reliable unordered message is queued at most once, although a packet   *)
(* that failed for another frame is sent again with this one in it.         *)
UnorderedOnce ==
  \A c \in Conns, f \in UnorderedFrame : copies[c][f] <= 1

(* ordered_hold_count is the number of used slots in every reachable state: *)
(* it gates the drains, so a count that drifted to 0 would strand holds.    *)
HoldCountExact == holdCount = Cardinality(holds)

(* Sequenced messages are passed on in the order they were sent: none is    *)
(* queued after a newer one of its stream.                                  *)
SequencedForward ==
  [][aborts' = aborts =>
       \A c \in Conns, ch \in Channels : newest'[c][ch] >= newest[c][ch]]_vars
=============================================================================
