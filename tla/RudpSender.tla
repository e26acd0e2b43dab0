----------------------------- MODULE RudpSender -----------------------------
(***************************************************************************)
(* The sending side of one coop_rudp connection: rudp_send, the loop of     *)
(* rudp_endpoint_flush, the send batch handed to the socket, the sent       *)
(* packets and their retransmission, and the acknowledgements.              *)
(*                                                                          *)
(* One thread runs the endpoint, so an acknowledgement is processed only    *)
(* between two flushes.  Time is left out: a timeout, a deadline or the     *)
(* pacing may strike at any moment the code tests for it.  The socket may   *)
(* take any part of a batch, and the network may lose, repeat and reorder   *)
(* what it took, and the acknowledgements.  A fragment is a message of its  *)
(* own here, and flows have no rate limit and no priority (the defaults).   *)
(* Packet numbers are plain: SeqAfterIsLater is why the 32-bit comparison   *)
(* agrees.                                                                  *)
(***************************************************************************)
EXTENDS Integers, Sequences, FiniteSets, SequencesExt

CONSTANTS
  NumFlows,            \* max_flows
  SkipUnreliableAcks,  \* skip_unreliable_acks
  AckWindow,           \* RUDP_ACK_WINDOW, the width of the ack bitmap: 64
  RefsPerPacket,       \* RUDP_MAX_REFS_PER_PACKET: 16
  LossThreshold,       \* RUDP_LOSS_PACKET_THRESHOLD: 3
  MaxLostSeqs,         \* RUDP_MAX_LOST_ACK_SEQS: 4
  RingCap,             \* entries a flow's ring can hold
  SlotCount,           \* sent_packet_count
  BatchSize,           \* send_batch_size
  MaxMessages,         \* max_messages
  Kinds,               \* message classes the application uses
  MaxSent,             \* bound: messages sent
  MaxSeq               \* bound: packet numbers used

ASSUME SenderAssumption ==
  /\ {NumFlows, AckWindow, RefsPerPacket, LossThreshold, MaxLostSeqs, RingCap,
      SlotCount, BatchSize, MaxMessages, MaxSent, MaxSeq} \subseteq Nat \ {0}
  /\ SkipUnreliableAcks \in BOOLEAN
  /\ Kinds \subseteq {"unreliable", "unordered", "ordered"}

Flows == 0..(NumFlows - 1)
Sources == {"unreliable", "reliable", "retry"}
SlotIds == 0..(SlotCount - 1)
Msgs == 1..MaxSent
Seqs == 1..MaxSeq

VARIABLES
  info,      \* flow and class of each message sent so far
  queue,     \* unreliable_q, reliable_q and retry_q of each flow
  cursor,    \* flow_cursor
  filling,   \* the flush loop is running
  blocked,   \* reliable_blocked
  firstSeq,  \* batch_reliable_first_seq, 0 if none
  batch,     \* the send batch: packets with the messages and their sources
  nextSeq,   \* next_packet_seq
  sent,      \* sent_packets: number and references of each slot
  tracked,   \* sent_seq_queue
  armed,     \* next_retx_ns is set
  lost,      \* lost_ack_seqs of each message
  lateCount, \* late_ack_msg_count
  wire,      \* history: what each packet the socket took carried
  heard,     \* packets the peer recorded for acknowledgement
  done,      \* history: reliable messages freed as delivered
  expired,   \* history: messages dropped at their deadline or replaced
  dropped    \* history: reliable messages dropped for want of room

flush == <<cursor, filling, blocked, firstSeq, batch, nextSeq>>
flight == <<sent, tracked, armed, lost, lateCount>>
history == <<wire, heard, done, expired, dropped>>
vars == <<info, queue, flush, flight, history>>

Unused == [seq |-> 0, refs |-> <<>>]
Reliable(m) == info[m].kind # "unreliable"

Init ==
  /\ info = <<>>
  /\ queue = [f \in Flows |-> [s \in Sources |-> <<>>]]
  /\ cursor = 0 /\ filling = FALSE /\ blocked = FALSE /\ firstSeq = 0
  /\ batch = <<>> /\ nextSeq = 1
  /\ sent = [s \in SlotIds |-> Unused] /\ tracked = <<>> /\ armed = FALSE
  /\ lost = [m \in Msgs |-> <<>>] /\ lateCount = 0
  /\ wire = [s \in Seqs |-> {}] /\ heard = {}
  /\ done = {} /\ expired = {} /\ dropped = {}

-----------------------------------------------------------------------------
(* Where messages are.                                                      *)

InRing(f, src) == ToSet(queue[f][src])
Queued == UNION {InRing(f, src) : f \in Flows, src \in Sources}
Items(p) == {p.items[i].msg : i \in DOMAIN p.items}
InBatch == UNION {Items(batch[i]) : i \in DOMAIN batch}
InFlight == UNION {ToSet(sent[s].refs) : s \in SlotIds}
Alive == Queued \cup InBatch \cup InFlight

(* sent_packet_for_seq                                                      *)
Slot(seq) == seq % SlotCount
IsUsed(seq) == sent[Slot(seq)].seq = seq
Refs(seq) == sent[Slot(seq)].refs

(* The entries of s that are in S, in their order (SelectSeq, in a form the *)
(* proofs can unfold).                                                      *)
Only(s, S) ==
  LET kept[i \in 0..Len(s)] ==
        IF i = 0 THEN <<>>
        ELSE IF s[i] \in S THEN Append(kept[i - 1], s[i]) ELSE kept[i - 1]
  IN kept[Len(s)]
LiveTracked == Only(tracked, {seq \in Seqs : IsUsed(seq)})   \* prune_sent_seq_queue

LastOf(n, s) == SubSeq(s, 1 + (IF Len(s) > n THEN Len(s) - n ELSE 0), Len(s))
FirstOf(n, s) == SubSeq(s, 1, IF Len(s) > n THEN n ELSE Len(s))

-----------------------------------------------------------------------------
(* rudp_send of one frame.  An unreliable message replaces the queued ones  *)
(* of its replace_key, any part of the flow's unreliable ring.              *)
Send(f, kind, replaced) ==
  LET src == IF kind = "unreliable" THEN "unreliable" ELSE "reliable"
      kept == Only(queue[f][src], Msgs \ replaced)
      m == Len(info) + 1
  IN /\ ~filling /\ m <= MaxSent
     /\ replaced \subseteq IF kind = "unreliable" THEN InRing(f, src) ELSE {}
     /\ Cardinality(Alive \ replaced) < MaxMessages /\ Len(kept) < RingCap
     /\ info' = Append(info, [flow |-> f, kind |-> kind])
     /\ queue' = [queue EXCEPT ![f][src] = Append(kept, m)]
     /\ expired' = expired \cup replaced
     /\ UNCHANGED <<flush, flight, wire, heard, done, dropped>>

-----------------------------------------------------------------------------
(* Losing packets: mark_packet_lost on each packet of gone, in this order.  *)

LostMsgs(gone) == FlattenSeq([i \in DOMAIN gone |-> Refs(gone[i])])
LostIn(gone, m) == Only(gone, {seq \in Seqs : m \in ToSet(Refs(seq))})
(* Fault: no number is pushed out.                                          *)
LostAfterAll(gone, m) == lost[m] \o LostIn(gone, m)
LostAfter(gone, m) ==   \* note_msg_lost_seq
  LastOf(MaxLostSeqs, lost[m] \o LostIn(gone, m))
LostOfFlow(gone, f) == Only(LostMsgs(gone), {m \in DOMAIN info : info[m].flow = f})
RetryAfter(gone, f) ==  \* queue_retransmit
  FirstOf(RingCap, queue[f]["retry"] \o LostOfFlow(gone, f))
NoRoom(gone) ==
  ToSet(LostMsgs(gone)) \ UNION {ToSet(RetryAfter(gone, f)) : f \in Flows}
(* Fault: a message is counted at each loss.                                *)
NewlyLostAgain(gone) == ToSet(LostMsgs(gone))
NewlyLost(gone) == {m \in ToSet(LostMsgs(gone)) : lost[m] = <<>>}

(* next_retx_ns after the round: the earliest due time of the packets left. *)
Rearmed(left) == left # <<>>

(* rudp_endpoint_flush begins with service_retransmits: the packets that    *)
(* are due are the ones recorded first.                                     *)
StartFlush(n) ==
  LET gone == SubSeq(LiveTracked, 1, n)
      left == SubSeq(LiveTracked, n + 1, Len(LiveTracked))
  IN /\ ~filling /\ armed /\ n <= Len(LiveTracked)
     /\ sent' = [s \in SlotIds |-> IF sent[s].seq \in ToSet(gone) THEN Unused ELSE sent[s]]
     /\ tracked' = left
     /\ armed' = Rearmed(left)
     /\ queue' = [f \in Flows |-> [queue[f] EXCEPT !["retry"] = RetryAfter(gone, f)]]
     /\ dropped' = dropped \cup NoRoom(gone)
     /\ lost' = [m \in Msgs |-> IF m \in NoRoom(gone) THEN <<>> ELSE LostAfter(gone, m)]
     /\ lateCount' = lateCount + Cardinality(NewlyLost(gone)) - Cardinality(NoRoom(gone))
     /\ filling' = TRUE /\ blocked' = FALSE /\ firstSeq' = 0
     /\ UNCHANGED <<info, cursor, batch, nextSeq, wire, heard, done, expired>>

(* The retransmission time is not set or has not come.                      *)
StartFlushEarly ==
  /\ ~filling
  /\ filling' = TRUE /\ blocked' = FALSE /\ firstSeq' = 0
  /\ UNCHANGED <<info, queue, cursor, batch, nextSeq, flight, history>>

-----------------------------------------------------------------------------
(* The flush loop.                                                          *)

(* pick_from_flow: the ring the flow is served from.                        *)
SourceOf(f) ==
  IF blocked THEN "unreliable"
  ELSE IF queue[f]["retry"] # <<>> THEN "retry"
  ELSE IF queue[f]["reliable"] # <<>> THEN "reliable" ELSE "unreliable"
Servable == {f \in Flows : queue[f][SourceOf(f)] # <<>>}
Retrying == {f \in Servable : queue[f]["retry"] # <<>>}
FromCursor(f) == (f - cursor) % NumFlows

(* pick_next_msg: flows that have something to retry, then round robin.     *)
IsPicked(f) ==
  IF Retrying # {} THEN f \in Retrying /\ \A g \in Retrying : f <= g
  ELSE f \in Servable /\ \A g \in Servable : FromCursor(f) <= FromCursor(g)
MoveCursor(f) == cursor' = IF Retrying # {} THEN cursor ELSE (f + 1) % NumFlows

(* pick_from_queue drops what has missed its deadline, except ordered data. *)
ExpireHead(f) ==
  LET m == Head(queue[f][SourceOf(f)])
  IN /\ filling /\ Len(batch) < BatchSize /\ IsPicked(f)
     /\ info[m].kind # "ordered"
     /\ queue' = [queue EXCEPT ![f][SourceOf(f)] = Tail(@)]
     /\ expired' = expired \cup {m}
     /\ lost' = [lost EXCEPT ![m] = <<>>]
     /\ lateCount' = IF lost[m] = <<>> THEN lateCount ELSE lateCount - 1
     /\ UNCHANGED <<info, flush, sent, tracked, armed, wire, heard, done, dropped>>

PacketRefs(p) ==
  Only([i \in DOMAIN p.items |-> p.items[i].msg], {m \in DOMAIN info : Reliable(m)})
SlotAvailable(seq) ==   \* sent_slot_available
  /\ sent[Slot(seq)].seq = 0
  /\ \A i \in DOMAIN batch : PacketRefs(batch[i]) # <<>> => Slot(batch[i].seq) # Slot(seq)

(* batch_packet_can_add_reliable                                            *)
CanAddReliable(p) ==
  PacketRefs(p) # <<>> \/ (p.seq # 0 /\ SlotAvailable(p.seq))

(* append_msg_to_batch_packet on the last packet of the batch.              *)
CanJoin(m) ==
  /\ batch # <<>> /\ Len(Last(batch).items) < RefsPerPacket
  /\ Reliable(m) => CanAddReliable(Last(batch))

(* Fault: one number too many.                                              *)
WindowPlusOne(seq) ==
  LET oldest == IF LiveTracked # <<>> THEN Head(LiveTracked) ELSE firstSeq
  IN oldest # 0 => seq - oldest <= AckWindow

(* reliable_window_allows                                                   *)
WindowAllows(seq) ==
  LET oldest == IF LiveTracked # <<>> THEN Head(LiveTracked) ELSE firstSeq
  IN oldest # 0 => seq - oldest < AckWindow

Take(f) == queue' = [queue EXCEPT ![f][SourceOf(f)] = Tail(@)]
Item(f) == [msg |-> Head(queue[f][SourceOf(f)]), src |-> SourceOf(f)]
Chosen(f) ==
  /\ filling /\ Len(batch) < BatchSize /\ IsPicked(f)
  /\ MoveCursor(f)

(* try_append_to_previous_packet succeeds: there is room in the mtu.        *)
JoinPacket(f) ==
  /\ Chosen(f) /\ CanJoin(Item(f).msg)
  /\ Take(f)
  /\ batch' = [batch EXCEPT ![Len(batch)].items = Append(@, Item(f))]
  /\ UNCHANGED <<info, filling, blocked, firstSeq, nextSeq, flight, history>>

(* append_packet_for_msg of an unreliable message: a packet number is used  *)
(* for it unless skip_unreliable_acks is set.                               *)
NewUnreliable(f) ==
  /\ Chosen(f) /\ ~Reliable(Item(f).msg) /\ nextSeq <= MaxSeq
  /\ Take(f)
  /\ batch' = Append(batch, [seq |-> IF SkipUnreliableAcks THEN 0 ELSE nextSeq,
                             items |-> <<Item(f)>>])
  /\ nextSeq' = IF SkipUnreliableAcks THEN nextSeq ELSE nextSeq + 1
  /\ UNCHANGED <<info, filling, blocked, firstSeq, flight, history>>

(* next_packet_seq of a reliable message: the next number whose slot is     *)
(* free, if the window allows the next number.                              *)
FreeFrom(seq) == {s \in seq..(seq + SlotCount - 1) : SlotAvailable(s)}
NewReliable(f) ==
  /\ Chosen(f) /\ Reliable(Item(f).msg)
  /\ WindowAllows(nextSeq)
  /\ \E seq \in FreeFrom(nextSeq) :
       /\ seq <= MaxSeq /\ \A s \in FreeFrom(nextSeq) : seq <= s
       /\ batch' = Append(batch, [seq |-> seq, items |-> <<Item(f)>>])
       /\ nextSeq' = seq + 1
       /\ firstSeq' = IF firstSeq = 0 THEN seq ELSE firstSeq
  /\ tracked' = LiveTracked
  /\ Take(f)
  /\ UNCHANGED <<info, filling, blocked, sent, armed, lost, lateCount, history>>

(* No packet for the reliable message: it goes back to the front of its     *)
(* ring, and only unreliable messages are picked for the rest of the flush. *)
BlockReliable(f) ==
  /\ Chosen(f) /\ Reliable(Item(f).msg)
  /\ \/ ~WindowAllows(nextSeq)
     \/ FreeFrom(nextSeq) = {}
  /\ nextSeq' = IF WindowAllows(nextSeq) THEN nextSeq + SlotCount ELSE nextSeq
  /\ nextSeq' <= MaxSeq
  /\ tracked' = LiveTracked
  /\ blocked' = TRUE
  /\ UNCHANGED <<info, queue, filling, firstSeq, batch, sent, armed, lost,
                 lateCount, history>>

-----------------------------------------------------------------------------
(* flush_send_batch when the socket takes the first k packets.              *)

Took(k) == SubSeq(batch, 1, k)
Left(k) == SubSeq(batch, k + 1, Len(batch))
Recorded(k) == Only(Took(k), {p \in ToSet(batch) : PacketRefs(p) # <<>>})

(* record_sent_packet and track_reliable_seq                                *)
SentAfter(k) ==
  LET R == Recorded(k)
      Mine(s) == {i \in DOMAIN R : Slot(R[i].seq) = s}
      Latest(s) == CHOOSE i \in Mine(s) : \A j \in Mine(s) : j <= i
  IN [s \in SlotIds |->
        IF Mine(s) = {} THEN sent[s]
        ELSE [seq |-> R[Latest(s)].seq, refs |-> PacketRefs(R[Latest(s)])]]
TrackedAfter(k) ==
  LET fresh == [i \in DOMAIN Recorded(k) |-> Recorded(k)[i].seq]
      all == tracked \o fresh
  IN IF Len(all) <= SlotCount THEN all ELSE LastOf(SlotCount, LiveTracked \o fresh)

(* requeue_unsent_packet: the ring gets back at its front, and in order,    *)
(* what the unsent packets took from it.                                    *)
Unsent(k, f, src) ==
  LET items == Only(FlattenSeq([i \in DOMAIN Left(k) |-> Left(k)[i].items]),
                    {x \in [msg : DOMAIN info, src : {src}] : info[x.msg].flow = f})
  IN [i \in DOMAIN items |-> items[i].msg]
Requeued(k, f, src) == LastOf(RingCap, Unsent(k, f, src) \o queue[f][src])
Crowded(k) == UNION {ToSet(Unsent(k, f, src)) \ ToSet(Requeued(k, f, src)) :
                       f \in Flows, src \in Sources}

SendBatch(k) ==
  /\ queue' = [f \in Flows |-> [src \in Sources |-> Requeued(k, f, src)]]
  /\ sent' = SentAfter(k) /\ tracked' = TrackedAfter(k)
  /\ armed' = (armed \/ Recorded(k) # <<>>)
  /\ dropped' = dropped \cup {m \in Crowded(k) : Reliable(m)}
  /\ wire' = [s \in Seqs |->
                wire[s] \cup UNION {Items(batch[i]) : i \in {j \in 1..k : batch[j].seq = s}}]
  /\ batch' = <<>>

(* The batch is full: it is sent, and the loop ends unless all went out.    *)
SendFullBatch(k) ==
  /\ filling /\ Len(batch) = BatchSize /\ k <= BatchSize
  /\ SendBatch(k)
  /\ filling' = (k = BatchSize)
  /\ UNCHANGED <<info, cursor, blocked, firstSeq, nextSeq, lost, lateCount, heard, done, expired>>

(* Nothing is left to pick, or the pacing stops the loop.                   *)
EndFlush(k) ==
  /\ filling /\ k <= Len(batch)
  /\ SendBatch(k)
  /\ filling' = FALSE
  /\ UNCHANGED <<info, cursor, blocked, firstSeq, nextSeq, lost, lateCount, heard, done, expired>>

-----------------------------------------------------------------------------
(* The peer records a packet for acknowledgement (module AckTracker).       *)
PeerRecords(seq) ==
  /\ wire[seq] # {} /\ seq \notin heard
  /\ \A s \in heard : s - seq <= AckWindow
  /\ SkipUnreliableAcks => \E m \in wire[seq] : Reliable(m)
  /\ heard' = heard \cup {seq}
  /\ UNCHANGED <<info, queue, flush, flight, wire, done, expired, dropped>>

(* The acknowledgements that may be on the network: the bitmap of the time  *)
(* when ack was the newest packet of the peer holds any packets before it   *)
(* that it has recorded by now, for the others may have come later.         *)
Acks == {[ack |-> t, bits |-> S] : t \in heard, S \in SUBSET heard}
IsAck(a) == \A s \in a.bits : s < a.ack /\ a.ack - s <= AckWindow
(* Fault: the acknowledgement is taken to be cumulative.                    *)
CoversUpTo(a, seq) == seq <= a.ack
Covers(a, seq) == seq = a.ack \/ seq \in a.bits   \* ack_covers_seq

(* release_acked_packets: acknowledged packets are completed, those far     *)
(* enough behind count as lost; release_late_acked_messages then completes  *)
(* the messages of packets given up earlier, if there are any.              *)
ReceiveAck(a) ==
  LET Covered == {s \in Seqs : Covers(a, s)}
      Behind == {s \in Seqs : a.ack - s >= LossThreshold}
      covered == Only(LiveTracked, Covered)
      gone == Only(LiveTracked, Behind \ Covered)
      left == Only(LiveTracked, Seqs \ (Behind \cup Covered))
      acked == ToSet(LostMsgs(covered))
      full == NoRoom(gone)
      counted == lateCount + Cardinality(NewlyLost(gone))
                 - Cardinality({m \in acked \cup full : LostAfter(gone, m) # <<>>})
      Late(m) == \E i \in DOMAIN LostAfter(gone, m) : Covers(a, LostAfter(gone, m)[i])
      late == IF counted = 0 THEN {} ELSE {m \in Alive \ (acked \cup full) : Late(m)}
      freed == acked \cup full \cup late
      Kept(refs) == Only(refs, Msgs \ freed)
  IN /\ ~filling /\ a \in Acks /\ IsAck(a)
     /\ tracked' = left
     /\ sent' = [s \in SlotIds |->
                   IF sent[s].seq \in ToSet(covered \o gone) \/ Kept(sent[s].refs) = <<>>
                   THEN Unused ELSE [sent[s] EXCEPT !.refs = Kept(@)]]
     /\ queue' = [f \in Flows |->
                    [queue[f] EXCEPT !["retry"] = Kept(RetryAfter(gone, f))]]
     /\ lost' = [m \in Msgs |-> IF m \in freed THEN <<>> ELSE LostAfter(gone, m)]
     /\ lateCount' = counted - Cardinality(late)
     /\ done' = done \cup acked \cup late
     /\ dropped' = dropped \cup full
     /\ UNCHANGED <<info, flush, armed, wire, heard, expired>>

Next ==
  \/ \E f \in Flows, kind \in Kinds :
       \E replaced \in SUBSET InRing(f, "unreliable") : Send(f, kind, replaced)
  \/ \E n \in 0..SlotCount : StartFlush(n)
  \/ StartFlushEarly
  \/ \E f \in Flows : \/ ExpireHead(f) \/ JoinPacket(f) \/ NewUnreliable(f)
                      \/ NewReliable(f) \/ BlockReliable(f)
  \/ \E k \in 0..BatchSize : SendFullBatch(k) \/ EndFlush(k)
  \/ \E seq \in Seqs : PeerRecords(seq)
  \/ \E a \in Acks : ReceiveAck(a)

Spec == Init /\ [][Next]_vars

-----------------------------------------------------------------------------
TypeOK ==
  /\ info \in Seq([flow : Flows, kind : Kinds]) /\ Len(info) <= MaxSent
  /\ \A f \in Flows, src \in Sources :
       InRing(f, src) \subseteq DOMAIN info /\ Len(queue[f][src]) <= RingCap
  /\ cursor \in Flows /\ {filling, blocked, armed} \subseteq BOOLEAN
  /\ firstSeq \in 0..MaxSeq /\ nextSeq \in 1..(MaxSeq + 1)
  /\ Len(batch) <= BatchSize /\ \A i \in DOMAIN batch : batch[i].seq \in 0..MaxSeq
  /\ \A s \in SlotIds : sent[s].seq \in 0..MaxSeq /\ ToSet(sent[s].refs) \subseteq DOMAIN info
  /\ tracked \in Seq(Seqs) /\ Len(tracked) <= SlotCount
  /\ \A m \in Msgs : lost[m] \in Seq(Seqs) /\ Len(lost[m]) <= MaxLostSeqs
  /\ lateCount \in 0..MaxSent
  /\ wire \in [Seqs -> SUBSET Msgs] /\ heard \subseteq Seqs
  /\ done \cup expired \cup dropped \subseteq DOMAIN info

(* The places that hold a message: ring entries, batch packets, sent ones.  *)
Homes(m) ==
  LET ring(p) == queue[p[1]][p[2]]
  IN Cardinality({p \in Flows \X Sources \X (1..RingCap) :
                    p[3] \in DOMAIN ring(p) /\ ring(p)[p[3]] = m})
     + Cardinality({i \in DOMAIN batch : m \in Items(batch[i])})
     + Cardinality({s \in SlotIds : m \in ToSet(sent[s].refs)})

(* A reliable message the application handed over is in exactly one place   *)
(* until it is delivered or given up, and in none after that: it is neither *)
(* forgotten nor sent from two places, and no sent packet refers to a       *)
(* message slot that was freed.                                             *)
OneHome ==
  \A m \in DOMAIN info : Reliable(m) =>
    Homes(m) = IF m \in done \cup expired \cup dropped THEN 0 ELSE 1

(* A message is freed as delivered only if a packet that carried it reached *)
(* the peer.                                                                *)
DoneArrived == \A m \in done : \E seq \in heard : m \in wire[seq]

(* Each sent packet is in sent_seq_queue, and the retransmission time is    *)
(* set: whatever becomes of it, an acknowledgement or a timeout finds it.   *)
SentIsWatched ==
  \A s \in SlotIds : sent[s].seq # 0 =>
    sent[s].seq \in ToSet(tracked) /\ sent[s].refs # <<>> /\ armed

(* No reliable message is dropped for want of room in a ring: what is in    *)
(* flight fits the retry ring when all of it is lost at once.               *)
NothingDropped == dropped = {}

(* late_ack_msg_count, whose zero makes an acknowledgement skip the search  *)
(* for late-acknowledged messages, is the number of messages that have lost *)
(* a packet.                                                                *)
LateCountExact == lateCount = Cardinality({m \in Alive : lost[m] # <<>>})

(* The hand-kept books of the send path agree with each other: every        *)
(* message in one place, every sent packet on the list and under the timer, *)
(* and the count of late messages (record_sent_packet, release_acked_packets *)
(* and requeue_unsent_packet each keep a part of them).                     *)
BooksAgree == OneHome /\ SentIsWatched /\ LateCountExact

(* No reliable message is lost by the sender: what is freed arrived, and    *)
(* what did not is still to be sent.                                        *)
NothingLost == DoneArrived /\ NothingDropped

(* Reliable packets are issued within the width of the ack bitmap, counted  *)
(* from the oldest one unacknowledged.                                      *)
WithinAckWindow ==
  \A s, t \in SlotIds : sent[s].seq # 0 /\ sent[t].seq # 0 =>
    sent[s].seq - sent[t].seq < AckWindow
=============================================================================
