--------------------------- MODULE RudpReassembly ---------------------------
(***************************************************************************)
(* Reassembly of fragmented reliable messages: process_data_frame for       *)
(* frag_count > 1, find_or_alloc_reasm, expire_reassembly.  The slots are   *)
(* shared by all connections of the endpoint, as are the receive queue and  *)
(* the hold slots that a complete message goes to.                          *)
(*                                                                          *)
(* The messages of a connection are one ordered stream, named by position;  *)
(* two connections use the same msg_ids.  Each fragment travels in a packet *)
(* of its own, which the network may lose, repeat and reorder, and which    *)
(* the peer sends again until it is acknowledged.                           *)
(***************************************************************************)
EXTENDS Integers, Sequences, FiniteSets, FiniteSetsExt

CONSTANTS
  Conns,       \* connections of the endpoint
  NumMsgs,     \* bound: fragmented messages of a connection, all outstanding at once
  FragCount,   \* fragments of a message
  NumSlots,    \* max_reassemblies
  MaxHolds,    \* max_ordered_holds
  MaxRecv,     \* max_recv_events
  MaxExpiries  \* bound: messages whose slot may reach its deadline before they are done

ASSUME ReassemblyAssumption ==
  /\ {NumMsgs, NumSlots, MaxRecv} \subseteq Nat \ {0}
  /\ FragCount \in Nat /\ FragCount > 1 /\ {MaxHolds, MaxExpiries} \subseteq Nat

Msgs == 0..(NumMsgs - 1)
Frags == 1..FragCount
Messages == Conns \X Msgs
Part == Messages \X Frags   \* a fragment, named by its message and its index
SlotIds == 1..NumSlots

VARIABLES
  slots,     \* the reassembly slots: the message and the fragments stored
  arrived,   \* what each message marked seen consisted of; {} before that
  expected,  \* expected_ordered of each connection's channel
  holds,     \* messages in the ordered hold slots
  recvq,     \* the receive queue
  acked,     \* history: fragments whose packet was recorded for ack
  open,      \* active connections
  expired    \* history: messages whose slot has expired
delivery == <<arrived, expected, holds, recvq>>
reasmVars == <<slots, delivery, acked, open, expired>>

NoSlot == [used |-> FALSE]

ReasmInit ==
  /\ slots = [s \in SlotIds |-> NoSlot]
  /\ arrived = [m \in Messages |-> {}]
  /\ expected = [c \in Conns |-> 0]
  /\ holds = {} /\ recvq = <<>>
  /\ acked = {} /\ open = Conns /\ expired = {}

HandedOn(m) == arrived[m] # {}

-----------------------------------------------------------------------------
(* deliver_frame of a complete ordered message.                             *)

(* drain_ordered on connection c, from hold slots h and receive queue q     *)
(* when e is expected: the held run that starts at e, as far as q has room. *)
Drain(c, h, q, e) ==
  LET Run(k) == {<<c, i>> : i \in e..(e + k - 1)}
      k == Max({n \in 0..(MaxRecv - Len(q)) : Run(n) \subseteq h})
  IN /\ holds' = h \ Run(k)
     /\ recvq' = q \o [i \in 1..k |-> <<c, e + i - 1>>]
     /\ expected' = [expected EXCEPT ![c] = e + k]

(* Fault: the last place of the queue is not used.                          *)
CanDeliverLess(m) ==
  IF m[2] = expected[m[1]] THEN Len(recvq) + 1 < MaxRecv
                           ELSE Cardinality(holds) < MaxHolds

CanDeliver(m) ==
  IF m[2] = expected[m[1]] THEN Len(recvq) < MaxRecv
                           ELSE Cardinality(holds) < MaxHolds

(* parts are the bytes handed on as message m.                              *)
Deliver(m, parts) ==
  /\ arrived' = [arrived EXCEPT ![m] = parts]
  /\ IF m[2] = expected[m[1]]
     THEN Drain(m[1], holds, Append(recvq, m), m[2] + 1)
     ELSE holds' = holds \cup {m} /\ UNCHANGED <<recvq, expected>>

-----------------------------------------------------------------------------
(* process_data_frame on fragment f of message m.                           *)

Complete(slot) == {p[2] : p \in slot.parts} = Frags
Has(slot, f) == \E p \in slot.parts : p[2] = f

(* find_or_alloc_reasm: the used slot of this connection and msg_id, or     *)
(* else the first free one.                                                 *)
(* Fault: the connection is not compared.                                   *)
OwnedByAny(m) == {s \in SlotIds : slots[s].used /\ slots[s].msg[2] = m[2]}
Owned(m) == {s \in SlotIds : slots[s].used /\ slots[s].msg = m}
Free == {s \in SlotIds : ~slots[s].used}
Usable(m) == IF Owned(m) # {} THEN Owned(m) ELSE Free
Find(m) == Min(Usable(m))
Filled(s, m, f) ==
  IF slots[s].used /\ Has(slots[s], f) THEN slots[s]
  ELSE [used |-> TRUE, msg |-> m,
        parts |-> {<<m, f>>} \cup (IF slots[s].used THEN slots[s].parts ELSE {})]

(* The message was delivered or held before.                                *)
IgnoreFragment(m, f) ==
  /\ m[1] \in open /\ HandedOn(m)
  /\ acked' = acked \cup {<<m, f>>}
  /\ UNCHANGED <<slots, delivery, open, expired>>

(* The fragment is stored, or was already, and others are missing.          *)
StoreFragment(m, f) ==
  /\ m[1] \in open /\ ~HandedOn(m) /\ Usable(m) # {}
  /\ ~Complete(Filled(Find(m), m, f))
  /\ slots' = [slots EXCEPT ![Find(m)] = Filled(Find(m), m, f)]
  /\ acked' = acked \cup {<<m, f>>}
  /\ UNCHANGED <<delivery, open, expired>>

(* All fragments are there and the message goes on to deliver_frame.        *)
FinishMessage(m, f) ==
  /\ m[1] \in open /\ ~HandedOn(m) /\ Usable(m) # {}
  /\ Complete(Filled(Find(m), m, f)) /\ CanDeliver(m)
  /\ Deliver(m, Filled(Find(m), m, f).parts)
  /\ slots' = [slots EXCEPT ![Find(m)] = NoSlot]
  /\ acked' = acked \cup {<<m, f>>}
  /\ UNCHANGED <<open, expired>>

(* All are there and there is no room for the message: the slot keeps it,   *)
(* and the packet is not acknowledged.                                      *)
KeepComplete(m, f) ==
  /\ m[1] \in open /\ ~HandedOn(m) /\ Usable(m) # {}
  /\ Complete(Filled(Find(m), m, f)) /\ ~CanDeliver(m)
  /\ slots' = [slots EXCEPT ![Find(m)] = Filled(Find(m), m, f)]
  /\ UNCHANGED <<delivery, acked, open, expired>>

(* No slot: the fragment is refused and its packet is not acknowledged.     *)
RefuseFragment(m, f) ==
  /\ m[1] \in open /\ ~HandedOn(m) /\ Usable(m) = {}
  /\ UNCHANGED reasmVars

Receive(m, f) ==
  \/ IgnoreFragment(m, f) \/ StoreFragment(m, f) \/ FinishMessage(m, f)
  \/ KeepComplete(m, f) \/ RefuseFragment(m, f)

-----------------------------------------------------------------------------
(* rudp_recv: pop one event and drain the holds of its connection.          *)
AppRecv ==
  /\ recvq # <<>>
  /\ LET c == Head(recvq)[1] IN Drain(c, holds, Tail(recvq), expected[c])
  /\ UNCHANGED <<slots, arrived, acked, open, expired>>

(* expire_reassembly: the deadline of a used slot has passed, whatever it   *)
(* has stored.                                                              *)
Expire(s) ==
  /\ slots[s].used
  /\ slots' = [slots EXCEPT ![s] = NoSlot]
  /\ expired' = expired \cup {slots[s].msg}
  /\ Cardinality(expired') <= MaxExpiries
  /\ UNCHANGED <<delivery, acked, open>>

(* r is the receive queue without the messages of connection c, in order.   *)
IsWithout(r, c) ==
  \E at \in [DOMAIN r -> DOMAIN recvq] :
    /\ \A i, j \in DOMAIN r : i < j => at[i] < at[j]
    /\ {at[i] : i \in DOMAIN r} = {i \in DOMAIN recvq : recvq[i][1] # c}
    /\ \A i \in DOMAIN r : r[i] = recvq[at[i]]

(* abort_conn_internal, receiving side: the connection's events, holds and  *)
(* slots are dropped.                                                       *)
Abort(c, r) ==
  /\ c \in open
  /\ open' = open \ {c}
  /\ IsWithout(r, c)
  /\ recvq' = r
  /\ holds' = {m \in holds : m[1] # c}
  /\ slots' = [s \in SlotIds |-> IF slots[s].used /\ slots[s].msg[1] = c
                                 THEN NoSlot ELSE slots[s]]
  /\ UNCHANGED <<arrived, expected, acked, expired>>

ShorterQueues == UNION {[1..n -> {recvq[i] : i \in DOMAIN recvq}] : n \in 0..Len(recvq)}

ReasmNext ==
  \/ \E m \in Messages, f \in Frags : Receive(m, f)
  \/ AppRecv
  \/ \E s \in SlotIds : Expire(s)
  \/ \E c \in Conns, r \in ShorterQueues : Abort(c, r)

ReasmSpec == ReasmInit /\ [][ReasmNext]_reasmVars

(* The peer sends a fragment again until it is acknowledged, and not after: *)
(* a copy of an unacknowledged one gets through at last.  The application   *)
(* keeps reading.                                                           *)
Retransmit(m, f) == <<m, f>> \notin acked /\ Receive(m, f)
ReasmFairness ==
  /\ \A m \in Messages, f \in Frags : WF_reasmVars(Retransmit(m, f))
  /\ WF_reasmVars(AppRecv)
FairReasmSpec == ReasmSpec /\ ReasmFairness

-----------------------------------------------------------------------------
ReasmTypeOK ==
  /\ \A s \in SlotIds :
       slots[s] = NoSlot \/ /\ slots[s].used /\ slots[s].msg \in Messages
                            /\ slots[s].parts \subseteq Part
  /\ arrived \in [Messages -> SUBSET Part]
  /\ expected \in [Conns -> 0..NumMsgs]
  /\ holds \subseteq Messages /\ Cardinality(holds) <= MaxHolds
  /\ recvq \in Seq(Messages) /\ Len(recvq) <= MaxRecv
  /\ acked \subseteq Part /\ open \subseteq Conns
  /\ expired \subseteq Messages /\ Cardinality(expired) <= MaxExpiries

(* A message handed on consists of its own fragments, all of them: no bytes *)
(* of another connection's message with the same msg_id, and none missing.  *)
OwnBytes ==
  \A m \in Messages : arrived[m] # {} => arrived[m] = {m} \X Frags

(* A message has one slot at most, and none once it was handed on or its    *)
(* connection is gone: a slot never leaks to a message that is past.        *)
SlotsAreNeeded ==
  \A s \in SlotIds : slots[s].used =>
    /\ slots[s].msg[1] \in open /\ ~HandedOn(slots[s].msg)
    /\ Owned(slots[s].msg) = {s}

(* An acknowledged fragment is never sent again, so the receiver must still *)
(* have it, or have had the whole message, unless the slot of that very     *)
(* message has expired.                                                     *)
AckedIsStored ==
  \A p \in acked : (p[1][1] \in open /\ p[1] \notin expired) =>
    \/ HandedOn(p[1])
    \/ \E s \in Owned(p[1]) : p \in slots[s].parts

(* Bytes never mix, no slot leaks, and what was acknowledged is kept: the   *)
(* ways in which shared slots could corrupt, block or lose a message.       *)
ReassemblyIsSound == ReasmTypeOK /\ OwnBytes /\ SlotsAreNeeded /\ AckedIsStored

(* Every message reaches the receive queue, in order, as long as the        *)
(* connection is kept.                                                      *)
AllReceived == \A c \in Conns : <>(expected[c] = NumMsgs \/ c \notin open)

(* A place for every message that may be outstanding: a hold if it is       *)
(* complete, a slot if it is not.  Slots that expired and filled again with *)
(* what was not acknowledged stay with the messages that are lost.          *)
PlacesSuffice ==
  /\ NumSlots + MaxHolds >= Cardinality(Conns) * NumMsgs
  /\ NumSlots > MaxExpiries

(* Where the places suffice, connections that compete for slots, holds and  *)
(* queue do not block each other for ever: a connection gets all its        *)
(* messages unless a slot of its own expired, even while another one can    *)
(* never go on and keeps what it has.                                       *)
ReceivedUnlessExpired ==
  PlacesSuffice =>
    \A c \in Conns :
      <>(expected[c] = NumMsgs \/ c \notin open \/ \E m \in expired : m[1] = c)
=============================================================================
