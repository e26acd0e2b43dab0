----------------------------- MODULE AckTracker -----------------------------
(***************************************************************************)
(* Selective acknowledgement.  The receiver of packets remembers the newest *)
(* packet sequence number and one bit for each of the Width numbers before  *)
(* it (ack_insert); the sender reads that pair off a header and asks of     *)
(* each packet it still tracks whether it is covered (ack_covers_seq).      *)
(*                                                                          *)
(* Packets are named by their position in the sender's sequence.  Their     *)
(* wire numbers wrap, and 0 is never used: it stands for "no packet".       *)
(***************************************************************************)
EXTENDS SerialNumbers

CONSTANTS
  SeqSpace,   \* 2^32 in the code
  Width,      \* bits of the bitmap: 64 in the code
  MaxPos,     \* bound: packets the sender numbers
  PacketsAhead,      \* an arriving packet is less than PacketsAhead past the newest
  PacketsBehind      \* and at most PacketsBehind before it

ASSUME WidthAssumption ==
  /\ SeqSpace \in Nat /\ SeqSpace > 1 /\ SeqSpace % 2 = 0
  /\ Width \in Nat \ {0} /\ 2 * Width < SeqSpace
  /\ MaxPos \in Nat
  /\ PacketsAhead \in Nat \ {0} /\ PacketsAhead <= SeqSpace \div 2
  /\ PacketsBehind \in Nat /\ 2 * PacketsBehind <= SeqSpace

NoAck == [max |-> 0, bits |-> {}]

(* Fault: the bit of the old newest is lost when the bitmap shifts.         *)
AckInsertForgets(a, s) ==
  IF a.max = 0 THEN [max |-> s, bits |-> {}]
  ELSE IF SeqAfter(s, a.max, SeqSpace)
  THEN LET shift == (s - a.max) % SeqSpace IN
       [max |-> s, bits |-> {d \in 1..Width : d - shift \in a.bits}]
  ELSE LET delta == (a.max - s) % SeqSpace IN
       [a EXCEPT !.bits = IF delta \in 1..Width THEN @ \cup {delta} ELSE @]

(* ack_insert: bit d stands for the number d before the newest.             *)
AckInsert(a, s) ==
  IF a.max = 0 THEN [max |-> s, bits |-> {}]
  ELSE IF SeqAfter(s, a.max, SeqSpace)
  THEN LET shift == (s - a.max) % SeqSpace IN
       [max |-> s, bits |-> {d \in 1..Width : d = shift \/ d - shift \in a.bits}]
  ELSE LET delta == (a.max - s) % SeqSpace IN
       [a EXCEPT !.bits = IF delta \in 1..Width THEN @ \cup {delta} ELSE @]

(* ack_covers_seq, for a packet number s # 0.                               *)
AckCovers(a, s) ==
  /\ a.max # 0
  /\ \/ s = a.max
     \/ ~SeqAfter(s, a.max, SeqSpace) /\ (a.max - s) % SeqSpace \in a.bits

VARIABLES
  tracker,  \* the receiver's rudp_ack_tracker
  dirty,    \* ack_dirty: a packet was recorded since the last acknowledgement
  top,      \* history: the newest position recorded, 0 before the first
  got       \* history: the positions that have arrived
ackVars == <<tracker, dirty, top, got>>

Seq32(n) == Wire(n, SeqSpace)
Positions == {n \in 1..MaxPos : Seq32(n) # 0}

AckInit == tracker = NoAck /\ dirty = FALSE /\ top = 0 /\ got = {}

(* The tail of process_packet: a packet none of whose frames failed.        *)
Record(n) ==
  /\ top # 0 => n < top + PacketsAhead /\ top - n <= PacketsBehind
  /\ tracker' = AckInsert(tracker, Seq32(n))
  /\ dirty' = (dirty \/ tracker' # tracker)
  /\ top' = IF n > top THEN n ELSE top
  /\ got' = got \cup {n}

(* flush_send_batch, when a packet that carries the pair has been sent.     *)
SendAck ==
  /\ dirty /\ dirty' = FALSE
  /\ UNCHANGED <<tracker, top, got>>

AckNext == (\E n \in Positions : Record(n)) \/ SendAck
AckSpec == AckInit /\ [][AckNext]_ackVars

-----------------------------------------------------------------------------
AckTypeOK ==
  /\ tracker \in [max : 0..(SeqSpace - 1), bits : SUBSET (1..Width)]
  /\ dirty \in BOOLEAN /\ top \in Nat /\ got \subseteq Positions

(* What the sender concludes from the pair is exactly what happened, across *)
(* wraps and after any reordering: of the packets within half the number    *)
(* space of the newest, those covered are those that arrived and are no     *)
(* more than Width behind it.  A bit too many would let the sender drop     *)
(* data the peer never got; one too few is a needless retransmission.       *)
AckIsExact ==
  \A n \in Positions :
    (n - top < SeqSpace \div 2 /\ 2 * (top - n) <= SeqSpace) =>
      (AckCovers(tracker, Seq32(n)) <=> n \in got /\ top - n <= Width)
=============================================================================
