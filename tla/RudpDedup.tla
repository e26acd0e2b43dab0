----------------------------- MODULE RudpDedup -----------------------------
(***************************************************************************)
(* Suppression of repeated reliable messages: the ring of tagged bitmap     *)
(* words that reliable_seen_lookup reads and reliable_mark_seen writes.     *)
(*                                                                          *)
(* Every message of a connection takes the next msg_id, from 1 on, and the  *)
(* unreliable ones never reach this code, so any of the ids may be absent.  *)
(* A connection is taken to end before its ids wrap (2^32 messages).        *)
(***************************************************************************)
EXTENDS SerialNumbers

CONSTANTS
  IdSpace,  \* 2^32 in the code
  Words,    \* RUDP_RX_DEDUP_WORDS: 1024
  Bits,     \* bits of a word: 64
  MaxId,    \* bound: messages of the connection
  IdsAhead,    \* an arriving message is at most IdsAhead past the newest
  IdsBehind    \* and at most IdsBehind before it

Window == Words * Bits   \* RUDP_RX_DEDUP_WINDOW

ASSUME RingAssumption ==
  /\ Words \in Nat /\ Words > 1 /\ Bits \in Nat \ {0}
  /\ IdSpace \in Nat /\ IdSpace > 1 /\ IdSpace % 2 = 0
  /\ MaxId \in Nat /\ MaxId < IdSpace \div 2
  /\ IdsAhead \in Nat \ {0} /\ IdsBehind \in Nat

VARIABLES
  block,   \* rx_dedup_block
  bits,    \* rx_dedup_bits
  max,     \* rx_dedup_max
  copies   \* history: how often each message was taken
dedupVars == <<block, bits, max, copies>>

Slots == 0..(Words - 1)
Ids == 1..MaxId
BlockOf(id) == id \div Bits
SlotOf(id) == BlockOf(id) % Words
BitOf(id) == id % Bits

DedupInit ==
  /\ block = [w \in Slots |-> 0] /\ bits = [w \in Slots |-> {}]
  /\ max = 0 /\ copies = [id \in Ids |-> 0]

TooOld(id) == /\ max # 0 /\ SeqAfter(max, id, IdSpace)
              /\ (max - id) % IdSpace >= Window

(* Fault: the bit is not looked at.                                         *)
SeenTooOld(id) == TooOld(id)

(* reliable_seen_lookup, for an id other than 0.                            *)
Seen(id) ==
  \/ TooOld(id)
  \/ block[SlotOf(id)] = BlockOf(id) /\ BitOf(id) \in bits[SlotOf(id)]

(* reliable_mark_seen: a word with another tag is taken over and cleared.   *)
Kept(id) == IF block[SlotOf(id)] = BlockOf(id) THEN bits[SlotOf(id)] ELSE {}
MarkSeen(id) ==
  /\ block' = [block EXCEPT ![SlotOf(id)] = BlockOf(id)]
  /\ bits' = [bits EXCEPT ![SlotOf(id)] = Kept(id) \cup {BitOf(id)}]
  /\ max' = IF max = 0 \/ SeqAfter(id, max, IdSpace) THEN id ELSE max

InReach(id) == id <= max + IdsAhead /\ max - id <= IdsBehind

(* A reliable message arrives, for the first time or again, and is taken.   *)
Take(id) ==
  /\ InReach(id) /\ ~Seen(id)
  /\ MarkSeen(id)
  /\ copies' = [copies EXCEPT ![id] = @ + 1]

(* A message that counts as seen is dropped, and acknowledged all the same. *)
Ignore(id) == InReach(id) /\ Seen(id) /\ UNCHANGED dedupVars

DedupNext == \E id \in Ids : Take(id) \/ Ignore(id)
DedupSpec == DedupInit /\ [][DedupNext]_dedupVars

-----------------------------------------------------------------------------
DedupTypeOK ==
  /\ block \in [Slots -> Nat]
  /\ bits \in [Slots -> SUBSET (0..(Bits - 1))]
  /\ max \in 0..MaxId
  /\ copies \in [Ids -> Nat]

(* No message of the window is taken for seen that never arrived: that      *)
(* would acknowledge it and lose it.                                        *)
NothingSwallowed ==
  \A id \in Ids : max - id < Window /\ Seen(id) => copies[id] > 0

(* A message is not taken twice, as long as the repetition comes from at    *)
(* most Window - Bits behind the newest.                                    *)
NotTakenTwice == \A id \in Ids : copies[id] <= 1

(* Both at once: with repetitions of that reach the window loses nothing    *)
(* and repeats nothing, however long the connection.                        *)
DedupIsSound == NothingSwallowed /\ NotTakenTwice

(* What the comment on RUDP_RX_DEDUP_WORDS claims: inside the window the    *)
(* judgement is exact, and nothing that was taken is missed.                *)
WindowIsExact ==
  \A id \in Ids : max - id < Window => (Seen(id) <=> copies[id] > 0)
=============================================================================
