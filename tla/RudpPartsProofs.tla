-------------------------- MODULE RudpPartsProofs --------------------------
(***************************************************************************)
(* The parts of the receive path, each for every value of its constants.   *)
(* The acknowledgement pair says exactly which packets arrived, across      *)
(* wraps.  The ring of bitmap words suppresses every repetition that comes  *)
(* from at most Window - Bits behind the newest id, and takes for seen only *)
(* what arrived.  Reassembly, whatever the network does to the fragments,   *)
(* hands on messages that consist of their own bytes, lets no slot outlive  *)
(* its need, and keeps what was acknowledged.                               *)
(***************************************************************************)
EXTENDS AckTracker, RudpDedup, RudpReassembly, NumberProofs, SequenceTheorems

-----------------------------------------------------------------------------
(* The acknowledgement tracker                                             *)

Shown == {d \in 1..Width : top - d \in got}

(* The pair is the wire form of what arrived.                               *)
PairInv ==
  /\ tracker.bits = Shown
  /\ tracker.max = IF top = 0 THEN 0 ELSE Seq32(top)
  /\ top # 0 => top \in got
  /\ \A n \in got : n <= top

TrackerInv == AckTypeOK /\ PairInv

LEMMA TrackerConstants ==
  /\ SeqSpace \in Nat /\ SeqSpace > 1 /\ SeqSpace % 2 = 0
  /\ SeqSpace \div 2 \in Nat /\ 2 * (SeqSpace \div 2) = SeqSpace
  /\ Width \in Nat /\ Width < SeqSpace \div 2
  /\ PacketsAhead \in Nat /\ PacketsAhead <= SeqSpace \div 2
  /\ PacketsBehind \in Nat /\ PacketsBehind <= SeqSpace \div 2
BY WidthAssumption

LEMMA PositionShape ==
  ASSUME NEW n \in Positions
  PROVE  n \in Nat /\ n > 0 /\ Seq32(n) # 0 /\ Seq32(n) \in 0..(SeqSpace - 1)
<1>1. n \in Nat /\ n > 0 /\ Seq32(n) # 0  BY WidthAssumption DEF Positions
<1> QED BY <1>1, TrackerConstants, WireType DEF Seq32

(* How two positions within half the space of each other compare.           *)
LEMMA Compare ==
  ASSUME NEW n \in Nat, NEW m \in Nat, n - m < SeqSpace \div 2, m - n <= SeqSpace \div 2
  PROVE  /\ SeqAfter(Seq32(n), Seq32(m), SeqSpace) <=> n > m
         /\ Seq32(n) = Seq32(m) <=> n = m
         /\ n > m => (Seq32(n) - Seq32(m)) % SeqSpace = n - m
         /\ n <= m => (Seq32(m) - Seq32(n)) % SeqSpace = m - n
<1>1. n - m < SeqSpace /\ m - n < SeqSpace  BY TrackerConstants
<1>2. SeqAfter(Seq32(n), Seq32(m), SeqSpace) <=> n > m
  BY TrackerConstants, SeqAfterIsLater DEF Seq32
<1>3. Seq32(n) = Seq32(m) <=> n = m  BY <1>1, TrackerConstants, WireInjective DEF Seq32
<1>4. n > m => (Seq32(n) - Seq32(m)) % SeqSpace = n - m
  <2>1. n > m => n - m \in 0..(SeqSpace - 1) /\ n = m + (n - m)  BY <1>1, TrackerConstants
  <2> QED BY <2>1, TrackerConstants, WireDifference DEF Seq32
<1>5. n <= m => (Seq32(m) - Seq32(n)) % SeqSpace = m - n
  <2>1. n <= m => m - n \in 0..(SeqSpace - 1) /\ m = n + (m - n)  BY <1>1, TrackerConstants
  <2> QED BY <2>1, TrackerConstants, WireDifference DEF Seq32
<1> QED BY <1>2, <1>3, <1>4, <1>5

LEMMA TrackerInitInv == AckInit => TrackerInv
<1> SUFFICES ASSUME AckInit PROVE TrackerInv  OBVIOUS
<1>1. /\ tracker = [max |-> 0, bits |-> {}] /\ dirty = FALSE /\ top = 0 /\ got = {}
  BY DEF AckInit, NoAck
<1>2. 0 \in 0..(SeqSpace - 1) /\ {} \in SUBSET (1..Width)  BY TrackerConstants
<1>3. AckTypeOK
  <2>1. tracker \in [max : 0..(SeqSpace - 1), bits : SUBSET (1..Width)]  BY <1>1, <1>2
  <2> QED BY <1>1, <2>1 DEF AckTypeOK
<1>4. Shown = {}  BY <1>1 DEF Shown
<1>5. PairInv  BY <1>1, <1>4 DEF PairInv
<1> QED BY <1>3, <1>5 DEF TrackerInv

LEMMA RecordKeeps ==
  ASSUME TrackerInv, NEW n \in Positions, Record(n)
  PROVE  TrackerInv'
<1>1. /\ top # 0 => n < top + PacketsAhead /\ top - n <= PacketsBehind
      /\ tracker' = AckInsert(tracker, Seq32(n))
      /\ dirty' = (dirty \/ tracker' # tracker)
      /\ top' = IF n > top THEN n ELSE top
      /\ got' = got \cup {n}
  BY DEF Record
<1>2. /\ n \in Nat /\ n > 0 /\ Seq32(n) # 0 /\ Seq32(n) \in 0..(SeqSpace - 1)
      /\ top \in Nat /\ got \subseteq Positions
      /\ tracker \in [max : 0..(SeqSpace - 1), bits : SUBSET (1..Width)]
  BY PositionShape DEF TrackerInv, AckTypeOK
<1>3. /\ tracker.bits = Shown /\ tracker.max = (IF top = 0 THEN 0 ELSE Seq32(top))
      /\ top # 0 => top \in got
      /\ \A k \in got : k <= top
  BY DEF TrackerInv, PairInv
<1>4. \A k \in got : k \in Nat /\ k > 0  BY <1>2, PositionShape
<1>5. top' \in Nat /\ got' \subseteq Positions /\ dirty' \in BOOLEAN
      /\ top' \in got' /\ top' # 0 /\ \A k \in got' : k <= top'
  BY <1>1, <1>2, <1>3, <1>4 DEF TrackerInv, AckTypeOK
<1>6. /\ tracker' \in [max : 0..(SeqSpace - 1), bits : SUBSET (1..Width)]
      /\ tracker'.bits = {d \in 1..Width : top' - d \in got'}
      /\ tracker'.max = Seq32(top')
  <2>1. CASE top = 0
    <3>1. got = {}  BY <1>3, <1>4, <2>1
    <3>2. tracker' = [max |-> Seq32(n), bits |-> {}]  BY <1>1, <1>3, <2>1 DEF AckInsert
    <3>3. {d \in 1..Width : n - d \in {n}} = {}  BY <1>2, TrackerConstants
    <3> QED BY <1>1, <1>2, <2>1, <3>1, <3>2, <3>3
  <2>2. CASE top # 0
    <3>1. top \in Positions /\ tracker.max = Seq32(top) /\ tracker.max # 0
      BY <1>2, <1>3, <2>2, PositionShape
    <3>2. n - top < SeqSpace \div 2 /\ top - n <= SeqSpace \div 2
      BY <1>1, <1>2, <2>2, TrackerConstants
    <3>3. CASE n > top
      <4>1. SeqAfter(Seq32(n), tracker.max, SeqSpace)
            /\ (Seq32(n) - tracker.max) % SeqSpace = n - top
        BY <1>2, <3>1, <3>2, <3>3, Compare
      <4> DEFINE new == {d \in 1..Width : d = n - top \/ d - (n - top) \in tracker.bits}
      <4>2. tracker' = [max |-> Seq32(n), bits |-> new]
        BY <1>1, <3>1, <4>1 DEF AckInsert
      <4>3. ASSUME NEW d \in 1..Width
            PROVE  (d = n - top \/ d - (n - top) \in tracker.bits)
                     <=> n - d \in got \cup {n}
        <5>1. d \in Nat /\ d > 0  BY <4>3, TrackerConstants
        <5>2. CASE d < n - top
          <6>1. n - d > top /\ n - d # n /\ d - (n - top) < 0  BY <1>2, <5>1, <5>2
          <6> QED BY <1>2, <1>3, <1>4, <5>1, <5>2, <6>1
        <5>3. CASE d = n - top  BY <1>2, <1>3, <2>2, <5>1, <5>3
        <5>4. CASE d > n - top
          <6>1. d - (n - top) \in 1..Width /\ top - (d - (n - top)) = n - d /\ n - d # n
            BY <1>2, <3>3, <4>3, <5>1, <5>4, TrackerConstants
          <6>2. d - (n - top) \in tracker.bits <=> n - d \in got
            BY <1>3, <6>1 DEF Shown
          <6> QED BY <1>2, <5>1, <5>4, <6>1, <6>2
        <5> QED BY <1>2, <5>1, <5>2, <5>3, <5>4
      <4>4. new = {d \in 1..Width : n - d \in got \cup {n}}  BY <4>3
      <4>5. new \subseteq 1..Width  OBVIOUS
      <4> HIDE DEF new
      <4> QED BY <1>1, <1>2, <3>3, <4>2, <4>4, <4>5
    <3>4. CASE n <= top
      <4>1. ~SeqAfter(Seq32(n), tracker.max, SeqSpace)
            /\ (tracker.max - Seq32(n)) % SeqSpace = top - n
        BY <1>2, <3>1, <3>2, <3>4, Compare
      <4> DEFINE new == IF top - n \in 1..Width THEN tracker.bits \cup {top - n}
                        ELSE tracker.bits
      <4>2. tracker' = [tracker EXCEPT !.bits = new]
        BY <1>1, <3>1, <4>1 DEF AckInsert
      <4>3. ASSUME NEW d \in 1..Width
            PROVE  d \in new <=> top - d \in got \cup {n}
        <5>1. d \in Nat /\ d > 0  BY <4>3, TrackerConstants
        <5>2. d \in tracker.bits <=> top - d \in got  BY <1>3, <4>3 DEF Shown
        <5>3. top - d = n <=> d = top - n  BY <1>2, <5>1
        <5> QED BY <4>3, <5>2, <5>3
      <4>4. new \subseteq 1..Width  BY <1>2
      <4> HIDE DEF new
      <4>5. new = {d \in 1..Width : top - d \in got \cup {n}}  BY <4>3, <4>4
      <4>6. tracker' \in [max : 0..(SeqSpace - 1), bits : SUBSET (1..Width)]
            /\ tracker'.bits = new /\ tracker'.max = tracker.max
        BY <1>2, <4>2, <4>4
      <4>7. top' = top  BY <1>1, <1>2, <3>4
      <4> QED BY <1>1, <3>1, <4>5, <4>6, <4>7
    <3> QED BY <1>2, <3>3, <3>4
  <2> QED BY <2>1, <2>2
<1>7. AckTypeOK'  BY <1>5, <1>6 DEF AckTypeOK
<1>8. PairInv'  BY <1>5, <1>6 DEF PairInv, Shown
<1> QED BY <1>7, <1>8 DEF TrackerInv

LEMMA TrackerInductive ==
  ASSUME TrackerInv, [AckNext]_ackVars
  PROVE  TrackerInv'
<1>1. ASSUME NEW n \in Positions, Record(n) PROVE TrackerInv'  BY <1>1, RecordKeeps
<1>2. CASE SendAck
  BY <1>2 DEF SendAck, TrackerInv, AckTypeOK, PairInv, Shown
<1>3. CASE UNCHANGED ackVars
  BY <1>3 DEF ackVars, TrackerInv, AckTypeOK, PairInv, Shown
<1> QED BY <1>1, <1>2, <1>3 DEF AckNext

LEMMA TrackerInvariance == AckSpec => []TrackerInv
BY TrackerInitInv, TrackerInductive, PTL DEF AckSpec

(* The tracker keeps its shape: the newest number fits the wire and the     *)
(* bitmap has Width bits.                                                   *)
THEOREM TrackerType == AckSpec => []AckTypeOK
<1>1. TrackerInv => AckTypeOK  BY DEF TrackerInv
<1> QED BY <1>1, TrackerInvariance, PTL

(* The packets the sender sees as covered are those that arrived and are at *)
(* most Width behind the newest, across wraps and whatever the reordering.  *)
THEOREM AckExactness == AckSpec => []AckIsExact
<1>1. ASSUME TrackerInv PROVE AckIsExact
  <2> SUFFICES ASSUME NEW n \in Positions, n - top < SeqSpace \div 2, 2 * (top - n) <= SeqSpace
               PROVE  AckCovers(tracker, Seq32(n)) <=> n \in got /\ top - n <= Width
    BY DEF AckIsExact
  <2>1. n \in Nat /\ n > 0 /\ Seq32(n) # 0 /\ top \in Nat  BY <1>1, PositionShape DEF TrackerInv, AckTypeOK
  <2>2. /\ tracker.bits = Shown /\ tracker.max = (IF top = 0 THEN 0 ELSE Seq32(top))
        /\ top # 0 => top \in got
        /\ \A k \in got : k <= top
        /\ got \subseteq Positions
    BY <1>1 DEF TrackerInv, PairInv, AckTypeOK
  <2>3. CASE top = 0
    <3>1. n \notin got  BY <2>1, <2>2, <2>3
    <3> QED BY <2>2, <2>3, <3>1 DEF AckCovers
  <2>4. CASE top # 0
    <3>1. top \in Positions /\ tracker.max = Seq32(top) /\ tracker.max # 0
      BY <2>2, <2>4, PositionShape
    <3>2. /\ SeqAfter(Seq32(n), Seq32(top), SeqSpace) <=> n > top
          /\ Seq32(n) = Seq32(top) <=> n = top
          /\ n <= top => (Seq32(top) - Seq32(n)) % SeqSpace = top - n
      <4>1. top - n <= SeqSpace \div 2  BY <2>1, TrackerConstants
      <4> QED BY <2>1, <4>1, Compare
    <3>3. CASE n > top
      BY <2>1, <2>2, <3>1, <3>2, <3>3 DEF AckCovers
    <3>4. CASE n = top
      BY <2>1, <2>2, <2>4, <3>1, <3>2, <3>4, TrackerConstants DEF AckCovers
    <3>5. CASE n < top
      <4>1. AckCovers(tracker, Seq32(n)) <=> top - n \in Shown
        BY <2>1, <2>2, <3>1, <3>2, <3>5 DEF AckCovers
      <4>2. top - n \in Nat /\ top - n > 0 /\ top - (top - n) = n  BY <2>1, <3>5
      <4>3. top - n \in Shown <=> top - n <= Width /\ n \in got
        BY <4>2, TrackerConstants DEF Shown
      <4> QED BY <4>1, <4>3
    <3> QED BY <2>1, <3>3, <3>4, <3>5
  <2> QED BY <2>3, <2>4
<1> QED BY <1>1, TrackerInvariance, PTL
-----------------------------------------------------------------------------
(* The window of message ids                                               *)

Near(id) == max - id <= Window - Bits

(* A set bit stands for a message that was taken.                           *)
BitInv ==
  \A w \in Slots, b \in 0..(Bits - 1) :
    b \in bits[w] => \E id \in Ids : /\ BlockOf(id) = block[w] /\ BitOf(id) = b
                                     /\ copies[id] > 0

(* What was taken lately still has its bit.                                 *)
NearInv ==
  \A id \in Ids :
    copies[id] > 0 => /\ id <= max
                      /\ Near(id) => /\ block[SlotOf(id)] = BlockOf(id)
                                     /\ BitOf(id) \in bits[SlotOf(id)]

DedupInv == DedupTypeOK /\ BitInv /\ NearInv /\ NotTakenTwice

LEMMA DedupConstants ==
  /\ Words \in Nat /\ Words > 1 /\ Bits \in Nat /\ Bits > 0
  /\ Window \in Nat /\ Window = Bits * Words /\ Window > Bits
  /\ IdSpace \in Nat /\ IdSpace > 1 /\ IdSpace % 2 = 0
  /\ IdSpace \div 2 \in Nat /\ IdSpace \div 2 < IdSpace
  /\ MaxId \in Nat /\ MaxId < IdSpace \div 2
<1>1. Words \in Nat /\ Words > 1 /\ Bits \in Nat /\ Bits > 0  BY RingAssumption
<1>2. Window = Bits * Words  BY <1>1 DEF Window
<1>3. Window \in Nat  BY <1>1, <1>2
<1>4. Bits * Words = Bits * (Words - 1) + Bits  BY <1>1
<1>5. Bits * (Words - 1) > 0  BY <1>1
<1>6. Window > Bits  BY <1>1, <1>2, <1>4, <1>5
<1>7. IdSpace \in Nat /\ IdSpace > 1 /\ IdSpace % 2 = 0 /\ MaxId \in Nat
      /\ MaxId < IdSpace \div 2
  BY RingAssumption
<1>8. IdSpace \div 2 \in Nat /\ IdSpace \div 2 < IdSpace  BY <1>7
<1> QED BY <1>1, <1>2, <1>3, <1>6, <1>7, <1>8

LEMMA IdShape ==
  ASSUME NEW id \in Ids
  PROVE  /\ id \in Nat /\ id > 0 /\ id <= MaxId
         /\ BlockOf(id) \in Nat /\ BitOf(id) \in 0..(Bits - 1) /\ SlotOf(id) \in Slots
         /\ id = Bits * BlockOf(id) + BitOf(id)
<1>1. id \in Nat /\ id > 0 /\ id <= MaxId  BY DedupConstants DEF Ids
<1>2. id \div Bits \in Nat /\ id % Bits \in 0..(Bits - 1) /\ id = Bits * (id \div Bits) + (id % Bits)
  <2>1. Bits \in Nat \ {0} /\ id \in Int  BY <1>1, DedupConstants
  <2> QED BY ONLY <1>1, <2>1, DivMod, NatDivMod
<1>3. BlockOf(id) \in Nat /\ BitOf(id) \in 0..(Bits - 1)
      /\ id = Bits * BlockOf(id) + BitOf(id)
  BY <1>2 DEF BlockOf, BitOf
<1>4. SlotOf(id) \in 0..(Words - 1)
  <2> DEFINE q == BlockOf(id)
  <2>1. q \in Int /\ Words \in Nat \ {0}  BY <1>3, DedupConstants
  <2> HIDE DEF q
  <2>2. q % Words \in 0..(Words - 1)  BY ONLY <2>1, DivMod
  <2> QED BY <2>2 DEF SlotOf, q
<1> QED BY <1>1, <1>3, <1>4 DEF Slots

(* Ids that are less than Window - Bits + 1 apart share a word only if they *)
(* share a block.                                                           *)
LEMMA SameSlotSameBlock ==
  ASSUME NEW i \in Ids, NEW j \in Ids, SlotOf(i) = SlotOf(j),
         i - j <= Window - Bits, j - i <= Window - Bits
  PROVE  BlockOf(i) = BlockOf(j)
<1> DEFINE p == BlockOf(i)  q == BlockOf(j)  r == BitOf(i)  s == BitOf(j)
<1>1. /\ p \in Nat /\ q \in Nat /\ r \in 0..(Bits - 1) /\ s \in 0..(Bits - 1)
      /\ i = Bits * p + r /\ j = Bits * q + s
  BY IdShape
<1>2. Wire(p, Words) = Wire(q, Words)  BY DEF SlotOf, Wire
<1> HIDE DEF p, q, r, s
<1>3. p - q < Words
  <2> SUFFICES ASSUME p - q >= Words PROVE FALSE  BY <1>1, DedupConstants
  <2>1. p - q - (Words - 1) \in Int /\ p - q - (Words - 1) >= 1  BY <1>1, DedupConstants
  <2>2. Bits * (p - q - (Words - 1)) >= Bits
    <3>1. CASE Bits = 1  BY <2>1, <3>1
    <3>2. CASE Bits > 1  BY <2>1, <3>2, DedupConstants, MultipleIsLarge
    <3> QED BY <3>1, <3>2, DedupConstants
  <2>3. Bits * (p - q - (Words - 1)) = (Bits * p - Bits * q) - (Bits * Words - Bits)
    BY <1>1, DedupConstants
  <2> QED BY <1>1, <2>2, <2>3, DedupConstants
<1>4. q - p < Words
  <2> SUFFICES ASSUME q - p >= Words PROVE FALSE  BY <1>1, DedupConstants
  <2>1. q - p - (Words - 1) \in Int /\ q - p - (Words - 1) >= 1  BY <1>1, DedupConstants
  <2>2. Bits * (q - p - (Words - 1)) >= Bits
    <3>1. CASE Bits = 1  BY <2>1, <3>1
    <3>2. CASE Bits > 1  BY <2>1, <3>2, DedupConstants, MultipleIsLarge
    <3> QED BY <3>1, <3>2, DedupConstants
  <2>3. Bits * (q - p - (Words - 1)) = (Bits * q - Bits * p) - (Bits * Words - Bits)
    BY <1>1, DedupConstants
  <2> QED BY <1>1, <2>2, <2>3, DedupConstants
<1>5. p = q  BY <1>1, <1>2, <1>3, <1>4, DedupConstants, WireInjective
<1> QED BY <1>5 DEF p, q

(* Block and bit name the id.                                               *)
LEMMA IdOfBit ==
  ASSUME NEW i \in Ids, NEW j \in Ids, BlockOf(i) = BlockOf(j), BitOf(i) = BitOf(j)
  PROVE  i = j
BY IdShape

(* The wrapped comparison of two ids of one connection is the plain one.    *)
LEMMA IdOrder ==
  ASSUME NEW i \in 0..MaxId, NEW j \in 0..MaxId
  PROVE  /\ SeqAfter(i, j, IdSpace) <=> i > j
         /\ i > j => (i - j) % IdSpace = i - j
<1>1. i \in Nat /\ j \in Nat /\ i < IdSpace \div 2 /\ j < IdSpace \div 2
  BY DedupConstants
<1>2. Wire(i, IdSpace) = i /\ Wire(j, IdSpace) = j
  <2>1. i < IdSpace /\ j < IdSpace  BY <1>1, DedupConstants
  <2> QED BY <1>1, <2>1, DedupConstants DEF Wire
<1>3. i - j < IdSpace \div 2 /\ j - i <= IdSpace \div 2  BY <1>1, DedupConstants
<1>4. SeqAfter(i, j, IdSpace) <=> i > j
  BY <1>1, <1>2, <1>3, DedupConstants, SeqAfterIsLater
<1>5. i > j => i - j \in 0..(IdSpace - 1) /\ i = j + (i - j)  BY <1>1, DedupConstants
<1>6. i > j => (i - j) % IdSpace = i - j  BY <1>1, <1>2, <1>5, DedupConstants, WireDifference
<1> QED BY <1>4, <1>6

LEMMA DedupInitInv == DedupInit => DedupInv
<1> SUFFICES ASSUME DedupInit PROVE DedupInv  OBVIOUS
<1>1. DedupTypeOK  BY DedupConstants DEF DedupInit, DedupTypeOK
<1>2. BitInv  BY DEF DedupInit, BitInv
<1>3. NearInv  BY DEF DedupInit, NearInv
<1>4. NotTakenTwice  BY DEF DedupInit, NotTakenTwice
<1> QED BY <1>1, <1>2, <1>3, <1>4 DEF DedupInv

LEMMA TakeKeeps ==
  ASSUME IdsBehind <= Window - Bits, DedupInv, NEW id \in Ids, Take(id)
  PROVE  DedupInv'
<1> DEFINE w == SlotOf(id)
<1>1. /\ max - id <= IdsBehind /\ ~Seen(id)
      /\ block' = [block EXCEPT ![w] = BlockOf(id)]
      /\ bits' = [bits EXCEPT ![w] = Kept(id) \cup {BitOf(id)}]
      /\ max' = IF max = 0 \/ SeqAfter(id, max, IdSpace) THEN id ELSE max
      /\ copies' = [copies EXCEPT ![id] = @ + 1]
  BY DEF Take, MarkSeen, InReach
<1>2. /\ block \in [Slots -> Nat] /\ bits \in [Slots -> SUBSET (0..(Bits - 1))]
      /\ max \in 0..MaxId /\ copies \in [Ids -> Nat]
  BY DEF DedupInv, DedupTypeOK
<1>3. /\ id \in Nat /\ id > 0 /\ id <= MaxId /\ w \in Slots
      /\ BlockOf(id) \in Nat /\ BitOf(id) \in 0..(Bits - 1)
  BY IdShape
<1>4. max \in Nat /\ IdsBehind \in Nat  BY <1>2, DedupConstants, RingAssumption
<1>5. max' = IF id > max THEN id ELSE max
  <2>1. id \in 0..MaxId  BY <1>3, DedupConstants
  <2>2. SeqAfter(id, max, IdSpace) <=> id > max  BY <1>2, <2>1, IdOrder
  <2> QED BY <1>1, <1>3, <1>4, <2>2
<1>6. \A v \in Slots : /\ block'[v] = IF v = w THEN BlockOf(id) ELSE block[v]
                       /\ bits'[v] = IF v = w THEN Kept(id) \cup {BitOf(id)} ELSE bits[v]
  BY <1>1, <1>2, <1>3
<1>7. \A j \in Ids : copies'[j] = IF j = id THEN copies[j] + 1 ELSE copies[j]
  BY <1>1, <1>2
<1>8. Kept(id) \subseteq bits[w]  BY DEF Kept
<1>9. DedupTypeOK'
  <2>1. block' \in [Slots -> Nat]  BY <1>1, <1>2, <1>3
  <2>2. Kept(id) \cup {BitOf(id)} \in SUBSET (0..(Bits - 1))  BY <1>2, <1>3, <1>8
  <2>3. bits' \in [Slots -> SUBSET (0..(Bits - 1))]  BY <1>1, <1>2, <1>3, <2>2
  <2>4. max' \in 0..MaxId  BY <1>2, <1>3, <1>5, DedupConstants
  <2>5. copies' \in [Ids -> Nat]  BY <1>1, <1>2
  <2> QED BY <2>1, <2>3, <2>4, <2>5 DEF DedupTypeOK
<1>10. ASSUME NEW j \in Ids, copies[j] > 0 PROVE j <= max /\ (copies'[j] > 0)
  BY <1>2, <1>7, <1>10 DEF DedupInv, NearInv
<1>11. BitInv'
  <2> SUFFICES ASSUME NEW v \in Slots, NEW b \in 0..(Bits - 1), b \in bits'[v]
               PROVE  \E j \in Ids : BlockOf(j) = block'[v] /\ BitOf(j) = b /\ copies'[j] > 0
    BY DEF BitInv, BlockOf, BitOf
  <2>1. copies'[id] > 0  BY <1>2, <1>7
  <2>2. CASE v = w /\ b = BitOf(id)  BY <1>6, <2>1, <2>2
  <2>3. CASE v = w /\ b # BitOf(id)
    <3>1. b \in Kept(id)  BY <1>6, <2>3
    <3>2. block[w] = BlockOf(id) /\ b \in bits[w]  BY <3>1 DEF Kept
    <3>3. PICK j \in Ids : BlockOf(j) = block[w] /\ BitOf(j) = b /\ copies[j] > 0
      BY <1>3, <3>2 DEF DedupInv, BitInv
    <3> QED BY <1>6, <1>10, <2>3, <3>2, <3>3
  <2>4. CASE v # w
    <3>1. b \in bits[v] /\ block'[v] = block[v]  BY <1>6, <2>4
    <3>2. PICK j \in Ids : BlockOf(j) = block[v] /\ BitOf(j) = b /\ copies[j] > 0
      BY <3>1 DEF DedupInv, BitInv
    <3> QED BY <1>10, <3>1, <3>2
  <2> QED BY <2>2, <2>3, <2>4
<1>12. NearInv'
  <2> SUFFICES ASSUME NEW j \in Ids, copies'[j] > 0
               PROVE  /\ j <= max'
                      /\ max' - j <= Window - Bits =>
                           block'[SlotOf(j)] = BlockOf(j) /\ BitOf(j) \in bits'[SlotOf(j)]
    BY DEF NearInv, Near, BlockOf, BitOf, SlotOf
  <2>1. CASE j = id  BY <1>3, <1>4, <1>5, <1>6, <2>1
  <2>2. CASE j # id
    <3>1. copies[j] > 0 /\ j <= max /\ j \in Nat /\ SlotOf(j) \in Slots
      BY <1>7, <2>2, IdShape DEF DedupInv, NearInv
    <3>2. ASSUME max' - j <= Window - Bits
          PROVE  block'[SlotOf(j)] = BlockOf(j) /\ BitOf(j) \in bits'[SlotOf(j)]
      <4>1. block[SlotOf(j)] = BlockOf(j) /\ BitOf(j) \in bits[SlotOf(j)]
        <5>1. max - j <= Window - Bits  BY <1>3, <1>4, <1>5, <3>1, <3>2, DedupConstants
        <5> QED BY <3>1, <5>1 DEF DedupInv, NearInv, Near
      <4>2. CASE SlotOf(j) = w
        <5>1. id - j <= Window - Bits /\ j - id <= Window - Bits
          BY <1>1, <1>3, <1>4, <1>5, <3>1, <3>2, DedupConstants
        <5>2. BlockOf(j) = BlockOf(id)  BY <4>2, <5>1, SameSlotSameBlock
        <5>3. Kept(id) = bits[w]  BY <4>1, <4>2, <5>2 DEF Kept
        <5> QED BY <1>6, <3>1, <4>1, <4>2, <5>2, <5>3
      <4>3. CASE SlotOf(j) # w  BY <1>6, <3>1, <4>1, <4>3
      <4> QED BY <4>2, <4>3
    <3>3. j <= max'  BY <1>3, <1>4, <1>5, <3>1
    <3> QED BY <3>2, <3>3
  <2> QED BY <2>1, <2>2
<1>13. NotTakenTwice'
  <2>1. copies[id] = 0
    <3> SUFFICES ASSUME copies[id] > 0 PROVE FALSE  BY <1>2
    <3>1. Near(id)  BY <1>1, <1>3, <1>4, DedupConstants DEF Near
    <3>2. block[SlotOf(id)] = BlockOf(id) /\ BitOf(id) \in bits[SlotOf(id)]
      BY <3>1 DEF DedupInv, NearInv
    <3> QED BY <1>1, <3>2 DEF Seen
  <2> QED BY <1>2, <1>7, <2>1 DEF DedupInv, NotTakenTwice
<1> QED BY <1>9, <1>11, <1>12, <1>13 DEF DedupInv

LEMMA DedupInductive ==
  ASSUME IdsBehind <= Window - Bits, DedupInv, [DedupNext]_dedupVars
  PROVE  DedupInv'
<1>1. ASSUME NEW id \in Ids, Take(id) PROVE DedupInv'  BY <1>1, TakeKeeps
<1>2. CASE UNCHANGED dedupVars
  BY <1>2 DEF dedupVars, DedupInv, DedupTypeOK, BitInv, NearInv, Near, NotTakenTwice
<1>3. ASSUME NEW id \in Ids, Ignore(id) PROVE DedupInv'  BY <1>2, <1>3 DEF Ignore
<1> QED BY <1>1, <1>2, <1>3 DEF DedupNext

(* No repetition is taken, as long as none comes from more than             *)
(* Window - Bits behind the newest id.                                      *)
THEOREM NoRepetition ==
  ASSUME IdsBehind <= Window - Bits
  PROVE  DedupSpec => []NotTakenTwice
<1>1. DedupInv => NotTakenTwice  BY DEF DedupInv
<1>2. IdsBehind <= Window - Bits  OBVIOUS
<1>3. DedupInv /\ [DedupNext]_dedupVars => DedupInv'  BY <1>2, DedupInductive
<1> QED BY <1>1, <1>3, DedupInitInv, PTL DEF DedupSpec

(* Only messages that arrived count as seen inside the window, so none is   *)
(* acknowledged and lost.                                                   *)
THEOREM NoneSwallowed ==
  ASSUME IdsBehind <= Window - Bits
  PROVE  DedupSpec => []NothingSwallowed
<1>1. ASSUME DedupInv PROVE NothingSwallowed
  <2> SUFFICES ASSUME NEW id \in Ids, max - id < Window, Seen(id) PROVE copies[id] > 0
    BY DEF NothingSwallowed
  <2>1. ~TooOld(id)
    <3>1. max \in 0..MaxId /\ id \in 0..MaxId /\ id \in Nat  BY <1>1, IdShape, DedupConstants DEF DedupInv, DedupTypeOK
    <3>2. SeqAfter(max, id, IdSpace) => (max - id) % IdSpace = max - id
      BY <3>1, IdOrder
    <3> QED BY <3>1, <3>2, DedupConstants DEF TooOld
  <2>2. block[SlotOf(id)] = BlockOf(id) /\ BitOf(id) \in bits[SlotOf(id)]
    BY <2>1 DEF Seen
  <2>3. SlotOf(id) \in Slots /\ BitOf(id) \in 0..(Bits - 1)  BY IdShape
  <2>4. PICK j \in Ids : BlockOf(j) = block[SlotOf(id)] /\ BitOf(j) = BitOf(id) /\ copies[j] > 0
    BY <1>1, <2>2, <2>3 DEF DedupInv, BitInv
  <2>5. j = id  BY <2>2, <2>4, IdOfBit
  <2> QED BY <2>4, <2>5
<1>2. IdsBehind <= Window - Bits  OBVIOUS
<1>3. DedupInv /\ [DedupNext]_dedupVars => DedupInv'  BY <1>2, DedupInductive
<1> QED BY <1>1, <1>3, DedupInitInv, PTL DEF DedupSpec

(* The window loses nothing and repeats nothing, however long the           *)
(* connection, as long as no repetition comes from more than Window - Bits  *)
(* behind the newest id.                                                    *)
THEOREM WindowIsSound ==
  ASSUME IdsBehind <= Window - Bits
  PROVE  DedupSpec => []DedupIsSound
<1>1. DedupSpec => []NotTakenTwice /\ []NothingSwallowed
  BY NoRepetition, NoneSwallowed
<1>2. NotTakenTwice /\ NothingSwallowed => DedupIsSound  BY DEF DedupIsSound
<1> QED BY <1>1, <1>2, PTL

-----------------------------------------------------------------------------
(* Reassembly                                                              *)

Stored == [used : {TRUE}, msg : Messages, parts : SUBSET Part]

TypeInv ==
  /\ slots \in [SlotIds -> Stored \cup {NoSlot}]
  /\ arrived \in [Messages -> SUBSET Part]
  /\ expected \in [Conns -> 0..NumMsgs]
  /\ holds \subseteq Messages /\ IsFiniteSet(holds) /\ Cardinality(holds) <= MaxHolds
  /\ recvq \in Seq(Messages) /\ Len(recvq) <= MaxRecv
  /\ acked \subseteq Part /\ open \subseteq Conns
  /\ expired \subseteq Messages /\ Cardinality(expired) <= MaxExpiries

(* A slot has fragments of its message only.                               *)
PartsInv == \A s \in SlotIds : slots[s].used => slots[s].parts \subseteq {slots[s].msg} \X Frags

(* A slot is needed, and no other slot has the same message.               *)
SlotInv ==
  \A s \in SlotIds : slots[s].used =>
    /\ slots[s].msg[1] \in open /\ ~HandedOn(slots[s].msg)
    /\ \A t \in SlotIds : slots[t].used /\ slots[t].msg = slots[s].msg => t = s

(* What was acknowledged of a message that is not complete is in its slot. *)
KeptPart(p) == \E s \in SlotIds : slots[s].used /\ slots[s].msg = p[1] /\ p \in slots[s].parts
AckInv ==
  \A p \in acked : (p[1][1] \in open /\ p[1] \notin expired) => HandedOn(p[1]) \/ KeptPart(p)

ReasmInv == TypeInv /\ PartsInv /\ SlotInv /\ OwnBytes /\ AckInv

LEMMA InvIsSound == ReasmInv => ReassemblyIsSound
<1> SUFFICES ASSUME ReasmInv PROVE ReassemblyIsSound  OBVIOUS
<1>1. ReasmTypeOK  BY DEF ReasmInv, TypeInv, ReasmTypeOK, Stored
<1>2. SlotsAreNeeded
  <2> SUFFICES ASSUME NEW s \in SlotIds, slots[s].used
               PROVE  /\ slots[s].msg[1] \in open /\ ~HandedOn(slots[s].msg)
                      /\ Owned(slots[s].msg) = {s}
    BY DEF SlotsAreNeeded
  <2> QED BY DEF ReasmInv, SlotInv, Owned
<1>3. AckedIsStored  BY DEF ReasmInv, AckInv, KeptPart, AckedIsStored, Owned
<1> QED BY <1>1, <1>2, <1>3 DEF ReasmInv, ReassemblyIsSound

LEMMA Bounds ==
  /\ NumMsgs \in Nat /\ NumSlots \in Nat /\ MaxRecv \in Nat /\ MaxRecv > 0
  /\ FragCount \in Nat /\ FragCount > 1 /\ MaxHolds \in Nat /\ MaxExpiries \in Nat
  /\ SlotIds \subseteq Nat /\ Frags # {}
BY ReassemblyAssumption DEF ReassemblyAssumption, SlotIds, Frags

LEMMA ReasmInitInv == ReasmInit => ReasmInv
<1> SUFFICES ASSUME ReasmInit PROVE ReasmInv  OBVIOUS
<1>1. <<>> \in Seq(Messages) /\ Len(<<>>) = 0  OBVIOUS
<1>2. TypeInv
  BY <1>1, Bounds, FS_EmptySet DEF ReasmInit, TypeInv
<1>3. \A s \in SlotIds : ~slots[s].used  BY DEF ReasmInit, NoSlot
<1>4. OwnBytes  BY DEF ReasmInit, OwnBytes
<1>5. AckInv  BY DEF ReasmInit, AckInv
<1> QED BY <1>2, <1>3, <1>4, <1>5 DEF ReasmInv, PartsInv, SlotInv

-----------------------------------------------------------------------------
(* Slots                                                                   *)

LEMMA SlotKinds ==
  ASSUME TypeInv, NEW s \in SlotIds
  PROVE  /\ slots[s].used \in BOOLEAN
         /\ slots[s].used => slots[s] \in Stored
         /\ ~slots[s].used => slots[s] = NoSlot
<1>1. slots[s] \in Stored \/ slots[s] = NoSlot  BY DEF TypeInv
<1>2. slots[s] \in Stored => slots[s].used = TRUE  BY DEF Stored
<1>3. slots[s] = NoSlot => slots[s].used = FALSE  BY DEF NoSlot
<1> QED BY <1>1, <1>2, <1>3

(* find_or_alloc_reasm returns the slot of the message, or a free one when *)
(* the message has none.                                                   *)
LEMMA FindsSlot ==
  ASSUME TypeInv, NEW m \in Messages, Usable(m) # {}
  PROVE  /\ Find(m) \in SlotIds
         /\ slots[Find(m)].used => slots[Find(m)].msg = m
         /\ ~slots[Find(m)].used => \A s \in SlotIds : slots[s].used => slots[s].msg # m
<1>1. Usable(m) \in SUBSET Nat /\ Usable(m) \subseteq SlotIds
  BY Bounds DEF Usable, Owned, Free
<1>2. Find(m) \in Usable(m)  BY <1>1, MinIsIn DEF Find
<1>3. CASE Owned(m) # {}  BY <1>1, <1>2, <1>3 DEF Usable, Owned
<1>4. CASE Owned(m) = {}  BY <1>1, <1>2, <1>4 DEF Usable, Owned, Free
<1> QED BY <1>3, <1>4

(* The slot with the fragment in it                                        *)
LEMMA FilledHas ==
  ASSUME TypeInv, PartsInv, NEW m \in Messages, NEW f \in Frags, Usable(m) # {},
         NEW v, v = Filled(Find(m), m, f)
  PROVE  /\ v \in Stored /\ v.used /\ v.msg = m
         /\ v.parts \subseteq {m} \X Frags /\ <<m, f>> \in v.parts
         /\ slots[Find(m)].used => slots[Find(m)].parts \subseteq v.parts
         /\ Complete(v) => v.parts = {m} \X Frags
<1> DEFINE s == Find(m)
<1>1. /\ s \in SlotIds /\ (slots[s].used => slots[s].msg = m)
      /\ slots[s].used \in BOOLEAN /\ (slots[s].used => slots[s] \in Stored)
  BY FindsSlot, SlotKinds
<1>2. slots[s].used => slots[s].parts \subseteq {m} \X Frags  BY <1>1 DEF PartsInv
<1> HIDE DEF s
<1>3. <<m, f>> \in Part /\ <<m, f>> \in {m} \X Frags  BY DEF Part
<1>4. ASSUME slots[s].used, Has(slots[s], f)
      PROVE  /\ v \in Stored /\ v.used /\ v.msg = m
             /\ v.parts \subseteq {m} \X Frags /\ <<m, f>> \in v.parts
             /\ slots[s].used => slots[s].parts \subseteq v.parts
  <2>1. v = slots[s]  BY <1>4 DEF Filled, s
  <2>2. PICK p \in v.parts : p[2] = f  BY <1>4, <2>1 DEF Has
  <2>3. v.parts \subseteq {m} \X Frags  BY <1>2, <1>4, <2>1
  <2>4. <<m, f>> \in v.parts  BY <2>2, <2>3
  <2>5. v \in Stored /\ v.used /\ v.msg = m  BY <1>1, <1>4, <2>1
  <2> QED BY <2>1, <2>3, <2>4, <2>5
<1>5. ASSUME ~(slots[s].used /\ Has(slots[s], f))
      PROVE  /\ v \in Stored /\ v.used /\ v.msg = m
             /\ v.parts \subseteq {m} \X Frags /\ <<m, f>> \in v.parts
             /\ slots[s].used => slots[s].parts \subseteq v.parts
  <2> DEFINE old == IF slots[s].used THEN slots[s].parts ELSE {}
  <2>1. v = [used |-> TRUE, msg |-> m, parts |-> {<<m, f>>} \cup old]
    BY <1>5 DEF Filled, s
  <2>2. old \subseteq {m} \X Frags /\ old \subseteq Part
    <3>1. {m} \X Frags \subseteq Part  BY DEF Part
    <3> QED BY <1>2, <3>1
  <2>3. slots[s].used => slots[s].parts = old  OBVIOUS
  <2> HIDE DEF old
  <2>4. v.used /\ v.msg = m /\ v.parts = {<<m, f>>} \cup old  BY <2>1
  <2>5. v \in Stored  BY <1>3, <2>1, <2>2 DEF Stored
  <2> QED BY <1>3, <2>2, <2>3, <2>4, <2>5
<1>6. v.parts \subseteq {m} \X Frags  BY <1>2, <1>4, <1>5
<1>7. ASSUME Complete(v) PROVE {m} \X Frags \subseteq v.parts
  <2> SUFFICES ASSUME NEW g \in Frags PROVE <<m, g>> \in v.parts  OBVIOUS
  <2>1. PICK p \in v.parts : p[2] = g  BY <1>7 DEF Complete
  <2>2. p = <<m, g>>  BY <1>6, <2>1
  <2> QED BY <2>1, <2>2
<1>8. Complete(v) => v.parts = {m} \X Frags  BY <1>6, <1>7
<1> QED BY <1>4, <1>5, <1>8 DEF s

-----------------------------------------------------------------------------
(* The steps                                                               *)

(* Putting v into the slot i of message m, whose fragments it contains      *)
LEMMA StoreStep ==
  ASSUME ReasmInv, NEW m \in Messages, NEW f \in Frags,
         m[1] \in open, ~HandedOn(m), Usable(m) # {},
         slots' = [slots EXCEPT ![Find(m)] = Filled(Find(m), m, f)],
         acked' \in {acked, acked \cup {<<m, f>>}},
         UNCHANGED <<delivery, open, expired>>
  PROVE  ReasmInv'
<1> DEFINE i == Find(m)
           v == Filled(i, m, f)
<1>1. TypeInv /\ PartsInv /\ SlotInv /\ OwnBytes /\ AckInv  BY DEF ReasmInv
<1>2. /\ i \in SlotIds /\ (slots[i].used => slots[i].msg = m)
      /\ ~slots[i].used => \A s \in SlotIds : slots[s].used => slots[s].msg # m
  BY <1>1, FindsSlot
<1>3. /\ v \in Stored /\ v.used /\ v.msg = m
      /\ v.parts \subseteq {m} \X Frags /\ <<m, f>> \in v.parts
      /\ slots[i].used => slots[i].parts \subseteq v.parts
  BY <1>1, FilledHas
<1>4. slots' = [slots EXCEPT ![i] = v]  OBVIOUS
<1> HIDE DEF i, v
<1>5. slots'[i] = v /\ \A s \in SlotIds \ {i} : slots'[s] = slots[s]
  BY <1>1, <1>2, <1>4 DEF TypeInv
<1>6. slots' \in [SlotIds -> Stored \cup {NoSlot}]  BY <1>1, <1>2, <1>3, <1>4 DEF TypeInv
<1>7. /\ arrived' = arrived /\ expected' = expected /\ holds' = holds /\ recvq' = recvq
      /\ open' = open /\ expired' = expired
  BY DEF delivery
<1>8. TypeInv'
  <2>1. <<m, f>> \in Part  BY DEF Part
  <2> QED BY <1>1, <1>6, <1>7, <2>1 DEF TypeInv
<1>9. PartsInv'  BY <1>1, <1>2, <1>3, <1>5 DEF PartsInv
<1>10. SlotInv'
  <2> SUFFICES ASSUME NEW s \in SlotIds, slots'[s].used
               PROVE  /\ slots'[s].msg[1] \in open /\ ~HandedOn(slots'[s].msg)
                      /\ \A t \in SlotIds : slots'[t].used /\ slots'[t].msg = slots'[s].msg => t = s
    BY <1>7 DEF SlotInv, HandedOn
  <2>1. CASE s = i
    <3>1. \A t \in SlotIds \ {i} : slots[t].used => slots[t].msg # m
      BY <1>1, <1>2 DEF SlotInv
    <3> QED BY <1>3, <1>5, <2>1, <3>1
  <2>2. CASE s # i
    <3>1. slots[s].used /\ slots'[s] = slots[s]  BY <1>5, <2>2
    <3>2. slots[s].msg # m  BY <1>1, <1>2, <2>2, <3>1 DEF SlotInv
    <3> QED BY <1>1, <1>3, <1>5, <3>1, <3>2 DEF SlotInv
  <2> QED BY <2>1, <2>2
<1>11. OwnBytes'  BY <1>1, <1>7 DEF OwnBytes
<1>12. AckInv'
  <2> SUFFICES ASSUME NEW p \in acked', p[1][1] \in open', p[1] \notin expired', ~HandedOn(p[1])'
               PROVE  KeptPart(p)'
    BY DEF AckInv
  <2>1. CASE p \in acked
    <3>1. KeptPart(p)  BY <1>1, <1>7, <2>1 DEF AckInv, HandedOn
    <3>2. PICK s \in SlotIds : slots[s].used /\ slots[s].msg = p[1] /\ p \in slots[s].parts
      BY <3>1 DEF KeptPart
    <3>3. slots'[s].used /\ slots'[s].msg = p[1] /\ p \in slots'[s].parts
      BY <1>2, <1>3, <1>5, <3>2
    <3> QED BY <3>3 DEF KeptPart
  <2>2. CASE p = <<m, f>>  BY <1>2, <1>3, <1>5, <2>2 DEF KeptPart
  <2> QED BY <2>1, <2>2
<1> QED BY <1>8, <1>9, <1>10, <1>11, <1>12 DEF ReasmInv

(* Emptying slots, when the connection is gone, the slot has expired or the *)
(* message is handed on                                                     *)
LEMMA EmptyStep ==
  ASSUME ReasmInv, TypeInv', OwnBytes',
         NEW gone \in SUBSET SlotIds,
         \A s \in SlotIds : slots'[s] = IF s \in gone THEN NoSlot ELSE slots[s],
         open' \subseteq open,
         \A s \in SlotIds \ gone : slots[s].used =>
           slots[s].msg[1] \in open' /\ arrived'[slots[s].msg] = {},
         \A m \in Messages : HandedOn(m) => arrived'[m] # {},
         expired \subseteq expired',
         \A s \in gone : slots[s].used =>
           \/ slots[s].msg[1] \notin open' \/ slots[s].msg \in expired'
           \/ arrived'[slots[s].msg] # {},
         \A p \in acked' : p \in acked \/ arrived'[p[1]] # {}
  PROVE  ReasmInv'
<1>1. TypeInv /\ PartsInv /\ SlotInv /\ AckInv  BY DEF ReasmInv
<1>2. \A s \in SlotIds : slots'[s].used => s \notin gone /\ slots'[s] = slots[s]
  BY DEF NoSlot
<1>3. PartsInv'  BY <1>1, <1>2 DEF PartsInv
<1>4. SlotInv'
  <2> SUFFICES ASSUME NEW s \in SlotIds, slots'[s].used
               PROVE  /\ slots'[s].msg[1] \in open' /\ arrived'[slots'[s].msg] = {}
                      /\ \A t \in SlotIds : slots'[t].used /\ slots'[t].msg = slots'[s].msg => t = s
    BY DEF SlotInv, HandedOn
  <2>1. s \notin gone /\ slots'[s] = slots[s] /\ slots[s].used  BY <1>2
  <2>2. slots'[s].msg[1] \in open' /\ arrived'[slots[s].msg] = {}  BY <2>1
  <2> QED BY <1>1, <1>2, <2>1, <2>2 DEF SlotInv
<1>5. AckInv'
  <2> SUFFICES ASSUME NEW p \in acked', p[1][1] \in open', p[1] \notin expired', arrived'[p[1]] = {}
               PROVE  KeptPart(p)'
    BY DEF AckInv, HandedOn
  <2>1. p \in acked  OBVIOUS
  <2>2. p[1] \in Messages /\ p[1][1] \in open  BY <1>1, <2>1 DEF TypeInv, Part
  <2>3. ~HandedOn(p[1])  BY <2>2
  <2>4. KeptPart(p)  BY <1>1, <2>1, <2>2, <2>3 DEF AckInv
  <2>5. PICK s \in SlotIds : slots[s].used /\ slots[s].msg = p[1] /\ p \in slots[s].parts
    BY <2>4 DEF KeptPart
  <2>6. s \notin gone  BY <2>5
  <2>7. slots'[s] = slots[s]  BY <2>6
  <2> QED BY <2>5, <2>7 DEF KeptPart
<1> QED BY <1>3, <1>4, <1>5 DEF ReasmInv

-----------------------------------------------------------------------------
(* Delivery                                                                *)

(* drain_ordered keeps the types of what it moves and adds nothing.         *)
LEMMA DrainTypes ==
  ASSUME NEW c \in Conns, NEW h \in SUBSET Messages, IsFiniteSet(h), Cardinality(h) <= MaxHolds,
         NEW q \in Seq(Messages), Len(q) <= MaxRecv, NEW e \in 0..NumMsgs,
         expected \in [Conns -> 0..NumMsgs], Drain(c, h, q, e)
  PROVE  /\ holds' \subseteq Messages /\ IsFiniteSet(holds') /\ Cardinality(holds') <= MaxHolds
         /\ recvq' \in Seq(Messages) /\ Len(recvq') <= MaxRecv
         /\ expected' \in [Conns -> 0..NumMsgs]
<1> DEFINE Run(k) == {<<c, i>> : i \in e..(e + k - 1)}
           K == {n \in 0..(MaxRecv - Len(q)) : Run(n) \subseteq h}
           k == Max(K)
<1>1. /\ holds' = h \ Run(k)
      /\ recvq' = q \o [i \in 1..k |-> <<c, e + i - 1>>]
      /\ expected' = [expected EXCEPT ![c] = e + k]
  BY DEF Drain
<1>2. Len(q) \in Nat /\ MaxRecv - Len(q) \in Nat /\ e \in Nat  BY Bounds, LenProperties
<1>3. k \in K
  <2>1. Run(0) = {}  BY <1>2
  <2>2. 0 \in K  BY <1>2, <2>1
  <2> HIDE DEF Run
  <2>3. K \in SUBSET (0..(MaxRecv - Len(q))) /\ K # {}  BY <2>2
  <2> HIDE DEF K
  <2> QED BY <1>2, <2>3, MaxIsIn
<1> HIDE DEF k
<1>4. k \in Nat /\ k <= MaxRecv - Len(q) /\ Run(k) \subseteq h
  <2>1. k \in 0..(MaxRecv - Len(q)) /\ Run(k) \subseteq h
    <3> HIDE DEF Run
    <3> QED BY <1>3
  <2> QED BY <1>2, <2>1
<1> HIDE DEF K
<1>5. e + k \in 0..NumMsgs
  <2>1. CASE k = 0  BY <1>2, <2>1
  <2>2. CASE k > 0
    <3>1. <<c, e + k - 1>> \in Run(k)  BY <1>2, <1>4, <2>2
    <3>2. <<c, e + k - 1>> \in Messages  BY <1>4, <3>1
    <3>3. e + k - 1 \in 0..(NumMsgs - 1)  BY <3>2 DEF Messages, Msgs
    <3> QED BY <1>2, <1>4, <3>3, Bounds
  <2> QED BY <1>4, <2>1, <2>2
<1>6. \A i \in 1..k : <<c, e + i - 1>> \in Messages
  <2> SUFFICES ASSUME NEW i \in 1..k PROVE <<c, e + i - 1>> \in Messages  OBVIOUS
  <2>1. e + i - 1 \in e..(e + k - 1)  BY <1>2, <1>4
  <2>2. <<c, e + i - 1>> \in Run(k)  BY <2>1
  <2> QED BY <1>4, <2>2
<1> DEFINE r == [i \in 1..k |-> <<c, e + i - 1>>]
<1>7. r \in Seq(Messages) /\ Len(r) = k  BY <1>4, <1>6
<1>0. recvq' = q \o r  BY <1>1 DEF r
<1> HIDE DEF r
<1>8. recvq' \in Seq(Messages) /\ Len(recvq') = Len(q) + k
  BY <1>7, <1>0, ConcatProperties
<1>9. holds' \subseteq h /\ IsFiniteSet(holds') /\ Cardinality(holds') <= MaxHolds
  <2>1. holds' \in SUBSET h  BY <1>1
  <2>2. IsFiniteSet(holds') /\ Cardinality(holds') <= Cardinality(h)  BY <2>1, FS_Subset
  <2>3. Cardinality(holds') \in Nat /\ Cardinality(h) \in Nat  BY <2>2, FS_CardinalityType
  <2> QED BY <2>1, <2>2, <2>3, Bounds
<1>10. expected' \in [Conns -> 0..NumMsgs]  BY <1>1, <1>5
<1> QED BY <1>2, <1>4, <1>8, <1>9, <1>10, Bounds

LEMMA DeliverTypes ==
  ASSUME TypeInv, NEW m \in Messages, NEW parts, parts \subseteq Part,
         CanDeliver(m), Deliver(m, parts)
  PROVE  /\ holds' \subseteq Messages /\ IsFiniteSet(holds') /\ Cardinality(holds') <= MaxHolds
         /\ recvq' \in Seq(Messages) /\ Len(recvq') <= MaxRecv
         /\ expected' \in [Conns -> 0..NumMsgs]
         /\ arrived' \in [Messages -> SUBSET Part] /\ arrived'[m] = parts
         /\ \A x \in Messages \ {m} : arrived'[x] = arrived[x]
<1>1. m[1] \in Conns /\ m[2] \in 0..(NumMsgs - 1)  BY DEF Messages, Msgs
<1>2. /\ arrived' \in [Messages -> SUBSET Part] /\ arrived'[m] = parts
      /\ \A x \in Messages \ {m} : arrived'[x] = arrived[x]
  BY DEF Deliver, TypeInv
<1>3. CASE m[2] = expected[m[1]]
  <2> DEFINE q == Append(recvq, m)
             e == m[2] + 1
  <2>1. Len(recvq) < MaxRecv /\ Drain(m[1], holds, q, e)  BY <1>3 DEF CanDeliver, Deliver
  <2>2. q \in Seq(Messages) /\ Len(q) = Len(recvq) + 1 /\ Len(recvq) \in Nat
    BY AppendProperties, LenProperties DEF TypeInv
  <2>3. Len(q) <= MaxRecv  BY <2>1, <2>2, Bounds
  <2>4. e \in 0..NumMsgs  BY <1>1, Bounds
  <2> HIDE DEF q, e
  <2>5. /\ holds \in SUBSET Messages /\ IsFiniteSet(holds) /\ Cardinality(holds) <= MaxHolds
        /\ expected \in [Conns -> 0..NumMsgs]
    BY DEF TypeInv
  <2> QED BY <1>1, <1>2, <2>1, <2>2, <2>3, <2>4, <2>5, DrainTypes
<1>4. CASE m[2] # expected[m[1]]
  <2>1. Cardinality(holds) < MaxHolds /\ holds' = holds \cup {m}
        /\ recvq' = recvq /\ expected' = expected
    BY <1>4 DEF CanDeliver, Deliver
  <2>2. /\ IsFiniteSet(holds') /\ Cardinality(holds) \in Nat
        /\ Cardinality(holds') = IF m \in holds THEN Cardinality(holds) ELSE Cardinality(holds) + 1
    BY <2>1, FS_AddElement, FS_CardinalityType DEF TypeInv
  <2>3. Cardinality(holds') <= MaxHolds  BY <2>1, <2>2, Bounds
  <2> QED BY <1>2, <2>1, <2>2, <2>3 DEF TypeInv
<1> QED BY <1>3, <1>4

-----------------------------------------------------------------------------
(* Every step keeps the invariant.                                          *)

LEMMA FinishStep ==
  ASSUME ReasmInv, NEW m \in Messages, NEW f \in Frags, FinishMessage(m, f) PROVE ReasmInv'
<1> DEFINE i == Find(m)
           v == Filled(i, m, f)
<1>1. /\ ~HandedOn(m) /\ Usable(m) # {} /\ CanDeliver(m) /\ Deliver(m, v.parts) /\ Complete(v)
      /\ slots' = [slots EXCEPT ![i] = NoSlot] /\ acked' = acked \cup {<<m, f>>}
      /\ open' = open /\ expired' = expired
  BY DEF FinishMessage
<1>2. TypeInv /\ SlotInv /\ OwnBytes  BY DEF ReasmInv
<1>3. i \in SlotIds /\ (slots[i].used => slots[i].msg = m)
      /\ (~slots[i].used => \A s \in SlotIds : slots[s].used => slots[s].msg # m)
  BY <1>1, <1>2, FindsSlot
<1>4. v.parts = {m} \X Frags  BY <1>1, FilledHas DEF ReasmInv
<1>5. {m} \X Frags \subseteq Part /\ {m} \X Frags # {} /\ <<m, f>> \in Part
  BY DEF Part
<1> HIDE DEF v, i
<1>6. /\ holds' \subseteq Messages /\ IsFiniteSet(holds') /\ Cardinality(holds') <= MaxHolds
      /\ recvq' \in Seq(Messages) /\ Len(recvq') <= MaxRecv
      /\ expected' \in [Conns -> 0..NumMsgs]
      /\ arrived' \in [Messages -> SUBSET Part] /\ arrived'[m] = {m} \X Frags
      /\ \A x \in Messages \ {m} : arrived'[x] = arrived[x]
  BY <1>1, <1>2, <1>4, <1>5, DeliverTypes
<1>7. slots' \in [SlotIds -> Stored \cup {NoSlot}]
      /\ \A s \in SlotIds : slots'[s] = IF s \in {i} THEN NoSlot ELSE slots[s]
  BY <1>1, <1>2, <1>3 DEF TypeInv
<1>8. TypeInv'  BY <1>1, <1>2, <1>5, <1>6, <1>7 DEF TypeInv
<1>9. OwnBytes'  BY <1>2, <1>6 DEF OwnBytes
<1>10. \A x \in Messages : HandedOn(x) => arrived'[x] # {}  BY <1>5, <1>6 DEF HandedOn
<1>11. ASSUME NEW s \in SlotIds \ {i}, slots[s].used
       PROVE  slots[s].msg[1] \in open' /\ arrived'[slots[s].msg] = {}
  <2>1. slots[s].msg \in Messages  BY <1>2, <1>11, SlotKinds DEF Stored
  <2>2. slots[s].msg # m  BY <1>2, <1>3, <1>11 DEF SlotInv
  <2> QED BY <1>1, <1>2, <1>6, <1>11, <2>1, <2>2 DEF SlotInv, HandedOn
<1>12. slots[i].used => arrived'[slots[i].msg] # {}  BY <1>3, <1>5, <1>6
<1>13. \A p \in acked' : p \in acked \/ arrived'[p[1]] # {}  BY <1>1, <1>5, <1>6
<1> DEFINE gone == {i}
<1>14. gone \in SUBSET SlotIds  BY <1>3
<1>15. /\ \A s \in SlotIds : slots'[s] = IF s \in gone THEN NoSlot ELSE slots[s]
       /\ \A s \in SlotIds \ gone : slots[s].used =>
            slots[s].msg[1] \in open' /\ arrived'[slots[s].msg] = {}
       /\ \A s \in gone : slots[s].used =>
            slots[s].msg[1] \notin open' \/ arrived'[slots[s].msg] # {}
  BY <1>7, <1>11, <1>12
<1> HIDE DEF gone
<1> QED BY <1>1, <1>8, <1>9, <1>10, <1>13, <1>14, <1>15, EmptyStep

LEMMA AppRecvStep == ASSUME ReasmInv, AppRecv PROVE ReasmInv'
<1> DEFINE c == Head(recvq)[1]
           q == Tail(recvq)
<1>1. /\ recvq # <<>> /\ Drain(c, holds, q, expected[c])
      /\ slots' = slots /\ arrived' = arrived /\ acked' = acked /\ open' = open
      /\ expired' = expired
  BY DEF AppRecv
<1>2. TypeInv  BY DEF ReasmInv
<1>3. Head(recvq) \in Messages /\ q \in Seq(Messages) /\ Len(q) = Len(recvq) - 1
      /\ Len(recvq) \in Nat
  BY <1>1, <1>2, HeadTailProperties, LenProperties DEF TypeInv
<1>4. c \in Conns  BY <1>3 DEF Messages
<1>5. Len(q) <= MaxRecv  BY <1>2, <1>3, Bounds DEF TypeInv
<1> HIDE DEF c, q
<1>6. /\ holds' \subseteq Messages /\ IsFiniteSet(holds') /\ Cardinality(holds') <= MaxHolds
      /\ recvq' \in Seq(Messages) /\ Len(recvq') <= MaxRecv
      /\ expected' \in [Conns -> 0..NumMsgs]
  <2>1. /\ holds \in SUBSET Messages /\ IsFiniteSet(holds) /\ Cardinality(holds) <= MaxHolds
        /\ expected \in [Conns -> 0..NumMsgs] /\ expected[c] \in 0..NumMsgs
    BY <1>2, <1>4 DEF TypeInv
  <2> QED BY <1>1, <1>3, <1>4, <1>5, <2>1, DrainTypes
<1>7. TypeInv'  BY <1>1, <1>2, <1>6 DEF TypeInv
<1> QED BY <1>1, <1>7
        DEF ReasmInv, PartsInv, SlotInv, OwnBytes, AckInv, KeptPart, HandedOn

LEMMA ExpireStep == ASSUME ReasmInv, NEW i \in SlotIds, Expire(i) PROVE ReasmInv'
<1>1. /\ slots[i].used /\ slots' = [slots EXCEPT ![i] = NoSlot]
      /\ expired' = expired \cup {slots[i].msg} /\ Cardinality(expired') <= MaxExpiries
      /\ arrived' = arrived /\ expected' = expected
      /\ holds' = holds /\ recvq' = recvq /\ acked' = acked /\ open' = open
  BY DEF Expire, delivery
<1>2. TypeInv /\ SlotInv /\ OwnBytes  BY DEF ReasmInv
<1>3. expired' \subseteq Messages
  <2>1. slots[i].msg \in Messages  BY <1>1, <1>2, SlotKinds DEF Stored
  <2> QED BY <1>1, <1>2, <2>1 DEF TypeInv
<1>4. slots' \in [SlotIds -> Stored \cup {NoSlot}]
      /\ \A s \in SlotIds : slots'[s] = IF s \in {i} THEN NoSlot ELSE slots[s]
  BY <1>1, <1>2 DEF TypeInv
<1>5. TypeInv' /\ OwnBytes'  BY <1>1, <1>2, <1>3, <1>4 DEF TypeInv, OwnBytes
<1>6. \A s \in SlotIds \ {i} : slots[s].used =>
        slots[s].msg[1] \in open' /\ arrived'[slots[s].msg] = {}
  BY <1>1, <1>2 DEF SlotInv, HandedOn
<1>7. \A m \in Messages : HandedOn(m) => arrived'[m] # {}  BY <1>1 DEF HandedOn
<1> QED BY <1>1, <1>3, <1>4, <1>5, <1>6, <1>7, EmptyStep

(* What is left in the receive queue was in it.                             *)
LEMMA ShorterIsTyped ==
  ASSUME recvq \in Seq(Messages), Len(recvq) <= MaxRecv, NEW r \in ShorterQueues
  PROVE  r \in Seq(Messages) /\ Len(r) <= MaxRecv
<1>1. /\ Len(recvq) \in Nat /\ DOMAIN recvq = 1..Len(recvq)
      /\ \A i \in DOMAIN recvq : recvq[i] \in Messages
  BY LenProperties
<1>2. PICK n \in 0..Len(recvq) : r \in [1..n -> {recvq[i] : i \in DOMAIN recvq}]
  BY DEF ShorterQueues
<1>3. n \in Nat /\ n <= MaxRecv  BY <1>1, <1>2, Bounds
<1>4. r \in [1..n -> Messages]  BY <1>1, <1>2
<1>5. r \in Seq(Messages) /\ Len(r) = n  BY <1>3, <1>4, SeqDef, LenProperties
<1> QED BY <1>3, <1>5

LEMMA AbortStep ==
  ASSUME ReasmInv, NEW c \in Conns, NEW r \in ShorterQueues, Abort(c, r) PROVE ReasmInv'
<1> DEFINE gone == {s \in SlotIds : slots[s].used /\ slots[s].msg[1] = c}
<1>1. /\ open' = open \ {c} /\ recvq' = r /\ holds' = {m \in holds : m[1] # c}
      /\ slots' = [s \in SlotIds |-> IF slots[s].used /\ slots[s].msg[1] = c
                                     THEN NoSlot ELSE slots[s]]
      /\ arrived' = arrived /\ expected' = expected /\ acked' = acked /\ expired' = expired
  BY DEF Abort
<1>2. TypeInv /\ SlotInv /\ OwnBytes  BY DEF ReasmInv
<1>3. recvq' \in Seq(Messages) /\ Len(recvq') <= MaxRecv
  BY <1>1, <1>2, ShorterIsTyped DEF TypeInv
<1>4. holds' \subseteq Messages /\ IsFiniteSet(holds') /\ Cardinality(holds') <= MaxHolds
  <2>1. holds' \in SUBSET holds /\ IsFiniteSet(holds)  BY <1>1, <1>2 DEF TypeInv
  <2>2. IsFiniteSet(holds') /\ Cardinality(holds') <= Cardinality(holds)  BY <2>1, FS_Subset
  <2>3. Cardinality(holds') \in Nat /\ Cardinality(holds) \in Nat
    BY <2>1, <2>2, FS_CardinalityType
  <2> QED BY <1>2, <2>1, <2>2, <2>3, Bounds DEF TypeInv
<1>5. gone \in SUBSET SlotIds
      /\ \A s \in SlotIds : slots'[s] = IF s \in gone THEN NoSlot ELSE slots[s]
  BY <1>1
<1>6. slots' \in [SlotIds -> Stored \cup {NoSlot}]  BY <1>1, <1>2 DEF TypeInv
<1>7. TypeInv' /\ OwnBytes'  BY <1>1, <1>2, <1>3, <1>4, <1>6 DEF TypeInv, OwnBytes
<1>8. /\ \A s \in SlotIds \ gone : slots[s].used =>
           slots[s].msg[1] \in open' /\ arrived'[slots[s].msg] = {}
      /\ \A s \in gone : slots[s].msg[1] \notin open'
  BY <1>1, <1>2 DEF SlotInv, HandedOn
<1>9. \A m \in Messages : HandedOn(m) => arrived'[m] # {}  BY <1>1 DEF HandedOn
<1> HIDE DEF gone
<1> QED BY <1>1, <1>5, <1>7, <1>8, <1>9, EmptyStep

LEMMA ReasmInductive == ASSUME ReasmInv, [ReasmNext]_reasmVars PROVE ReasmInv'
<1>1. ASSUME NEW m \in Messages, NEW f \in Frags, Receive(m, f) PROVE ReasmInv'
  <2>1. CASE IgnoreFragment(m, f)
    <3>1. /\ HandedOn(m) /\ acked' = acked \cup {<<m, f>>} /\ slots' = slots
          /\ arrived' = arrived /\ expected' = expected /\ holds' = holds /\ recvq' = recvq
          /\ open' = open /\ expired' = expired
      BY <2>1 DEF IgnoreFragment, delivery
    <3>2. <<m, f>> \in Part  BY DEF Part
    <3>3. TypeInv'  BY <3>1, <3>2 DEF ReasmInv, TypeInv
    <3>4. PartsInv' /\ SlotInv' /\ OwnBytes'
      BY <3>1 DEF ReasmInv, PartsInv, SlotInv, OwnBytes, HandedOn
    <3>5. AckInv'  BY <3>1 DEF ReasmInv, AckInv, KeptPart, HandedOn
    <3> QED BY <3>3, <3>4, <3>5 DEF ReasmInv
  <2>2. CASE StoreFragment(m, f)  BY <2>2, StoreStep DEF StoreFragment
  <2>3. CASE FinishMessage(m, f)  BY <2>3, FinishStep
  <2>4. CASE KeepComplete(m, f)  BY <2>4, StoreStep DEF KeepComplete
  <2>5. CASE UNCHANGED reasmVars
    BY <2>5 DEF reasmVars, delivery, ReasmInv, TypeInv, PartsInv, SlotInv, OwnBytes, AckInv, KeptPart,
                HandedOn
  <2> QED BY <1>1, <2>1, <2>2, <2>3, <2>4, <2>5 DEF Receive, RefuseFragment
<1>2. CASE UNCHANGED reasmVars
  BY <1>2 DEF reasmVars, delivery, ReasmInv, TypeInv, PartsInv, SlotInv, OwnBytes, AckInv, KeptPart,
              HandedOn
<1> QED BY <1>1, <1>2, AppRecvStep, ExpireStep, AbortStep DEF ReasmNext

-----------------------------------------------------------------------------
(* Messages never mix, whatever connections share the slots; no slot is     *)
(* kept for a message that is past; and no acknowledged fragment is lost    *)
(* unless the slot of its own message expires (process_data_frame,          *)
(* find_or_alloc_reasm).                                                    *)
THEOREM ReassemblyAlwaysSound == ReasmSpec => []ReassemblyIsSound
BY ReasmInitInv, ReasmInductive, InvIsSound, PTL DEF ReasmSpec
=============================================================================
