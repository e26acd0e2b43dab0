------------------------- MODULE RudpReceiverProofs -------------------------
(***************************************************************************)
(* Safety of the receive path for every number of connections, channels,    *)
(* slots, messages and every even number space: the ordered stream reaches  *)
(* the application without gap, repetition or disorder, an acknowledged     *)
(* message is never lost, no hold is stranded and the hold count is exact.  *)
(***************************************************************************)
EXTENDS RudpReceiver, NumberProofs, FiniteSetTheorems, SequenceTheorems, TLAPS

-----------------------------------------------------------------------------
(* The inductive invariant.                                                 *)

Ordered(f) == f.kind = "ordered"
Of(e, c, ch) == e.conn = c /\ e.frame.kind = "ordered" /\ e.frame.chan = ch

(* The wrapped counter the code keeps is the wire form of the true count.   *)
CountInv ==
  \A c \in Conns, ch \in Channels : expected[c][ch] = Wire(released[c][ch], SeqSpace)

(* A hold is ahead of the stream, by less than half of the number space.    *)
HoldInv ==
  /\ IsFiniteSet(holds) /\ holdCount = Cardinality(holds)
  /\ \A h \in holds : /\ Ordered(h.frame)
                      /\ released[h.conn][h.frame.chan] <= h.frame.idx
                      /\ h.frame.idx < released[h.conn][h.frame.chan] + Ahead

(* seen is exactly what was taken: released, held, or queued.               *)
SeenInv ==
  \A c \in Conns, f \in Frame :
    /\ f \in seen[c] => Reliable(f)
    /\ Ordered(f) => (f \in seen[c] <=> \/ f.idx < released[c][f.chan]
                                        \/ Ev(c, f) \in holds)
    /\ f.kind = "unordered" => copies[c][f] = IF f \in seen[c] THEN 1 ELSE 0

(* What was delivered and what is queued make up the released stream.       *)
QueueInv ==
  \A c \in Conns, ch \in Channels :
    /\ Len(delivered[c][ch]) <= released[c][ch]
    /\ \A i \in DOMAIN delivered[c][ch] : delivered[c][ch][i] = i - 1
    /\ \A n \in Nat : Len(delivered[c][ch]) <= n /\ n < released[c][ch] =>
         \E i \in DOMAIN recvq : Of(recvq[i], c, ch) /\ recvq[i].frame.idx = n
    /\ \A i \in DOMAIN recvq : Of(recvq[i], c, ch) =>
         /\ Len(delivered[c][ch]) <= recvq[i].frame.idx
         /\ recvq[i].frame.idx < released[c][ch]
    /\ \A i, j \in DOMAIN recvq :
         i < j /\ Of(recvq[i], c, ch) /\ Of(recvq[j], c, ch) =>
           recvq[i].frame.idx < recvq[j].frame.idx

(* The frames left in a packet are within reach, those done are taken.      *)
PacketInv ==
  packet.on =>
    /\ \A i \in DOMAIN packet.frames :
         LET f == packet.frames[i] IN
           Ordered(f) => f.idx < released[packet.conn][f.chan] + Ahead
    /\ packet.failed \/ packet.done \subseteq seen[packet.conn]

AckInv == \A c \in Conns : acked[c] \subseteq seen[c]

HasEvent(c) == \E i \in DOMAIN recvq : recvq[i].conn = c

(* A hold whose turn has come has an event of its connection in the queue,  *)
(* or the drain loop has yet to look at its channel.                        *)
WakeInv ==
  /\ drain.on => /\ drain.chan <= drain.last
                 /\ Room \/ HasEvent(drain.conn)
  /\ \A h \in holds :
       h.frame.idx = released[h.conn][h.frame.chan] =>
         \/ HasEvent(h.conn)
         \/ /\ drain.on /\ drain.conn = h.conn
            /\ drain.chan <= h.frame.chan /\ h.frame.chan <= drain.last

IInv == /\ TypeOK /\ CountInv /\ HoldInv /\ SeenInv /\ QueueInv
        /\ PacketInv /\ AckInv /\ WakeInv

-----------------------------------------------------------------------------
(* Facts about the parts of the state that the steps below use again.       *)

LEMMA SpaceFacts ==
  /\ SeqSpace \in Nat /\ SeqSpace > 1 /\ SeqSpace % 2 = 0
  /\ SeqSpace \div 2 \in Nat /\ 2 * (SeqSpace \div 2) = SeqSpace
  /\ Ahead \in Nat /\ Ahead <= SeqSpace \div 2
BY SeqSpaceAssumption

LEMMA FrameShape ==
  ASSUME NEW f \in Frame
  PROVE  f.chan \in Channels /\ f.idx \in Nat /\ f.kind \in Kinds
BY InstanceAssumption DEF Frame

LEMMA QueuedEvent ==
  ASSUME TypeOK, NEW i \in DOMAIN recvq
  PROVE  /\ recvq[i] \in Event /\ recvq[i].conn \in Conns
         /\ recvq[i].frame \in Frame /\ recvq[i].frame.idx \in Nat
<1>1. recvq[i] \in Event  BY LenProperties DEF TypeOK
<1>2. recvq[i].conn \in Conns /\ recvq[i].frame \in Frame  BY <1>1 DEF Event
<1> QED BY <1>1, <1>2, FrameShape

LEMMA PacketShape ==
  ASSUME TypeOK, packet.on
  PROVE  /\ packet \in PacketType /\ packet.conn \in Conns
         /\ packet.frames \in Seq(Frame) /\ packet.done \in SUBSET Frame
         /\ packet.failed \in BOOLEAN
<1>1. packet # NoPacket  BY DEF NoPacket
<1>2. packet \in PacketType  BY <1>1 DEF TypeOK
<1> QED BY <1>2 DEF PacketType

(* Where an ordered frame within reach lies is decided by its wire number.  *)
LEMMA ReachDecided ==
  ASSUME TypeOK, CountInv, NEW c \in Conns, NEW f \in Frame,
         released[c][f.chan] <= f.idx, f.idx < released[c][f.chan] + Ahead
  PROVE  /\ IsNext(c, f) <=> f.idx = released[c][f.chan]
         /\ IsLater(c, f) <=> f.idx > released[c][f.chan]
<1> DEFINE r == released[c][f.chan]
<1>1. f.chan \in Channels /\ f.idx \in Nat  BY InstanceAssumption DEF Frame
<1>2. r \in Nat  BY <1>1 DEF TypeOK
<1>3. expected[c][f.chan] = Wire(r, SeqSpace)  BY <1>1 DEF CountInv
<1> HIDE DEF r
<1>4. r <= f.idx /\ f.idx < r + Ahead  BY DEF r
<1>5. f.idx - r < SeqSpace \div 2 /\ r - f.idx <= SeqSpace \div 2
      /\ f.idx - r < SeqSpace /\ r - f.idx < SeqSpace
  BY <1>1, <1>2, <1>4, SpaceFacts
<1>6. SeqAfter(Wire(f.idx, SeqSpace), Wire(r, SeqSpace), SeqSpace) <=> f.idx > r
  BY <1>1, <1>2, <1>5, SpaceFacts, SeqAfterIsLater
<1>7. Wire(f.idx, SeqSpace) = Wire(r, SeqSpace) => f.idx = r
  BY <1>1, <1>2, <1>5, SpaceFacts, WireInjective
<1> QED BY <1>3, <1>6, <1>7 DEF IsNext, IsLater, CSeq, r

(* A frame of the packet that was not taken before is at or past the next   *)
(* one needed.                                                              *)
LEMMA FrameWithinReach ==
  ASSUME IInv, NEW c \in Conns, NEW f \in Frame, AtFrame(c, f), Ordered(f),
         f \notin seen[c]
  PROVE  /\ released[c][f.chan] <= f.idx
         /\ IsNext(c, f) <=> f.idx = released[c][f.chan]
         /\ IsLater(c, f) <=> f.idx > released[c][f.chan]
<1>1. packet \in PacketType /\ packet.conn = c /\ packet.frames \in Seq(Frame)
  BY PacketShape DEF IInv, AtFrame
<1>2. packet.frames # <<>> /\ f = packet.frames[1] /\ 1 \in DOMAIN packet.frames
  BY <1>1 DEF AtFrame
<1>3. f.idx < released[c][f.chan] + Ahead
  BY <1>1, <1>2 DEF IInv, PacketInv, AtFrame
<1>4. f.chan \in Channels /\ f.idx \in Nat /\ released[c][f.chan] \in Nat
  BY InstanceAssumption DEF Frame, IInv, TypeOK
<1>5. released[c][f.chan] <= f.idx
  BY <1>4 DEF IInv, SeenInv
<1> QED BY <1>3, <1>5, ReachDecided DEF IInv

(* The hold whose wire number is the expected one is the next message.      *)
LEMMA ReadyHoldIsNext ==
  ASSUME IInv, NEW h \in holds
  PROVE  /\ h \in Event /\ h.conn \in Conns /\ h.frame \in Frame
         /\ CSeq(h.frame) = expected[h.conn][h.frame.chan]
              <=> h.frame.idx = released[h.conn][h.frame.chan]
<1>1. h \in Event /\ h.conn \in Conns /\ h.frame \in Frame
  BY DEF IInv, TypeOK, Event
<1>2. /\ released[h.conn][h.frame.chan] <= h.frame.idx
      /\ h.frame.idx < released[h.conn][h.frame.chan] + Ahead
  BY DEF IInv, HoldInv
<1> QED BY <1>1, <1>2, ReachDecided DEF IInv, IsNext

(* The positions of the queue after one event is appended.                  *)
LEMMA Appended ==
  ASSUME recvq \in Seq(Event), NEW e \in Event
  PROVE  LET q == Append(recvq, e) IN
         /\ q \in Seq(Event) /\ Len(q) = Len(recvq) + 1 /\ Len(recvq) \in Nat
         /\ DOMAIN q = 1..(Len(recvq) + 1) /\ DOMAIN recvq = 1..Len(recvq)
         /\ \A i \in DOMAIN recvq : q[i] = recvq[i]
         /\ q[Len(recvq) + 1] = e
BY AppendProperties, LenProperties

(* Appending the next message of an ordered stream keeps the queue in order.*)
LEMMA QueueNext ==
  ASSUME IInv, NEW c \in Conns, NEW f \in Frame, Ordered(f),
         f.idx = released[c][f.chan],
         recvq' = Append(recvq, Ev(c, f)), delivered' = delivered,
         released' = [released EXCEPT ![c][f.chan] = @ + 1]
  PROVE  QueueInv'
<1> DEFINE N == Len(recvq) + 1
<1>1. Ev(c, f) \in Event /\ f.chan \in Channels /\ f.idx \in Nat
  BY InstanceAssumption DEF Ev, Event, Frame
<1>2. /\ N \in Nat /\ DOMAIN recvq' = 1..N /\ DOMAIN recvq = 1..(N - 1)
      /\ \A i \in DOMAIN recvq : recvq'[i] = recvq[i]
      /\ recvq'[N] = Ev(c, f)
  BY <1>1, Appended DEF IInv, TypeOK
<1> HIDE DEF N
<1> SUFFICES ASSUME NEW d \in Conns, NEW ch \in Channels PROVE
      /\ Len(delivered[d][ch]) <= released'[d][ch]
      /\ \A i \in DOMAIN delivered[d][ch] : delivered[d][ch][i] = i - 1
      /\ \A n \in Nat : Len(delivered[d][ch]) <= n /\ n < released'[d][ch] =>
           \E i \in DOMAIN recvq' : Of(recvq'[i], d, ch) /\ recvq'[i].frame.idx = n
      /\ \A i \in DOMAIN recvq' : Of(recvq'[i], d, ch) =>
           /\ Len(delivered[d][ch]) <= recvq'[i].frame.idx
           /\ recvq'[i].frame.idx < released'[d][ch]
      /\ \A i, j \in DOMAIN recvq' :
           i < j /\ Of(recvq'[i], d, ch) /\ Of(recvq'[j], d, ch) =>
             recvq'[i].frame.idx < recvq'[j].frame.idx
  BY DEF QueueInv, Of
<1> DEFINE r == released[d][ch]
           len == Len(delivered[d][ch])
<1>3. r \in Nat /\ len \in Nat  BY DEF IInv, TypeOK
<1>4. released'[d][ch] = IF d = c /\ ch = f.chan THEN r + 1 ELSE r
  BY <1>1 DEF IInv, TypeOK
<1>5. Of(Ev(c, f), d, ch) <=> d = c /\ ch = f.chan  BY DEF Of, Ev, Ordered
<1>6. Ev(c, f).frame.idx = f.idx  BY DEF Ev
<1>7. len <= r  BY DEF IInv, QueueInv
<1>8. \A n \in Nat : len <= n /\ n < r =>
        \E i \in DOMAIN recvq : Of(recvq[i], d, ch) /\ recvq[i].frame.idx = n
  BY DEF IInv, QueueInv
<1>9. \A i \in DOMAIN recvq : Of(recvq[i], d, ch) =>
        len <= recvq[i].frame.idx /\ recvq[i].frame.idx < r
  BY DEF IInv, QueueInv
<1>10. \A i, j \in DOMAIN recvq : i < j /\ Of(recvq[i], d, ch) /\ Of(recvq[j], d, ch) =>
         recvq[i].frame.idx < recvq[j].frame.idx
  BY DEF IInv, QueueInv
<1>11. \A i \in DOMAIN delivered[d][ch] : delivered[d][ch][i] = i - 1
  BY DEF IInv, QueueInv
<1>12. d = c /\ ch = f.chan => f.idx = r  OBVIOUS
<1>15. \A i \in DOMAIN recvq : recvq[i].frame.idx \in Nat
  BY QueuedEvent DEF IInv
<1> HIDE DEF r, len
<1>13. \A i \in DOMAIN recvq' : i = N \/ (i \in DOMAIN recvq /\ i < N /\ recvq'[i] = recvq[i])
  BY <1>2
<1>14. N \in DOMAIN recvq' /\ DOMAIN recvq \subseteq DOMAIN recvq'  BY <1>2
<1>16. len <= released'[d][ch]  BY <1>3, <1>4, <1>7
<1>17. ASSUME NEW n \in Nat, len <= n, n < released'[d][ch]
       PROVE  \E i \in DOMAIN recvq' : Of(recvq'[i], d, ch) /\ recvq'[i].frame.idx = n
  <2>1. CASE n < r  BY <2>1, <1>2, <1>8, <1>14, <1>17
  <2>2. CASE n = r /\ d = c /\ ch = f.chan
    BY <2>2, <1>2, <1>5, <1>6, <1>12, <1>14
  <2> QED BY <2>1, <2>2, <1>3, <1>4, <1>17
<1>18. \A i \in DOMAIN recvq' : Of(recvq'[i], d, ch) =>
         len <= recvq'[i].frame.idx /\ recvq'[i].frame.idx < released'[d][ch]
  <2> SUFFICES ASSUME NEW i \in DOMAIN recvq', Of(recvq'[i], d, ch)
               PROVE  len <= recvq'[i].frame.idx /\ recvq'[i].frame.idx < released'[d][ch]
    OBVIOUS
  <2>1. CASE i = N  BY <2>1, <1>2, <1>3, <1>4, <1>5, <1>6, <1>7, <1>12
  <2>2. CASE i \in DOMAIN recvq /\ recvq'[i] = recvq[i]
    BY <2>2, <1>3, <1>4, <1>9, <1>15
  <2> QED BY <1>13, <2>1, <2>2
<1>19. ASSUME NEW i \in DOMAIN recvq', NEW j \in DOMAIN recvq', i < j,
              Of(recvq'[i], d, ch), Of(recvq'[j], d, ch)
       PROVE  recvq'[i].frame.idx < recvq'[j].frame.idx
  <2>1. i \in DOMAIN recvq /\ recvq'[i] = recvq[i]
    BY <1>2, <1>13, <1>19
  <2>2. CASE j = N
    BY <2>1, <2>2, <1>2, <1>5, <1>6, <1>9, <1>12, <1>19
  <2>3. CASE j \in DOMAIN recvq /\ recvq'[j] = recvq[j]
    BY <2>1, <2>3, <1>10, <1>19
  <2> QED BY <1>13, <2>2, <2>3
<1> QED BY <1>11, <1>16, <1>17, <1>18, <1>19 DEF r, len

(* Appending an event of another class does not concern the ordered streams.*)
LEMMA QueueOther ==
  ASSUME IInv, NEW e \in Event, ~Ordered(e.frame),
         recvq' = Append(recvq, e), delivered' = delivered, released' = released
  PROVE  QueueInv'
<1>1. /\ Len(recvq) \in Nat /\ DOMAIN recvq' = 1..(Len(recvq) + 1)
      /\ DOMAIN recvq = 1..Len(recvq)
      /\ \A i \in DOMAIN recvq : recvq'[i] = recvq[i]
      /\ recvq'[Len(recvq) + 1] = e
  BY Appended DEF IInv, TypeOK
<1>2. \A c \in Conns, ch \in Channels : ~Of(e, c, ch)  BY DEF Of, Ordered
<1>3. \A i \in DOMAIN recvq', c \in Conns, ch \in Channels :
        Of(recvq'[i], c, ch) => i \in DOMAIN recvq /\ recvq'[i] = recvq[i]
  BY <1>1, <1>2
<1>4. DOMAIN recvq \subseteq DOMAIN recvq'  BY <1>1
<1>5. QueueInv  BY DEF IInv
<1> SUFFICES ASSUME NEW c \in Conns, NEW ch \in Channels PROVE
      /\ Len(delivered[c][ch]) <= released[c][ch]
      /\ \A i \in DOMAIN delivered[c][ch] : delivered[c][ch][i] = i - 1
      /\ \A n \in Nat : Len(delivered[c][ch]) <= n /\ n < released[c][ch] =>
           \E i \in DOMAIN recvq' : Of(recvq'[i], c, ch) /\ recvq'[i].frame.idx = n
      /\ \A i \in DOMAIN recvq' : Of(recvq'[i], c, ch) =>
           /\ Len(delivered[c][ch]) <= recvq'[i].frame.idx
           /\ recvq'[i].frame.idx < released[c][ch]
      /\ \A i, j \in DOMAIN recvq' :
           i < j /\ Of(recvq'[i], c, ch) /\ Of(recvq'[j], c, ch) =>
             recvq'[i].frame.idx < recvq'[j].frame.idx
  BY DEF QueueInv, Of
<1> QED BY <1>1, <1>3, <1>4, <1>5 DEF QueueInv

(* Finishing a frame that was taken, or failing its packet, keeps PacketInv.*)
LEMMA FrameStep ==
  ASSUME IInv, NEW c \in Conns, NEW f \in Frame, NEW ok \in BOOLEAN,
         AtFrame(c, f), FrameDone(f, ok),
         \A ch \in Channels : released'[c][ch] \in Nat /\ released[c][ch] <= released'[c][ch],
         seen[c] \subseteq seen'[c],
         ok /\ Reliable(f) => f \in seen'[c]
  PROVE  packet' \in PacketType /\ PacketInv'
<1>1. /\ packet \in PacketType /\ packet.conn = c /\ packet.frames \in Seq(Frame)
      /\ packet.frames # <<>> /\ packet.done \in SUBSET Frame /\ packet.failed \in BOOLEAN
  BY PacketShape DEF IInv, AtFrame
<1>2. /\ Tail(packet.frames) \in Seq(Frame)
      /\ Len(Tail(packet.frames)) = Len(packet.frames) - 1
      /\ \A i \in 1..Len(Tail(packet.frames)) : Tail(packet.frames)[i] = packet.frames[i + 1]
  BY <1>1, HeadTailProperties
<1>3. /\ packet' = [packet EXCEPT !.frames = Tail(packet.frames),
                                  !.done = IF Reliable(f) THEN packet.done \cup {f} ELSE packet.done,
                                  !.failed = packet.failed \/ ~ok]
  BY DEF FrameDone
<1>4. /\ packet' \in PacketType /\ packet'.conn = c
      /\ packet'.frames = Tail(packet.frames)
      /\ packet'.done = IF Reliable(f) THEN packet.done \cup {f} ELSE packet.done
  BY <1>1, <1>2, <1>3 DEF PacketType
<1>5. packet'.failed = (packet.failed \/ ~ok)  BY <1>1, <1>3 DEF PacketType
<1>6. ASSUME NEW i \in DOMAIN packet'.frames, Ordered(packet'.frames[i])
      PROVE  packet'.frames[i].idx < released'[c][packet'.frames[i].chan] + Ahead
  <2> DEFINE g == packet'.frames[i]
  <2>1. /\ Len(packet.frames) \in Nat /\ DOMAIN packet.frames = 1..Len(packet.frames)
        /\ DOMAIN packet'.frames = 1..Len(packet'.frames) /\ Len(packet'.frames) \in Nat
    BY <1>1, <1>2, <1>4, LenProperties
  <2>2. i \in Nat /\ i + 1 \in DOMAIN packet.frames /\ g = packet.frames[i + 1]
    BY <1>2, <1>4, <2>1
  <2>3. g.idx < released[c][g.chan] + Ahead
    BY <1>1, <1>6, <2>2 DEF IInv, PacketInv, AtFrame
  <2>4. g \in Frame  BY <1>2, <1>4, LenProperties
  <2>5. /\ g.idx \in Nat /\ g.chan \in Channels /\ released[c][g.chan] \in Nat
        /\ released'[c][g.chan] \in Nat /\ released[c][g.chan] <= released'[c][g.chan]
    BY <2>4, FrameShape DEF IInv, TypeOK
  <2> HIDE DEF g
  <2>6. g.idx < released'[c][g.chan] + Ahead  BY <2>3, <2>5, SpaceFacts
  <2> QED BY <2>6 DEF g
<1>7. packet'.failed \/ packet'.done \subseteq seen'[c]
  <2>1. packet.failed \/ packet.done \subseteq seen[c]
    BY <1>1 DEF IInv, PacketInv, AtFrame
  <2> QED BY <1>4, <1>5, <2>1
<1> QED BY <1>4, <1>6, <1>7 DEF PacketInv

(* No event leaves, no hold becomes ready, the drain loop is where it was.  *)
LEMMA SameWake ==
  ASSUME IInv, holds' = holds, released' = released, drain' = drain,
         recvq' = recvq \/ (~drain.on /\ \E e \in Event : recvq' = Append(recvq, e))
  PROVE  WakeInv'
<1>1. recvq \in Seq(Event) /\ WakeInv  BY DEF IInv, TypeOK
<1>2. ASSUME NEW c PROVE HasEvent(c) => HasEvent(c)'
  <2>1. CASE recvq' = recvq  BY <2>1 DEF HasEvent
  <2>2. ASSUME NEW e \in Event, recvq' = Append(recvq, e) PROVE HasEvent(c) => HasEvent(c)'
    <3>1. \A i \in DOMAIN recvq : i \in DOMAIN recvq' /\ recvq'[i] = recvq[i]
      BY <1>1, <2>2, Appended
    <3> QED BY <3>1 DEF HasEvent
  <2> QED BY <2>1, <2>2
<1>3. drain.on => recvq' = recvq  OBVIOUS
<1> QED BY <1>1, <1>2, <1>3 DEF WakeInv, Room

(* The parts of the invariant that a step leaves alone when it changes none *)
(* of the variables they speak of.                                          *)
LEMMA SameStreams ==
  ASSUME IInv, UNCHANGED <<connVars, holds, holdCount, released, newest, delivered, copies>>
  PROVE  CountInv' /\ HoldInv' /\ SeenInv'
BY DEF IInv, CountInv, HoldInv, SeenInv, connVars, Ev, Ordered, Reliable

LEMMA SameQueue ==
  ASSUME IInv, UNCHANGED <<recvq, released, delivered>>
  PROVE  QueueInv'
BY DEF IInv, QueueInv, Of

-----------------------------------------------------------------------------
(* One lemma for each action.                                               *)

LEMMA InitInv == Init => IInv
<1> SUFFICES ASSUME Init PROVE IInv  OBVIOUS
<1>1. /\ expected = [c \in Conns |-> [ch \in Channels |-> 0]]
      /\ seen = [c \in Conns |-> {}] /\ acked = [c \in Conns |-> {}]
      /\ holds = {} /\ holdCount = 0 /\ recvq = <<>>
      /\ packet = NoPacket /\ drain = NoDrain
      /\ released = [c \in Conns |-> [ch \in Channels |-> 0]]
      /\ delivered = [c \in Conns |-> [ch \in Channels |-> <<>>]]
      /\ copies = [c \in Conns |-> [f \in UnorderedFrame |-> 0]]
  BY DEF Init
<1>2. IsFiniteSet({}) /\ Cardinality({}) = 0  BY FS_EmptySet
<1>3. <<>> \in Seq(Event) /\ Len(<<>>) = 0 /\ <<>> \in Seq(Nat)  BY EmptySeq
<1>4. 0 % SeqSpace = 0 /\ 0 \in 0..(SeqSpace - 1)
  <2>1. 0 = SeqSpace * 0 + 0 /\ 0 \in 0..(SeqSpace - 1)  BY SpaceFacts
  <2> QED BY <2>1, SpaceFacts, Remainder
<1>5. TypeOK  BY <1>2, <1>3, <1>4, InstanceAssumption DEF Init, TypeOK
<1>6. CountInv  BY <1>1, <1>4 DEF CountInv, Wire
<1>7. HoldInv  BY <1>1, <1>2 DEF HoldInv
<1>8. SeenInv
  <2> SUFFICES ASSUME NEW c \in Conns, NEW f \in Frame
               PROVE  /\ f \in seen[c] => Reliable(f)
                      /\ Ordered(f) => (f \in seen[c] <=> \/ f.idx < released[c][f.chan]
                                                          \/ Ev(c, f) \in holds)
                      /\ f.kind = "unordered" => copies[c][f] = IF f \in seen[c] THEN 1 ELSE 0
    BY DEF SeenInv
  <2>1. seen[c] = {} /\ released[c][f.chan] = 0 /\ f.idx \in Nat  BY <1>1, FrameShape
  <2>2. f.kind = "unordered" => copies[c][f] = 0  BY <1>1 DEF UnorderedFrame
  <2> QED BY <1>1, <2>1, <2>2
<1>9. QueueInv  BY <1>1, <1>3 DEF QueueInv
<1>10. PacketInv  BY <1>1 DEF PacketInv, NoPacket
<1>11. AckInv  BY <1>1 DEF AckInv
<1>12. WakeInv  BY <1>1 DEF WakeInv, NoDrain
<1> QED BY <1>5, <1>6, <1>7, <1>8, <1>9, <1>10, <1>11, <1>12 DEF IInv

LEMMA ArriveKeeps ==
  ASSUME IInv, NEW c \in Conns, NEW frames \in Packets, Arrive(c, frames)
  PROVE  IInv'
<1>1. UNCHANGED <<connVars, endpointVars, drain, history>>  BY DEF Arrive
<1>2. frames \in Seq(Frame)  BY SeqDef, InstanceAssumption DEF Packets
<1>3. packet' = [on |-> TRUE, conn |-> c, frames |-> frames, done |-> {}, failed |-> FALSE]
  BY DEF Arrive
<1>4. packet' \in PacketType  BY <1>2, <1>3 DEF PacketType
<1>5. TypeOK'  BY <1>1, <1>4 DEF IInv, TypeOK, connVars, endpointVars, history
<1>6. PacketInv'
  <2>1. \A i \in DOMAIN frames : Ordered(frames[i]) =>
          frames[i].idx < released[c][frames[i].chan] + Ahead
    BY DEF Arrive, OnNetwork, Ordered
  <2> QED BY <1>1, <1>3, <2>1 DEF PacketInv, history
<1>7. CountInv' /\ HoldInv' /\ SeenInv'  BY <1>1, SameStreams DEF endpointVars, history
<1>8. QueueInv'  BY <1>1, SameQueue DEF endpointVars, history
<1>9. WakeInv'  BY <1>1, SameWake DEF endpointVars, history
<1>10. AckInv'  BY <1>1 DEF IInv, AckInv, connVars, history
<1> QED BY <1>5, <1>6, <1>7, <1>8, <1>9, <1>10 DEF IInv

LEMMA FinishPacketKeeps ==
  ASSUME IInv, FinishPacket
  PROVE  IInv'
<1>1. /\ UNCHANGED <<connVars, endpointVars, drain, released, newest, delivered, copies, aborts>>
      /\ packet.on /\ packet' = NoPacket
      /\ acked' = IF packet.failed THEN acked
                  ELSE [acked EXCEPT ![packet.conn] = @ \cup packet.done]
  BY DEF FinishPacket
<1>2. packet.conn \in Conns /\ packet.done \in SUBSET Frame /\ packet.failed \in BOOLEAN
  BY <1>1, PacketShape DEF IInv
<1>3. packet.failed \/ packet.done \subseteq seen[packet.conn]
  BY <1>1 DEF IInv, PacketInv
<1>4. acked' \in [Conns -> SUBSET Frame]  BY <1>1, <1>2 DEF IInv, TypeOK
<1>5. TypeOK'  BY <1>1, <1>4 DEF IInv, TypeOK, connVars, endpointVars
<1>6. AckInv'
  <2>1. seen' = seen /\ acked \in [Conns -> SUBSET Frame] /\ AckInv
    BY <1>1 DEF connVars, IInv, TypeOK
  <2> QED BY <1>1, <1>2, <1>3, <2>1 DEF AckInv
<1>7. CountInv' /\ HoldInv' /\ SeenInv'  BY <1>1, SameStreams DEF endpointVars
<1>8. QueueInv'  BY <1>1, SameQueue DEF endpointVars
<1>9. WakeInv'  BY <1>1, SameWake DEF endpointVars
<1>10. PacketInv'  BY <1>1 DEF PacketInv, NoPacket
<1> QED BY <1>5, <1>6, <1>7, <1>8, <1>9, <1>10 DEF IInv

LEMMA IgnoreFrameKeeps ==
  ASSUME IInv, NEW c \in Conns, NEW f \in Frame, IgnoreFrame(c, f)
  PROVE  IInv'
<1>1. /\ AtFrame(c, f) /\ FrameDone(f, TRUE)
      /\ UNCHANGED <<connVars, endpointVars, drain, history>>
  BY DEF IgnoreFrame
<1>2. Reliable(f) => f \in seen[c]
  <2> SUFFICES ASSUME Reliable(f), f \notin seen[c] PROVE FALSE  OBVIOUS
  <2>1. Ordered(f) /\ ~IsNext(c, f) /\ ~IsLater(c, f)
    BY DEF IgnoreFrame, Reliable, Ordered
  <2>2. f.idx \in Nat /\ released[c][f.chan] \in Nat  BY FrameShape DEF IInv, TypeOK
  <2> QED BY <1>1, <2>1, <2>2, FrameWithinReach
<1>3. packet' \in PacketType /\ PacketInv'
  <2>1. \A ch \in Channels : released'[c][ch] \in Nat /\ released[c][ch] <= released'[c][ch]
    BY <1>1 DEF connVars, history, IInv, TypeOK
  <2>2. seen[c] \subseteq seen'[c] /\ (Reliable(f) => f \in seen'[c])
    BY <1>1, <1>2 DEF connVars, history, IInv, TypeOK
  <2> QED BY <1>1, <2>1, <2>2, FrameStep
<1>4. TypeOK'  BY <1>1, <1>3 DEF IInv, TypeOK, connVars, endpointVars, history
<1>5. CountInv' /\ HoldInv' /\ SeenInv'  BY <1>1, SameStreams DEF endpointVars, history
<1>6. QueueInv'  BY <1>1, SameQueue DEF endpointVars, history
<1>7. WakeInv'  BY <1>1, SameWake DEF endpointVars, history
<1>8. AckInv'  BY <1>1 DEF IInv, AckInv, connVars, history
<1> QED BY <1>3, <1>4, <1>5, <1>6, <1>7, <1>8 DEF IInv

LEMMA RefuseFrameKeeps ==
  ASSUME IInv, NEW c \in Conns, NEW f \in Frame, RefuseFrame(c, f)
  PROVE  IInv'
<1>1. /\ AtFrame(c, f) /\ FrameDone(f, FALSE)
      /\ UNCHANGED <<connVars, endpointVars, drain, history>>
  BY DEF RefuseFrame
<1>2. packet' \in PacketType /\ PacketInv'
  <2>1. \A ch \in Channels : released'[c][ch] \in Nat /\ released[c][ch] <= released'[c][ch]
    BY <1>1 DEF connVars, history, IInv, TypeOK
  <2>2. seen[c] \subseteq seen'[c]
    BY <1>1 DEF connVars, history, IInv, TypeOK
  <2> QED BY <1>1, <2>1, <2>2, FrameStep
<1>3. TypeOK'  BY <1>1, <1>2 DEF IInv, TypeOK, connVars, endpointVars, history
<1>4. CountInv' /\ HoldInv' /\ SeenInv'  BY <1>1, SameStreams DEF endpointVars, history
<1>5. QueueInv'  BY <1>1, SameQueue DEF endpointVars, history
<1>6. WakeInv'  BY <1>1, SameWake DEF endpointVars, history
<1>7. AckInv'  BY <1>1 DEF IInv, AckInv, connVars, history
<1> QED BY <1>2, <1>3, <1>4, <1>5, <1>6, <1>7 DEF IInv

(* The queue after a frame that is not ordered: longer by it, if it fits.   *)
LEMMA QueueMaybeOther ==
  ASSUME IInv, NEW c \in Conns, NEW f \in Frame, ~Ordered(f),
         recvq' = IF Room THEN Append(recvq, Ev(c, f)) ELSE recvq,
         delivered' = delivered, released' = released
  PROVE  /\ recvq' \in Seq(Event) /\ Len(recvq') <= MaxRecv
         /\ recvq' = recvq \/ \E e \in Event : recvq' = Append(recvq, e)
         /\ QueueInv'
<1>1. Ev(c, f) \in Event /\ ~Ordered(Ev(c, f).frame)  BY DEF Ev, Event, Ordered
<1>2. recvq \in Seq(Event) /\ Len(recvq) <= MaxRecv  BY DEF IInv, TypeOK
<1>3. CASE Room
  <2>1. recvq' = Append(recvq, Ev(c, f))  BY <1>3
  <2>2. recvq' \in Seq(Event) /\ Len(recvq') = Len(recvq) + 1 /\ Len(recvq) \in Nat
    BY <1>1, <1>2, <2>1, Appended
  <2>3. Len(recvq') <= MaxRecv  BY <2>2, <1>3, InstanceAssumption DEF Room
  <2>4. QueueInv'  BY <1>1, <2>1, QueueOther
  <2> QED BY <1>1, <2>1, <2>2, <2>3, <2>4
<1>4. CASE ~Room
  BY <1>2, <1>4, SameQueue
<1> QED BY <1>3, <1>4

LEMMA DeliverUnreliableKeeps ==
  ASSUME IInv, NEW c \in Conns, NEW f \in Frame, DeliverUnreliable(c, f)
  PROVE  IInv'
<1>1. /\ AtFrame(c, f) /\ FrameDone(f, TRUE) /\ ~Ordered(f) /\ ~Reliable(f)
      /\ recvq' = IF Room THEN Append(recvq, Ev(c, f)) ELSE recvq
      /\ UNCHANGED <<connVars, holds, holdCount, drain, history>>
  BY DEF DeliverUnreliable, Ordered, Reliable
<1>2. packet' \in PacketType /\ PacketInv'
  <2>1. \A ch \in Channels : released'[c][ch] \in Nat /\ released[c][ch] <= released'[c][ch]
    BY <1>1 DEF connVars, history, IInv, TypeOK
  <2>2. seen[c] \subseteq seen'[c] /\ (Reliable(f) => f \in seen'[c])
    BY <1>1 DEF connVars, history, IInv, TypeOK
  <2> QED BY <1>1, <2>1, <2>2, FrameStep
<1>3. /\ recvq' \in Seq(Event) /\ Len(recvq') <= MaxRecv
      /\ recvq' = recvq \/ \E e \in Event : recvq' = Append(recvq, e)
      /\ QueueInv'
  BY <1>1, QueueMaybeOther DEF history
<1>4. TypeOK'  BY <1>1, <1>2, <1>3 DEF IInv, TypeOK, connVars, history
<1>5. CountInv' /\ HoldInv' /\ SeenInv'  BY <1>1, SameStreams DEF history
<1>6. WakeInv'  BY <1>1, <1>3, SameWake DEF history, AtFrame
<1>7. AckInv'  BY <1>1 DEF IInv, AckInv, connVars, history
<1> QED BY <1>2, <1>3, <1>4, <1>5, <1>6, <1>7 DEF IInv

LEMMA DeliverSequencedKeeps ==
  ASSUME IInv, NEW c \in Conns, NEW f \in Frame, DeliverSequenced(c, f)
  PROVE  IInv'
<1>1. /\ AtFrame(c, f) /\ FrameDone(f, TRUE) /\ ~Ordered(f) /\ ~Reliable(f)
      /\ recvq' = IF Room THEN Append(recvq, Ev(c, f)) ELSE recvq
      /\ latest' = [latest EXCEPT ![c][f.chan] = <<CSeq(f)>>]
      /\ newest' = [newest EXCEPT ![c][f.chan] = f.idx]
      /\ UNCHANGED <<expected, seen, holds, holdCount, drain, released, delivered,
                     copies, acked, aborts>>
  BY DEF DeliverSequenced, Ordered, Reliable
<1>2. packet' \in PacketType /\ PacketInv'
  <2>1. \A ch \in Channels : released'[c][ch] \in Nat /\ released[c][ch] <= released'[c][ch]
    BY <1>1 DEF IInv, TypeOK
  <2>2. seen[c] \subseteq seen'[c] /\ (Reliable(f) => f \in seen'[c])
    BY <1>1 DEF IInv, TypeOK
  <2> QED BY <1>1, <2>1, <2>2, FrameStep
<1>3. /\ recvq' \in Seq(Event) /\ Len(recvq') <= MaxRecv
      /\ recvq' = recvq \/ \E e \in Event : recvq' = Append(recvq, e)
      /\ QueueInv'
  BY <1>1, QueueMaybeOther
<1>4. TypeOK'
  <2>1. f.chan \in Channels /\ f.idx \in Nat /\ CSeq(f) \in 0..(SeqSpace - 1)
    BY FrameShape, SpaceFacts, WireType DEF CSeq
  <2>2. latest' \in [Conns -> [Channels -> {<<>>} \cup {<<s>> : s \in 0..(SeqSpace - 1)}]]
    BY <1>1, <2>1 DEF IInv, TypeOK
  <2>3. newest' \in [Conns -> [Channels -> Int]]
    BY <1>1, <2>1 DEF IInv, TypeOK
  <2> QED BY <1>1, <1>2, <1>3, <2>2, <2>3 DEF IInv, TypeOK
<1>5. CountInv' /\ HoldInv' /\ SeenInv'
  BY <1>1 DEF IInv, CountInv, HoldInv, SeenInv, Ev, Ordered, Reliable
<1>6. WakeInv'  BY <1>1, <1>3, SameWake DEF AtFrame
<1>7. AckInv'  BY <1>1 DEF IInv, AckInv
<1> QED BY <1>2, <1>3, <1>4, <1>5, <1>6, <1>7 DEF IInv

LEMMA DeliverUnorderedKeeps ==
  ASSUME IInv, NEW c \in Conns, NEW f \in Frame, DeliverUnordered(c, f)
  PROVE  IInv'
<1>1. /\ AtFrame(c, f) /\ FrameDone(f, TRUE) /\ ~Ordered(f) /\ Reliable(f)
      /\ f.kind = "unordered" /\ f \notin seen[c] /\ Room
      /\ recvq' = Append(recvq, Ev(c, f))
      /\ seen' = [seen EXCEPT ![c] = @ \cup {f}]
      /\ copies' = [copies EXCEPT ![c][f] = @ + 1]
      /\ UNCHANGED <<expected, latest, holds, holdCount, drain, released, newest,
                     delivered, acked, aborts>>
  BY DEF DeliverUnordered, Ordered, Reliable
<1>2. /\ seen \in [Conns -> SUBSET Frame] /\ copies \in [Conns -> [UnorderedFrame -> Nat]]
      /\ f \in UnorderedFrame
  BY <1>1 DEF IInv, TypeOK, UnorderedFrame
<1>3. /\ seen' \in [Conns -> SUBSET Frame]
      /\ seen'[c] = seen[c] \cup {f}
      /\ \A d \in Conns : d # c => seen'[d] = seen[d]
  BY <1>1, <1>2
<1>4. /\ copies' \in [Conns -> [UnorderedFrame -> Nat]]
      /\ \A d \in Conns, g \in UnorderedFrame :
           copies'[d][g] = IF d = c /\ g = f THEN copies[d][g] + 1 ELSE copies[d][g]
  BY <1>1, <1>2
<1>5. packet' \in PacketType /\ PacketInv'
  <2>1. \A ch \in Channels : released'[c][ch] \in Nat /\ released[c][ch] <= released'[c][ch]
    BY <1>1 DEF IInv, TypeOK
  <2>2. seen[c] \subseteq seen'[c] /\ (Reliable(f) => f \in seen'[c])
    BY <1>1, <1>3 DEF IInv, TypeOK
  <2> QED BY <1>1, <2>1, <2>2, FrameStep
<1>6. /\ recvq' \in Seq(Event) /\ Len(recvq') <= MaxRecv
      /\ recvq' = recvq \/ \E e \in Event : recvq' = Append(recvq, e)
      /\ QueueInv'
  BY <1>1, QueueMaybeOther
<1>7. TypeOK'  BY <1>1, <1>3, <1>4, <1>5, <1>6 DEF IInv, TypeOK
<1>8. CountInv' /\ HoldInv'  BY <1>1 DEF IInv, CountInv, HoldInv, Ordered
<1>9. SeenInv'
  <2> SUFFICES ASSUME NEW d \in Conns, NEW g \in Frame
               PROVE  /\ g \in seen'[d] => Reliable(g)
                      /\ Ordered(g) => (g \in seen'[d] <=> \/ g.idx < released[d][g.chan]
                                                           \/ Ev(d, g) \in holds)
                      /\ g.kind = "unordered" => copies'[d][g] = IF g \in seen'[d] THEN 1 ELSE 0
    BY <1>1 DEF SeenInv, Ev, Ordered, Reliable
  <2>1. /\ g \in seen[d] => Reliable(g)
        /\ Ordered(g) => (g \in seen[d] <=> \/ g.idx < released[d][g.chan]
                                            \/ Ev(d, g) \in holds)
        /\ g.kind = "unordered" => copies[d][g] = IF g \in seen[d] THEN 1 ELSE 0
    BY DEF IInv, SeenInv
  <2>2. CASE d = c /\ g = f
    BY <1>1, <1>2, <1>3, <1>4, <2>1, <2>2
  <2>3. CASE ~(d = c /\ g = f)
    <3>1. g \in seen'[d] <=> g \in seen[d]  BY <1>3, <2>3
    <3>2. g.kind = "unordered" => copies'[d][g] = copies[d][g]
      BY <1>4, <2>3 DEF UnorderedFrame
    <3> QED BY <2>1, <3>1, <3>2
  <2> QED BY <2>2, <2>3
<1>10. WakeInv'  BY <1>1, <1>6, SameWake DEF AtFrame
<1>11. AckInv'  BY <1>1, <1>3 DEF IInv, AckInv
<1> QED BY <1>5, <1>6, <1>7, <1>8, <1>9, <1>10, <1>11 DEF IInv

(* Two events are the same when their connection and frame are.             *)
LEMMA EvInjective ==
  ASSUME NEW c, NEW d, NEW f, NEW g, Ev(c, f) = Ev(d, g)
  PROVE  c = d /\ f = g
<1>1. Ev(c, f).conn = c /\ Ev(c, f).frame = f  BY DEF Ev
<1>2. Ev(d, g).conn = d /\ Ev(d, g).frame = g  BY DEF Ev
<1> QED BY <1>1, <1>2

LEMMA EvOfEvent ==
  ASSUME NEW h \in Event
  PROVE  h = Ev(h.conn, h.frame) /\ h.conn \in Conns /\ h.frame \in Frame
BY DEF Event, Ev

LEMMA HoldFrameKeeps ==
  ASSUME IInv, NEW c \in Conns, NEW f \in Frame, HoldFrame(c, f)
  PROVE  IInv'
<1>1. /\ AtFrame(c, f) /\ FrameDone(f, TRUE) /\ Ordered(f) /\ Reliable(f)
      /\ f \notin seen[c] /\ IsLater(c, f) /\ CanHold(c, f)
      /\ holds' = holds \cup {Ev(c, f)}
      /\ holdCount' = IF Ev(c, f) \in holds THEN holdCount ELSE holdCount + 1
      /\ seen' = [seen EXCEPT ![c] = @ \cup {f}]
      /\ UNCHANGED <<expected, latest, recvq, drain, released, newest, delivered,
                     copies, acked, aborts>>
  BY DEF HoldFrame, Ordered, Reliable, history
<1>2. /\ f.idx > released[c][f.chan]
      /\ f.idx \in Nat /\ f.chan \in Channels /\ released[c][f.chan] \in Nat
  BY <1>1, FrameWithinReach, FrameShape DEF IInv, TypeOK
<1>3. f.idx < released[c][f.chan] + Ahead
  <2>1. packet.frames \in Seq(Frame) /\ packet.conn = c /\ packet.on
        /\ packet.frames # <<>> /\ f = Head(packet.frames)
    BY <1>1, PacketShape DEF IInv, AtFrame
  <2>2. 1 \in DOMAIN packet.frames /\ f = packet.frames[1]  BY <2>1
  <2> QED BY <1>1, <2>1, <2>2 DEF IInv, PacketInv
<1>4. Ev(c, f) \notin holds  BY <1>1, <1>2 DEF IInv, SeenInv
<1>5. /\ IsFiniteSet(holds) /\ holdCount = Cardinality(holds) /\ Cardinality(holds) \in Nat
      /\ holds \in SUBSET Event
  BY FS_CardinalityType DEF IInv, HoldInv, TypeOK
<1>6. Cardinality(holds) < MaxHolds  BY <1>1, <1>4 DEF CanHold
<1>7. /\ IsFiniteSet(holds') /\ Cardinality(holds') = Cardinality(holds) + 1
      /\ holdCount' = Cardinality(holds')
  BY <1>1, <1>4, <1>5, FS_AddElement
<1>8. Ev(c, f) \in Event  BY DEF Ev, Event
<1>9. /\ seen' \in [Conns -> SUBSET Frame]
      /\ seen'[c] = seen[c] \cup {f}
      /\ \A d \in Conns : d # c => seen'[d] = seen[d]
  BY <1>1 DEF IInv, TypeOK
<1>10. packet' \in PacketType /\ PacketInv'
  <2>1. \A ch \in Channels : released'[c][ch] \in Nat /\ released[c][ch] <= released'[c][ch]
    BY <1>1 DEF IInv, TypeOK
  <2> QED BY <1>1, <1>9, <2>1, FrameStep
<1>11. TypeOK'
  <2>1. Cardinality(holds') <= MaxHolds /\ holdCount' \in Int
    BY <1>5, <1>6, <1>7, InstanceAssumption
  <2> QED BY <1>1, <1>5, <1>8, <1>9, <1>10, <2>1 DEF IInv, TypeOK
<1>12. CountInv'  BY <1>1 DEF IInv, CountInv
<1>13. HoldInv'
  <2>1. Ev(c, f).conn = c /\ Ev(c, f).frame = f  BY DEF Ev
  <2> QED BY <1>1, <1>2, <1>3, <1>7, <2>1 DEF IInv, HoldInv, Ordered
<1>14. SeenInv'
  <2> SUFFICES ASSUME NEW d \in Conns, NEW g \in Frame
               PROVE  /\ g \in seen'[d] => Reliable(g)
                      /\ Ordered(g) => (g \in seen'[d] <=> \/ g.idx < released[d][g.chan]
                                                           \/ Ev(d, g) \in holds')
                      /\ g.kind = "unordered" => copies[d][g] = IF g \in seen'[d] THEN 1 ELSE 0
    BY <1>1 DEF SeenInv, Ev, Ordered, Reliable
  <2>1. /\ g \in seen[d] => Reliable(g)
        /\ Ordered(g) => (g \in seen[d] <=> \/ g.idx < released[d][g.chan]
                                            \/ Ev(d, g) \in holds)
        /\ g.kind = "unordered" => copies[d][g] = IF g \in seen[d] THEN 1 ELSE 0
    BY DEF IInv, SeenInv
  <2>2. CASE d = c /\ g = f
    BY <1>1, <1>9, <2>1, <2>2 DEF Ordered
  <2>3. CASE ~(d = c /\ g = f)
    <3>1. g \in seen'[d] <=> g \in seen[d]  BY <1>9, <2>3
    <3>2. Ev(d, g) \in holds' <=> Ev(d, g) \in holds  BY <1>1, <2>3, EvInjective
    <3> QED BY <2>1, <3>1, <3>2
  <2> QED BY <2>2, <2>3
<1>15. QueueInv'  BY <1>1, SameQueue
<1>16. AckInv'  BY <1>1, <1>9 DEF IInv, AckInv
<1>17. WakeInv'
  <2>1. Ev(c, f).conn = c /\ Ev(c, f).frame = f  BY DEF Ev
  <2> QED BY <1>1, <1>2, <2>1 DEF IInv, WakeInv, HasEvent, Room
<1> QED BY <1>10, <1>11, <1>12, <1>13, <1>14, <1>15, <1>16, <1>17 DEF IInv

(* A step of the wrapped counter and of the true count of one stream, and   *)
(* what is known after it.                                                  *)
OneMore(c, ch) == /\ expected' = [expected EXCEPT ![c][ch] = Succ(@, SeqSpace)]
                  /\ released' = [released EXCEPT ![c][ch] = @ + 1]

Counted(c, ch) ==
  /\ CountInv'
  /\ released' \in [Conns -> [Channels -> Nat]]
  /\ expected' \in [Conns -> [Channels -> 0..(SeqSpace - 1)]]
  /\ \A d \in Conns, k \in Channels :
       released'[d][k] = IF d = c /\ k = ch THEN released[d][k] + 1 ELSE released[d][k]

(* What the step of the wrapped counter does to CountInv.                   *)
LEMMA CountStep ==
  ASSUME IInv, NEW c \in Conns, NEW ch \in Channels, OneMore(c, ch)
  PROVE  Counted(c, ch)
<1>0. /\ expected' = [expected EXCEPT ![c][ch] = Succ(@, SeqSpace)]
      /\ released' = [released EXCEPT ![c][ch] = @ + 1]
  BY DEF OneMore
<1>1. /\ released \in [Conns -> [Channels -> Nat]]
      /\ expected \in [Conns -> [Channels -> 0..(SeqSpace - 1)]]
  BY DEF IInv, TypeOK
<1>2. \A d \in Conns, k \in Channels :
        released'[d][k] = IF d = c /\ k = ch THEN released[d][k] + 1 ELSE released[d][k]
  BY <1>0, <1>1
<1>3. released' \in [Conns -> [Channels -> Nat]]  BY <1>0, <1>1
<1>4. Succ(expected[c][ch], SeqSpace) = Wire(released[c][ch] + 1, SeqSpace)
  <2>1. released[c][ch] \in Nat  BY <1>1
  <2> QED BY <2>1, SpaceFacts, SuccOfWire DEF IInv, CountInv
<1>5. Wire(released[c][ch] + 1, SeqSpace) \in 0..(SeqSpace - 1)
  <2>1. released[c][ch] + 1 \in Nat  BY <1>1
  <2> QED BY <2>1, SpaceFacts, WireType
<1>6. expected' \in [Conns -> [Channels -> 0..(SeqSpace - 1)]]  BY <1>0, <1>1, <1>4, <1>5
<1>7. \A d \in Conns, k \in Channels :
        expected'[d][k] = IF d = c /\ k = ch THEN Wire(released[c][ch] + 1, SeqSpace)
                          ELSE expected[d][k]
  BY <1>0, <1>1, <1>4
<1>8. CountInv'  BY <1>2, <1>7 DEF IInv, CountInv
<1> QED BY <1>2, <1>3, <1>6, <1>8 DEF Counted

LEMMA DeliverOrderedKeeps ==
  ASSUME IInv, NEW c \in Conns, NEW f \in Frame, DeliverOrdered(c, f)
  PROVE  IInv'
<1>1. /\ AtFrame(c, f) /\ FrameDone(f, TRUE) /\ Ordered(f) /\ Reliable(f)
      /\ f \notin seen[c] /\ IsNext(c, f) /\ Room
      /\ recvq' = Append(recvq, Ev(c, f))
      /\ seen' = [seen EXCEPT ![c] = @ \cup {f}]
      /\ expected' = [expected EXCEPT ![c][f.chan] = Succ(@, SeqSpace)]
      /\ released' = [released EXCEPT ![c][f.chan] = @ + 1]
      /\ StartDrain(c, f.chan, f.chan)
      /\ UNCHANGED <<latest, holds, holdCount, newest, delivered, copies, acked, aborts>>
  BY DEF DeliverOrdered, Ordered, Reliable
<1>2. /\ f.idx = released[c][f.chan]
      /\ f.idx \in Nat /\ f.chan \in Channels /\ released[c][f.chan] \in Nat
  BY <1>1, FrameWithinReach, FrameShape DEF IInv, TypeOK
<1>3. Ev(c, f) \notin holds  BY <1>1 DEF IInv, SeenInv
<1>4. /\ CountInv'
      /\ released' \in [Conns -> [Channels -> Nat]]
      /\ expected' \in [Conns -> [Channels -> 0..(SeqSpace - 1)]]
      /\ \A d \in Conns, k \in Channels :
           released'[d][k] = IF d = c /\ k = f.chan THEN released[d][k] + 1 ELSE released[d][k]
  <2>1. f.chan \in Channels  BY <1>2
  <2>2. OneMore(c, f.chan)  BY <1>1 DEF OneMore
  <2>3. Counted(c, f.chan)  BY <2>1, <2>2, CountStep
  <2> QED BY <2>3 DEF Counted
<1>5. /\ seen' \in [Conns -> SUBSET Frame]
      /\ seen'[c] = seen[c] \cup {f}
      /\ \A d \in Conns : d # c => seen'[d] = seen[d]
  BY <1>1 DEF IInv, TypeOK
<1>6. released \in [Conns -> [Channels -> Nat]]  BY DEF IInv, TypeOK
<1>7. packet' \in PacketType /\ PacketInv'
  <2>1. \A ch \in Channels : released'[c][ch] \in Nat /\ released[c][ch] <= released'[c][ch]
    BY <1>4, <1>6
  <2> QED BY <1>1, <1>5, <2>1, FrameStep
<1>8. Ev(c, f) \in Event /\ Ev(c, f).conn = c /\ Ev(c, f).frame = f  BY DEF Ev, Event
<1>9. /\ recvq' \in Seq(Event) /\ Len(recvq') = Len(recvq) + 1 /\ Len(recvq) \in Nat
      /\ DOMAIN recvq' = 1..(Len(recvq) + 1) /\ DOMAIN recvq = 1..Len(recvq)
      /\ \A i \in DOMAIN recvq : recvq'[i] = recvq[i]
      /\ recvq'[Len(recvq) + 1] = Ev(c, f)
  BY <1>1, <1>8, Appended DEF IInv, TypeOK
<1>10. drain' \in DrainType \cup {NoDrain}
       /\ (drain'.on => drain'.conn = c /\ drain'.chan = f.chan /\ drain'.last = f.chan)
  BY <1>1, <1>2 DEF StartDrain, DrainType, NoDrain
<1>11. Len(recvq') <= MaxRecv  BY <1>1, <1>9, InstanceAssumption DEF Room
<1>12. TypeOK'
  BY <1>1, <1>4, <1>5, <1>7, <1>9, <1>10, <1>11 DEF IInv, TypeOK
<1>13. QueueInv'  BY <1>1, <1>2, QueueNext
<1>14. HoldInv'
  <2> SUFFICES ASSUME NEW h \in holds
               PROVE  /\ Ordered(h.frame)
                      /\ released'[h.conn][h.frame.chan] <= h.frame.idx
                      /\ h.frame.idx < released'[h.conn][h.frame.chan] + Ahead
    BY <1>1 DEF IInv, HoldInv, Ordered
  <2>1. /\ Ordered(h.frame)
        /\ released[h.conn][h.frame.chan] <= h.frame.idx
        /\ h.frame.idx < released[h.conn][h.frame.chan] + Ahead
    BY DEF IInv, HoldInv
  <2>2. h = Ev(h.conn, h.frame) /\ h.conn \in Conns /\ h.frame \in Frame
    BY EvOfEvent DEF IInv, TypeOK
  <2>3. h.frame.idx \in Nat /\ h.frame.chan \in Channels  BY <2>2, FrameShape
  <2>4. CASE h.conn = c /\ h.frame.chan = f.chan
    <3>1. h.frame.idx # f.idx
      <4> SUFFICES ASSUME h.frame.idx = f.idx PROVE FALSE  OBVIOUS
      <4>1. h.frame = f  BY <1>1, <2>1, <2>2, <2>4 DEF Frame, Ordered
      <4> QED BY <1>3, <2>2, <2>4, <4>1
    <3>2. released'[h.conn][h.frame.chan] = f.idx + 1  BY <1>2, <1>4, <2>4
    <3>3. f.idx <= h.frame.idx /\ h.frame.idx < f.idx + Ahead  BY <1>2, <2>1, <2>4
    <3>4. f.idx + 1 <= h.frame.idx /\ h.frame.idx < f.idx + 1 + Ahead
      BY <1>2, <2>3, <3>1, <3>3, SpaceFacts
    <3> QED BY <2>1, <3>2, <3>4
  <2>5. CASE ~(h.conn = c /\ h.frame.chan = f.chan)
    BY <1>4, <2>1, <2>2, <2>3, <2>5
  <2> QED BY <2>4, <2>5
<1>15. SeenInv'
  <2> SUFFICES ASSUME NEW d \in Conns, NEW g \in Frame
               PROVE  /\ g \in seen'[d] => Reliable(g)
                      /\ Ordered(g) => (g \in seen'[d] <=> \/ g.idx < released'[d][g.chan]
                                                           \/ Ev(d, g) \in holds)
                      /\ g.kind = "unordered" => copies[d][g] = IF g \in seen'[d] THEN 1 ELSE 0
    BY <1>1 DEF SeenInv, Ev, Ordered, Reliable
  <2>1. /\ g \in seen[d] => Reliable(g)
        /\ Ordered(g) => (g \in seen[d] <=> \/ g.idx < released[d][g.chan]
                                            \/ Ev(d, g) \in holds)
        /\ g.kind = "unordered" => copies[d][g] = IF g \in seen[d] THEN 1 ELSE 0
    BY DEF IInv, SeenInv
  <2>2. g.idx \in Nat /\ g.chan \in Channels /\ released[d][g.chan] \in Nat
    BY <1>6, FrameShape
  <2>3. CASE d = c /\ g = f
    BY <1>1, <1>2, <1>4, <1>5, <2>1, <2>3 DEF Ordered
  <2>4. CASE ~(d = c /\ g = f)
    <3>1. g \in seen'[d] <=> g \in seen[d]  BY <1>5, <2>4
    <3>2. Ordered(g) => (g.idx < released'[d][g.chan] <=> g.idx < released[d][g.chan])
      <4> SUFFICES ASSUME Ordered(g), d = c, g.chan = f.chan
                   PROVE  g.idx < released[d][g.chan] + 1 <=> g.idx < released[d][g.chan]
        BY <1>4, <2>2
      <4>1. g.idx # f.idx  BY <1>1, <2>4 DEF Frame, Ordered
      <4> QED BY <1>2, <2>2, <4>1
    <3> QED BY <2>1, <3>1, <3>2
  <2> QED BY <2>3, <2>4
<1>16. AckInv'  BY <1>1, <1>5 DEF IInv, AckInv
<1>17. WakeInv'
  <2>1. ASSUME NEW d PROVE HasEvent(d) \/ d = c => HasEvent(d)'
    BY <1>8, <1>9 DEF HasEvent
  <2>2. drain'.on => drain'.chan <= drain'.last /\ HasEvent(drain.conn)'
    <3>1. HasEvent(c)'  BY <2>1
    <3>2. drain'.on => HasEvent(drain.conn)'  BY <1>10, <3>1 DEF HasEvent
    <3>3. drain'.on => drain'.chan <= drain'.last
      BY <1>2, <1>10, InstanceAssumption DEF Channels
    <3> QED BY <3>2, <3>3
  <2>3. ASSUME NEW h \in holds, h.frame.idx = released'[h.conn][h.frame.chan]
        PROVE  HasEvent(h.conn)'
    <3>1. CASE h.conn = c  BY <2>1, <3>1
    <3>2. CASE h.conn # c
      <4>1. h.conn \in Conns /\ h.frame.chan \in Channels
        BY EvOfEvent, FrameShape DEF IInv, TypeOK
      <4>2. h.frame.idx = released[h.conn][h.frame.chan]  BY <1>4, <2>3, <3>2, <4>1
      <4>3. HasEvent(h.conn)  BY <1>1, <4>2 DEF IInv, WakeInv, AtFrame
      <4> QED BY <2>1, <4>3
    <3> QED BY <3>1, <3>2
  <2> QED BY <1>1, <2>2, <2>3 DEF WakeInv
<1> QED BY <1>4, <1>7, <1>12, <1>13, <1>14, <1>15, <1>16, <1>17 DEF IInv

LEMMA DrainReleaseKeeps ==
  ASSUME IInv, NEW h \in holds, DrainRelease(h)
  PROVE  IInv'
<1> DEFINE c == h.conn
           ch == h.frame.chan
<1>1. /\ drain.on /\ Room /\ c = drain.conn /\ ch = drain.chan
      /\ CSeq(h.frame) = expected[c][ch]
      /\ recvq' = Append(recvq, h) /\ holds' = holds \ {h}
      /\ holdCount' = IF holdCount > 0 THEN holdCount - 1 ELSE holdCount
      /\ expected' = [expected EXCEPT ![c][ch] = Succ(@, SeqSpace)]
      /\ released' = [released EXCEPT ![c][ch] = @ + 1]
      /\ UNCHANGED <<latest, seen, packet, drain, newest, delivered, copies, acked, aborts>>
  BY DEF DrainRelease, ReadyHolds
<1>2. /\ h \in Event /\ c \in Conns /\ h.frame \in Frame /\ h = Ev(c, h.frame)
      /\ h.frame.idx = released[c][ch] /\ Ordered(h.frame)
  BY <1>1, ReadyHoldIsNext, EvOfEvent DEF IInv, HoldInv
<1>3. ch \in Channels /\ h.frame.idx \in Nat  BY <1>2, FrameShape
<1> HIDE DEF c, ch
<1>4. /\ CountInv'
      /\ released' \in [Conns -> [Channels -> Nat]]
      /\ expected' \in [Conns -> [Channels -> 0..(SeqSpace - 1)]]
      /\ \A d \in Conns, k \in Channels :
           released'[d][k] = IF d = c /\ k = ch THEN released[d][k] + 1 ELSE released[d][k]
  <2>1. c \in Conns /\ ch \in Channels  BY <1>2, <1>3
  <2>2. OneMore(c, ch)  BY <1>1 DEF OneMore
  <2>3. Counted(c, ch)  BY <2>1, <2>2, CountStep
  <2> QED BY <2>3 DEF Counted
<1>5. released \in [Conns -> [Channels -> Nat]] /\ holds \in SUBSET Event
  BY DEF IInv, TypeOK
<1>6. /\ recvq' \in Seq(Event) /\ Len(recvq') = Len(recvq) + 1 /\ Len(recvq) \in Nat
      /\ DOMAIN recvq' = 1..(Len(recvq) + 1) /\ DOMAIN recvq = 1..Len(recvq)
      /\ \A i \in DOMAIN recvq : recvq'[i] = recvq[i]
      /\ recvq'[Len(recvq) + 1] = h
  BY <1>1, <1>2, Appended DEF IInv, TypeOK
<1>7. Len(recvq') <= MaxRecv  BY <1>1, <1>6, InstanceAssumption DEF Room
<1>8. /\ IsFiniteSet(holds') /\ holdCount' = Cardinality(holds')
      /\ Cardinality(holds') <= MaxHolds /\ holdCount' \in Int
  <2>1. /\ IsFiniteSet(holds) /\ holdCount = Cardinality(holds) /\ Cardinality(holds) \in Nat
        /\ Cardinality(holds) <= MaxHolds
    BY FS_CardinalityType DEF IInv, HoldInv, TypeOK
  <2>2. IsFiniteSet(holds') /\ Cardinality(holds') = Cardinality(holds) - 1
    BY <1>1, <2>1, FS_RemoveElement
  <2>3. Cardinality(holds') \in Nat  BY <2>2, FS_CardinalityType
  <2> QED BY <1>1, <2>1, <2>2, <2>3, InstanceAssumption
<1>9. TypeOK'  BY <1>1, <1>4, <1>5, <1>6, <1>7, <1>8 DEF IInv, TypeOK
<1>10. QueueInv'
  <2>1. recvq' = Append(recvq, Ev(c, h.frame)) /\ h.frame.idx = released[c][h.frame.chan]
        /\ released' = [released EXCEPT ![c][h.frame.chan] = @ + 1]
    BY <1>1, <1>2 DEF ch
  <2> QED BY <1>1, <1>2, <2>1, QueueNext
<1>11. ASSUME NEW g \in holds, g # h
       PROVE  /\ Ordered(g.frame) /\ g.conn \in Conns /\ g.frame.chan \in Channels
              /\ released'[g.conn][g.frame.chan] <= g.frame.idx
              /\ g.frame.idx < released'[g.conn][g.frame.chan] + Ahead
  <2>1. /\ Ordered(g.frame)
        /\ released[g.conn][g.frame.chan] <= g.frame.idx
        /\ g.frame.idx < released[g.conn][g.frame.chan] + Ahead
    BY DEF IInv, HoldInv
  <2>2. g = Ev(g.conn, g.frame) /\ g.conn \in Conns /\ g.frame \in Frame
    BY <1>5, EvOfEvent
  <2>3. g.frame.idx \in Nat /\ g.frame.chan \in Channels  BY <2>2, FrameShape
  <2>4. CASE g.conn = c /\ g.frame.chan = ch
    <3>1. g.frame.idx # h.frame.idx
      <4> SUFFICES ASSUME g.frame.idx = h.frame.idx PROVE FALSE  OBVIOUS
      <4>1. g.frame = h.frame  BY <1>2, <2>1, <2>2, <2>4 DEF Frame, Ordered, ch
      <4> QED BY <1>2, <1>11, <2>2, <2>4, <4>1
    <3>2. released'[g.conn][g.frame.chan] = h.frame.idx + 1  BY <1>2, <1>3, <1>4, <2>4
    <3>3. h.frame.idx <= g.frame.idx /\ g.frame.idx < h.frame.idx + Ahead
      BY <1>2, <2>1, <2>4
    <3>4. h.frame.idx + 1 <= g.frame.idx /\ g.frame.idx < h.frame.idx + 1 + Ahead
      BY <1>3, <2>3, <3>1, <3>3, SpaceFacts
    <3> QED BY <2>1, <2>2, <2>3, <3>2, <3>4
  <2>5. CASE ~(g.conn = c /\ g.frame.chan = ch)
    BY <1>4, <2>1, <2>2, <2>3, <2>5
  <2> QED BY <2>4, <2>5
<1>12. HoldInv'  BY <1>1, <1>8, <1>11 DEF HoldInv, Ordered
<1>13. SeenInv'
  <2> SUFFICES ASSUME NEW d \in Conns, NEW g \in Frame
               PROVE  /\ g \in seen[d] => Reliable(g)
                      /\ Ordered(g) => (g \in seen[d] <=> \/ g.idx < released'[d][g.chan]
                                                          \/ Ev(d, g) \in holds')
                      /\ g.kind = "unordered" => copies[d][g] = IF g \in seen[d] THEN 1 ELSE 0
    BY <1>1 DEF SeenInv, Ev, Ordered, Reliable
  <2>1. /\ g \in seen[d] => Reliable(g)
        /\ Ordered(g) => (g \in seen[d] <=> \/ g.idx < released[d][g.chan]
                                            \/ Ev(d, g) \in holds)
        /\ g.kind = "unordered" => copies[d][g] = IF g \in seen[d] THEN 1 ELSE 0
    BY DEF IInv, SeenInv
  <2>2. g.idx \in Nat /\ g.chan \in Channels /\ released[d][g.chan] \in Nat
    BY <1>5, FrameShape
  <2>3. CASE d = c /\ g = h.frame
    <3>1. g.idx < released'[d][g.chan]
      BY <1>2, <1>3, <1>4, <2>3 DEF ch
    <3>2. Ev(d, g) \in holds  BY <1>2, <2>3
    <3> QED BY <2>1, <3>1, <3>2
  <2>4. CASE ~(d = c /\ g = h.frame)
    <3>1. Ev(d, g) \in holds' <=> Ev(d, g) \in holds  BY <1>1, <1>2, <2>4, EvInjective
    <3>2. Ordered(g) => (g.idx < released'[d][g.chan] <=> g.idx < released[d][g.chan])
      <4> SUFFICES ASSUME Ordered(g), d = c, g.chan = ch
                   PROVE  g.idx < released[d][g.chan] + 1 <=> g.idx < released[d][g.chan]
        BY <1>4, <2>2
      <4>1. g.idx # h.frame.idx  BY <1>2, <2>4 DEF Frame, Ordered, ch
      <4> QED BY <1>2, <2>2, <4>1
    <3> QED BY <2>1, <3>1, <3>2
  <2> QED BY <2>3, <2>4
<1>14. PacketInv'
  <2> SUFFICES ASSUME packet.on, NEW i \in DOMAIN packet.frames, Ordered(packet.frames[i])
               PROVE  packet.frames[i].idx < released'[packet.conn][packet.frames[i].chan] + Ahead
    BY <1>1 DEF IInv, PacketInv, Ordered
  <2> DEFINE g == packet.frames[i]
  <2>1. g.idx < released[packet.conn][g.chan] + Ahead  BY DEF IInv, PacketInv
  <2>2. packet.conn \in Conns /\ g \in Frame
    BY PacketShape, LenProperties DEF IInv
  <2>3. g.idx \in Nat /\ g.chan \in Channels  BY <2>2, FrameShape
  <2> HIDE DEF g
  <2>4. /\ released[packet.conn][g.chan] \in Nat
        /\ \/ released'[packet.conn][g.chan] = released[packet.conn][g.chan]
           \/ released'[packet.conn][g.chan] = released[packet.conn][g.chan] + 1
    BY <1>4, <1>5, <2>2, <2>3
  <2>5. g.idx < released'[packet.conn][g.chan] + Ahead
    BY <2>1, <2>3, <2>4, SpaceFacts
  <2> QED BY <2>5 DEF g
<1>15. AckInv'  BY <1>1 DEF IInv, AckInv
<1>16. WakeInv'
  <2>1. ASSUME NEW d PROVE HasEvent(d) \/ d = c => HasEvent(d)'
    <3>1. CASE HasEvent(d)  BY <1>6, <3>1 DEF HasEvent
    <3>2. CASE d = c
      <4>1. Len(recvq) + 1 \in DOMAIN recvq'  BY <1>6
      <4> QED BY <1>6, <3>2, <4>1 DEF HasEvent, c
    <3> QED BY <3>1, <3>2
  <2>2. drain'.on => drain'.chan <= drain'.last /\ HasEvent(drain.conn)'
    BY <1>1, <2>1 DEF IInv, WakeInv, HasEvent
  <2>3. ASSUME NEW g \in holds', g.frame.idx = released'[g.conn][g.frame.chan]
        PROVE  HasEvent(g.conn)' \/ (/\ drain.on /\ drain.conn = g.conn
                                     /\ drain.chan <= g.frame.chan /\ g.frame.chan <= drain.last)
    <3>1. CASE g.conn = c  BY <2>1, <3>1
    <3>2. CASE g.conn # c
      <4>1. g \in holds /\ g # h /\ g.conn \in Conns /\ g.frame.chan \in Channels
        BY <1>1, <1>11
      <4>2. g.frame.idx = released[g.conn][g.frame.chan]  BY <1>4, <2>3, <3>2, <4>1
      <4> QED BY <2>1, <4>1, <4>2 DEF IInv, WakeInv
    <3> QED BY <3>1, <3>2
  <2> QED BY <1>1, <2>2, <2>3 DEF WakeInv
<1> QED BY <1>4, <1>9, <1>10, <1>12, <1>13, <1>14, <1>15, <1>16 DEF IInv

LEMMA DrainShape ==
  ASSUME TypeOK, drain.on
  PROVE  drain \in DrainType /\ drain.conn \in Conns
         /\ drain.chan \in Channels /\ drain.last \in Channels
<1>1. drain # NoDrain  BY DEF NoDrain
<1>2. drain \in DrainType  BY <1>1 DEF TypeOK
<1> QED BY <1>2 DEF DrainType

(* A channel with no ready hold has no hold whose turn has come.            *)
LEMMA NoneReady ==
  ASSUME IInv, drain.on, ReadyHolds(drain.conn, drain.chan) = {},
         NEW h \in holds, h.conn = drain.conn, h.frame.chan = drain.chan
  PROVE  h.frame.idx # released[h.conn][h.frame.chan]
<1>1. CSeq(h.frame) # expected[h.conn][h.frame.chan]  BY DEF ReadyHolds
<1> QED BY <1>1, ReadyHoldIsNext

LEMMA DrainNextChannelKeeps ==
  ASSUME IInv, DrainNextChannel
  PROVE  IInv'
<1>1. /\ drain.on /\ Room /\ drain.chan < drain.last
      /\ ReadyHolds(drain.conn, drain.chan) = {}
      /\ drain' = [drain EXCEPT !.chan = @ + 1]
      /\ UNCHANGED <<connVars, endpointVars, packet, history>>
  BY DEF DrainNextChannel
<1>2. drain \in DrainType /\ drain.chan \in Channels /\ drain.last \in Channels
  BY <1>1, DrainShape DEF IInv
<1>3. drain.chan + 1 \in Channels  BY <1>1, <1>2, InstanceAssumption DEF Channels
<1>4. /\ drain' \in DrainType /\ drain'.on /\ drain'.conn = drain.conn
      /\ drain'.chan = drain.chan + 1 /\ drain'.last = drain.last
  BY <1>1, <1>2, <1>3 DEF DrainType
<1>5. TypeOK'  BY <1>1, <1>4 DEF IInv, TypeOK, connVars, endpointVars, history
<1>6. CountInv' /\ HoldInv' /\ SeenInv'  BY <1>1, SameStreams DEF endpointVars, history
<1>7. QueueInv'  BY <1>1, SameQueue DEF endpointVars, history
<1>8. PacketInv'  BY <1>1 DEF IInv, PacketInv, connVars, history, Ordered
<1>9. AckInv'  BY <1>1 DEF IInv, AckInv, connVars, history
<1>10. WakeInv'
  <2>1. drain'.chan <= drain'.last /\ Room'
    BY <1>1, <1>2, <1>4 DEF Room, endpointVars, Channels
  <2>2. ASSUME NEW h \in holds, h.frame.idx = released[h.conn][h.frame.chan]
        PROVE  \/ HasEvent(h.conn)
               \/ /\ drain.conn = h.conn
                  /\ drain.chan + 1 <= h.frame.chan /\ h.frame.chan <= drain.last
    <3>1. \/ HasEvent(h.conn)
          \/ /\ drain.conn = h.conn
             /\ drain.chan <= h.frame.chan /\ h.frame.chan <= drain.last
      BY <2>2 DEF IInv, WakeInv
    <3>2. drain.conn = h.conn => h.frame.chan # drain.chan  BY <1>1, <2>2, NoneReady
    <3>3. h.frame.chan \in Int /\ drain.chan \in Int
      BY <1>2, EvOfEvent, FrameShape DEF IInv, TypeOK, Channels
    <3> QED BY <3>1, <3>2, <3>3
  <2>3. holds' = holds /\ released' = released /\ recvq' = recvq
    BY <1>1 DEF endpointVars, history
  <2> QED BY <1>4, <2>1, <2>2, <2>3 DEF WakeInv, HasEvent
<1> QED BY <1>5, <1>6, <1>7, <1>8, <1>9, <1>10 DEF IInv

LEMMA DrainEndKeeps ==
  ASSUME IInv, DrainEnd
  PROVE  IInv'
<1>1. /\ drain.on /\ drain' = NoDrain
      /\ ~Room \/ (drain.chan = drain.last /\ ReadyHolds(drain.conn, drain.chan) = {})
      /\ UNCHANGED <<connVars, endpointVars, packet, history>>
  BY DEF DrainEnd
<1>2. TypeOK'  BY <1>1 DEF IInv, TypeOK, connVars, endpointVars, history
<1>3. CountInv' /\ HoldInv' /\ SeenInv'  BY <1>1, SameStreams DEF endpointVars, history
<1>4. QueueInv'  BY <1>1, SameQueue DEF endpointVars, history
<1>5. PacketInv'  BY <1>1 DEF IInv, PacketInv, connVars, history, Ordered
<1>6. AckInv'  BY <1>1 DEF IInv, AckInv, connVars, history
<1>7. WakeInv'
  <2>1. ASSUME NEW h \in holds, h.frame.idx = released[h.conn][h.frame.chan]
        PROVE  HasEvent(h.conn)
    <3>1. \/ HasEvent(h.conn)
          \/ /\ drain.conn = h.conn
             /\ drain.chan <= h.frame.chan /\ h.frame.chan <= drain.last
      BY <2>1 DEF IInv, WakeInv
    <3>2. CASE ~Room  BY <1>1, <3>1, <3>2 DEF IInv, WakeInv
    <3>3. CASE drain.chan = drain.last /\ ReadyHolds(drain.conn, drain.chan) = {}
      <4>1. drain.conn = h.conn => h.frame.chan # drain.chan
        BY <1>1, <2>1, <3>3, NoneReady
      <4>2. h.frame.chan \in Int /\ drain.chan \in Int
        BY <1>1, DrainShape, EvOfEvent, FrameShape DEF IInv, TypeOK, Channels
      <4> QED BY <3>1, <3>3, <4>1, <4>2
    <3> QED BY <1>1, <3>2, <3>3
  <2>2. holds' = holds /\ released' = released /\ recvq' = recvq
    BY <1>1 DEF endpointVars, history
  <2> QED BY <1>1, <2>1, <2>2 DEF WakeInv, HasEvent, NoDrain
<1> QED BY <1>2, <1>3, <1>4, <1>5, <1>6, <1>7 DEF IInv

(* The oldest ordered event of a channel in the queue is the next one the   *)
(* application waits for.                                                   *)
LEMMA HeadIsDue ==
  ASSUME IInv, recvq # <<>>, Ordered(recvq[1].frame)
  PROVE  LET e == recvq[1] IN e.frame.idx = Len(delivered[e.conn][e.frame.chan])
<1> DEFINE e == recvq[1]
           c == e.conn
           ch == e.frame.chan
           len == Len(delivered[c][ch])
<1>1. /\ recvq \in Seq(Event) /\ Len(recvq) \in Nat /\ DOMAIN recvq = 1..Len(recvq)
      /\ 1 \in DOMAIN recvq
  BY LenProperties, EmptySeq DEF IInv, TypeOK
<1>2. c \in Conns /\ ch \in Channels /\ e.frame.idx \in Nat
  BY <1>1, QueuedEvent, FrameShape DEF IInv
<1>3. Of(e, c, ch)  BY DEF Of, Ordered
<1>4. delivered[c][ch] \in Seq(Nat) /\ len \in Nat
  BY <1>2, LenProperties DEF IInv, TypeOK
<1>5. len <= e.frame.idx /\ e.frame.idx < released[c][ch]
  BY <1>1, <1>2, <1>3 DEF IInv, QueueInv
<1>6. PICK i \in DOMAIN recvq : Of(recvq[i], c, ch) /\ recvq[i].frame.idx = len
  <2>1. released[c][ch] \in Nat  BY <1>2 DEF IInv, TypeOK
  <2> DEFINE n0 == e.frame.idx
             r0 == released[c][ch]
  <2>0. n0 \in Nat /\ r0 \in Nat /\ len \in Nat /\ len <= n0 /\ n0 < r0  BY <1>2, <1>4, <1>5, <2>1
  <2>2. len < released[c][ch]
    <3> HIDE DEF n0, r0, len
    <3>1. len < r0  BY <2>0
    <3> QED BY <3>1 DEF r0
  <2> HIDE DEF c, ch, e
  <2>3. \A d \in Conns, dh \in Channels, n \in Nat :
          Len(delivered[d][dh]) <= n /\ n < released[d][dh] =>
            \E i \in DOMAIN recvq : Of(recvq[i], d, dh) /\ recvq[i].frame.idx = n
    BY DEF IInv, QueueInv
  <2> QED BY <1>2, <1>4, <2>2, <2>3
<1>7. CASE i = 1  BY <1>6, <1>7
<1>8. CASE i # 1
  <2>1. 1 < i  BY <1>1, <1>6, <1>8
  <2>2. e.frame.idx < recvq[i].frame.idx
    BY <1>1, <1>2, <1>3, <1>6, <2>1 DEF IInv, QueueInv
  <2> DEFINE n0 == e.frame.idx
             l0 == len
  <2>3. l0 \in Nat /\ n0 \in Nat /\ l0 <= n0 /\ n0 < l0  BY <1>2, <1>4, <1>5, <1>6, <2>2
  <2> HIDE DEF n0, l0
  <2> QED BY <2>3
<1> QED BY <1>7, <1>8

LEMMA AppRecvKeeps ==
  ASSUME IInv, AppRecv
  PROVE  IInv'
<1> DEFINE e == recvq[1]
           c == e.conn
           k == e.frame.chan
<1>1. /\ ~packet.on /\ ~drain.on /\ recvq # <<>>
      /\ recvq \in Seq(Event) /\ Len(recvq) <= MaxRecv
      /\ Head(recvq) = e /\ recvq' = Tail(recvq)
      /\ delivered' = IF e.frame.kind = "ordered"
                      THEN [delivered EXCEPT ![c][k] = Append(@, e.frame.idx)]
                      ELSE delivered
      /\ StartDrain(c, 0, NumChannels - 1)
      /\ UNCHANGED <<connVars, holds, holdCount, packet, released, newest, copies,
                     acked, aborts>>
  <2>1. recvq \in Seq(Event) /\ Len(recvq) <= MaxRecv  BY DEF IInv, TypeOK
  <2>2. recvq # <<>> /\ Idle  BY DEF AppRecv
  <2>3. Head(recvq) = e  BY <2>1, <2>2
  <2> HIDE DEF e
  <2>4. /\ recvq' = Tail(recvq)
        /\ delivered' = IF e.frame.kind = "ordered"
                        THEN [delivered EXCEPT ![c][k] = Append(@, e.frame.idx)]
                        ELSE delivered
        /\ StartDrain(c, 0, NumChannels - 1)
        /\ UNCHANGED <<connVars, holds, holdCount, packet, released, newest, copies,
                       acked, aborts>>
    BY <2>3, Zenon DEF AppRecv, c, k
  <2> QED BY <2>1, <2>2, <2>3, <2>4, Zenon DEF Idle
<1>2. /\ Len(recvq) \in Nat /\ DOMAIN recvq = 1..Len(recvq) /\ 1 \in DOMAIN recvq
      /\ recvq' \in Seq(Event) /\ Len(recvq') = Len(recvq) - 1
      /\ DOMAIN recvq' = 1..(Len(recvq) - 1)
      /\ \A i \in DOMAIN recvq' : recvq'[i] = recvq[i + 1]
  <2>1. recvq \in Seq(Event) /\ recvq # <<>> /\ recvq' = Tail(recvq)  BY <1>1
  <2> HIDE DEF e, c, k
  <2>2. /\ Tail(recvq) \in Seq(Event) /\ Len(Tail(recvq)) = Len(recvq) - 1
        /\ \A i \in 1..Len(Tail(recvq)) : Tail(recvq)[i] = recvq[i + 1]
    BY <2>1, HeadTailProperties
  <2>3. /\ Len(recvq) \in Nat /\ DOMAIN recvq = 1..Len(recvq)
        /\ DOMAIN Tail(recvq) = 1..Len(Tail(recvq))
    BY <2>1, <2>2, LenProperties
  <2>4. Len(recvq) # 0  BY <2>1, EmptySeq
  <2> QED BY <2>1, <2>2, <2>3, <2>4
<1>3. c \in Conns /\ k \in Channels /\ e.frame \in Frame /\ e.frame.idx \in Nat
  BY <1>2, QueuedEvent, FrameShape DEF IInv
<1>4. Ordered(e.frame) => e.frame.idx = Len(delivered[c][k])
  BY <1>1, HeadIsDue
<1>5. \A d \in Conns, ch \in Channels :
        delivered'[d][ch] = IF e.frame.kind = "ordered" /\ d = c /\ ch = k
                            THEN Append(delivered[d][ch], e.frame.idx)
                            ELSE delivered[d][ch]
  <2>1. delivered \in [Conns -> [Channels -> Seq(Nat)]]  BY DEF IInv, TypeOK
  <2>2. delivered' = IF e.frame.kind = "ordered"
                     THEN [delivered EXCEPT ![c][k] = Append(@, e.frame.idx)]
                     ELSE delivered
    BY <1>1
  <2> HIDE DEF e, c, k
  <2> QED BY <1>3, <2>1, <2>2
<1>6. delivered' \in [Conns -> [Channels -> Seq(Nat)]]
  <2>1. delivered \in [Conns -> [Channels -> Seq(Nat)]]  BY DEF IInv, TypeOK
  <2>2. Append(delivered[c][k], e.frame.idx) \in Seq(Nat)
    BY <1>3, <2>1, AppendProperties
  <2> HIDE DEF e, c, k
  <2> QED BY <1>1, <1>3, <2>1, <2>2
<1>7. /\ drain' \in DrainType \cup {NoDrain}
      /\ IF holdCount = 0 THEN drain' = NoDrain
         ELSE drain'.on /\ drain'.conn = c /\ drain'.chan = 0 /\ drain'.last = NumChannels - 1
  <2>1. 0 \in Channels /\ NumChannels - 1 \in Channels  BY InstanceAssumption DEF Channels
  <2> QED BY <1>1, <1>3, <2>1 DEF StartDrain, DrainType
<1> HIDE DEF e, c, k
<1>8. Len(recvq') <= MaxRecv /\ Len(recvq') < MaxRecv  BY <1>1, <1>2, InstanceAssumption
<1>9. TypeOK'  BY <1>1, <1>2, <1>6, <1>7, <1>8 DEF IInv, TypeOK, connVars
<1>10. CountInv' /\ HoldInv' /\ SeenInv'
  BY <1>1 DEF connVars, IInv, CountInv, HoldInv, SeenInv, Ev, Ordered, Reliable
<1>11. QueueInv'
  <2> SUFFICES ASSUME NEW d \in Conns, NEW ch \in Channels PROVE
        /\ Len(delivered'[d][ch]) <= released[d][ch]
        /\ \A i \in DOMAIN delivered'[d][ch] : delivered'[d][ch][i] = i - 1
        /\ \A n \in Nat : Len(delivered'[d][ch]) <= n /\ n < released[d][ch] =>
             \E i \in DOMAIN recvq' : Of(recvq'[i], d, ch) /\ recvq'[i].frame.idx = n
        /\ \A i \in DOMAIN recvq' : Of(recvq'[i], d, ch) =>
             /\ Len(delivered'[d][ch]) <= recvq'[i].frame.idx
             /\ recvq'[i].frame.idx < released[d][ch]
        /\ \A i, j \in DOMAIN recvq' :
             i < j /\ Of(recvq'[i], d, ch) /\ Of(recvq'[j], d, ch) =>
               recvq'[i].frame.idx < recvq'[j].frame.idx
    BY <1>1 DEF QueueInv, Of
  <2> DEFINE len == Len(delivered[d][ch])
             r == released[d][ch]
  <2>1. delivered[d][ch] \in Seq(Nat) /\ len \in Nat /\ r \in Nat
        /\ DOMAIN delivered[d][ch] = 1..len
    BY LenProperties DEF IInv, TypeOK
  <2>2. len <= r /\ \A i \in DOMAIN delivered[d][ch] : delivered[d][ch][i] = i - 1
    BY DEF IInv, QueueInv
  <2>3. \A n \in Nat : len <= n /\ n < r =>
          \E i \in DOMAIN recvq : Of(recvq[i], d, ch) /\ recvq[i].frame.idx = n
    BY DEF IInv, QueueInv
  <2>4. \A i \in DOMAIN recvq : Of(recvq[i], d, ch) =>
          len <= recvq[i].frame.idx /\ recvq[i].frame.idx < r
    BY DEF IInv, QueueInv
  <2>5. \A i, j \in DOMAIN recvq : i < j /\ Of(recvq[i], d, ch) /\ Of(recvq[j], d, ch) =>
          recvq[i].frame.idx < recvq[j].frame.idx
    BY DEF IInv, QueueInv
  <2>6. \A i \in DOMAIN recvq' : i + 1 \in DOMAIN recvq /\ 1 < i + 1 /\ recvq'[i] = recvq[i + 1]
    BY <1>2
  <2>7. \A i \in DOMAIN recvq : i # 1 => i - 1 \in DOMAIN recvq' /\ recvq'[i - 1] = recvq[i]
    BY <1>2
  <2>8. \A i, j \in DOMAIN recvq' : i < j => i + 1 < j + 1  BY <1>2
  <2>9. \A i, j \in DOMAIN recvq' :
          i < j /\ Of(recvq'[i], d, ch) /\ Of(recvq'[j], d, ch) =>
            recvq'[i].frame.idx < recvq'[j].frame.idx
    BY <2>5, <2>6, <2>8
  <2>10. CASE Of(e, d, ch)
    <3>1. Ordered(e.frame) /\ d = c /\ ch = k /\ e = recvq[1]
      BY <2>10 DEF Of, Ordered, c, k, e
    <3>2. e.frame.idx = len  BY <1>4, <3>1
    <3>3. delivered'[d][ch] = Append(delivered[d][ch], len)
      BY <1>5, <3>1, <3>2 DEF Ordered
    <3> HIDE DEF len, r
    <3>4. /\ Len(delivered'[d][ch]) = len + 1
          /\ DOMAIN delivered'[d][ch] = 1..(len + 1)
          /\ \A i \in 1..len : delivered'[d][ch][i] = delivered[d][ch][i]
          /\ delivered'[d][ch][len + 1] = len
      BY <2>1, <3>3, AppendProperties, LenProperties DEF len
    <3>5. len < r  BY <1>2, <2>4, <2>10, <3>1, <3>2
    <3>6. \A i \in DOMAIN delivered'[d][ch] : delivered'[d][ch][i] = i - 1
      <4> SUFFICES ASSUME NEW i \in 1..(len + 1) PROVE delivered'[d][ch][i] = i - 1
        BY <3>4
      <4>1. CASE i = len + 1  BY <2>1, <3>4, <4>1
      <4>2. CASE i \in 1..len  BY <2>1, <2>2, <3>4, <4>2
      <4> QED BY <2>1, <4>1, <4>2
    <3>7. \A i \in DOMAIN recvq' : Of(recvq'[i], d, ch) =>
            len + 1 <= recvq'[i].frame.idx /\ recvq'[i].frame.idx < r
      <4> SUFFICES ASSUME NEW i \in DOMAIN recvq', Of(recvq'[i], d, ch)
                   PROVE  len + 1 <= recvq'[i].frame.idx /\ recvq'[i].frame.idx < r
        OBVIOUS
      <4>1. recvq[1].frame.idx < recvq[i + 1].frame.idx
        BY <1>2, <2>5, <2>6, <2>10, <3>1
      <4>2. recvq[i + 1].frame.idx \in Nat  BY <2>6, QueuedEvent DEF IInv
      <4> QED BY <2>1, <2>4, <2>6, <3>1, <3>2, <4>1, <4>2
    <3>8. \A n \in Nat : len + 1 <= n /\ n < r =>
            \E i \in DOMAIN recvq' : Of(recvq'[i], d, ch) /\ recvq'[i].frame.idx = n
      <4> SUFFICES ASSUME NEW n \in Nat, len + 1 <= n, n < r
                   PROVE  \E i \in DOMAIN recvq' : Of(recvq'[i], d, ch) /\ recvq'[i].frame.idx = n
        OBVIOUS
      <4>1. PICK i \in DOMAIN recvq : Of(recvq[i], d, ch) /\ recvq[i].frame.idx = n
        BY <2>1, <2>3
      <4>2. i # 1  BY <2>1, <3>1, <3>2, <4>1
      <4> QED BY <2>7, <4>1, <4>2
    <3>9. len + 1 <= r  BY <2>1, <3>5
    <3> QED BY <2>9, <3>4, <3>6, <3>7, <3>8, <3>9 DEF r
  <2>11. CASE ~Of(e, d, ch)
    <3>1. delivered'[d][ch] = delivered[d][ch]  BY <1>5, <2>11 DEF Of, c, k
    <3>2. \A i \in DOMAIN recvq : Of(recvq[i], d, ch) => i # 1  BY <2>11 DEF e
    <3>3. \A n \in Nat : len <= n /\ n < r =>
            \E i \in DOMAIN recvq' : Of(recvq'[i], d, ch) /\ recvq'[i].frame.idx = n
      BY <2>3, <2>7, <3>2
    <3>4. \A i \in DOMAIN recvq' : Of(recvq'[i], d, ch) =>
            len <= recvq'[i].frame.idx /\ recvq'[i].frame.idx < r
      BY <2>4, <2>6
    <3> QED BY <2>2, <2>9, <3>1, <3>3, <3>4
  <2> QED BY <2>10, <2>11
<1>12. PacketInv'  BY <1>1 DEF PacketInv
<1>13. AckInv'  BY <1>1 DEF IInv, AckInv, connVars
<1>14. WakeInv'
  <2>1. drain'.on => drain'.chan <= drain'.last /\ Room'
    BY <1>7, <1>8, InstanceAssumption DEF Room, NoDrain
  <2>2. ASSUME NEW h \in holds, h.frame.idx = released[h.conn][h.frame.chan]
        PROVE  \/ HasEvent(h.conn)'
               \/ /\ drain'.on /\ drain'.conn = h.conn
                  /\ drain'.chan <= h.frame.chan /\ h.frame.chan <= drain'.last
    <3>1. h.conn \in Conns /\ h.frame.chan \in Channels
      BY EvOfEvent, FrameShape DEF IInv, TypeOK
    <3>2. CASE h.conn = c
      <4>1. holdCount # 0
        BY <2>2, FS_EmptySet DEF IInv, HoldInv
      <4> QED BY <1>7, <3>1, <3>2, <4>1, InstanceAssumption DEF Channels
    <3>3. CASE h.conn # c
      <4>1. HasEvent(h.conn)  BY <1>1, <2>2 DEF IInv, WakeInv
      <4>2. PICK i \in DOMAIN recvq : recvq[i].conn = h.conn  BY <4>1 DEF HasEvent
      <4>3. i # 1  BY <3>3, <4>2 DEF c, e
      <4>4. i - 1 \in DOMAIN recvq' /\ recvq'[i - 1] = recvq[i]  BY <1>2, <4>2, <4>3
      <4> QED BY <4>2, <4>4 DEF HasEvent
    <3> QED BY <3>2, <3>3
  <2> QED BY <1>1, <2>1, <2>2 DEF WakeInv
<1> QED BY <1>9, <1>10, <1>11, <1>12, <1>13, <1>14 DEF IInv

(* What the queue r, without the events of c, keeps of those of others.     *)
Kept(c, r) ==
  /\ r \in Seq(Event) /\ Len(r) <= Len(recvq) /\ DOMAIN r = 1..Len(r)
  /\ \A i \in DOMAIN r : r[i].conn # c
  /\ \E at \in [DOMAIN r -> DOMAIN recvq] :
       /\ \A i \in DOMAIN r : r[i] = recvq[at[i]]
       /\ \A i, j \in DOMAIN r : i < j => at[i] < at[j]
       /\ \A k \in DOMAIN recvq :
            recvq[k].conn # c => \E i \in DOMAIN r : at[i] = k

(* IsWithout, for a sequence of the events queued, has these properties.    *)
LEMMA WithoutKeeps ==
  ASSUME recvq \in Seq(Event), NEW c \in Conns, NEW r \in ShorterQueues, IsWithout(r, recvq, c)
  PROVE  Kept(c, r)
<1>1. PICK n \in 0..Len(recvq) : r \in [1..n -> {recvq[i] : i \in DOMAIN recvq}]
  BY DEF ShorterQueues
<1>2. Len(recvq) \in Nat /\ DOMAIN recvq = 1..Len(recvq)
      /\ \A i \in DOMAIN recvq : recvq[i] \in Event
  BY LenProperties
<1>3. n \in Nat /\ n <= Len(recvq)  BY <1>1, <1>2
<1>4. r \in [1..n -> Event]  BY <1>1, <1>2
<1>5. r \in Seq(Event) /\ Len(r) = n /\ DOMAIN r = 1..n  BY <1>3, <1>4, SeqDef, LenProperties
<1>6. PICK at \in [1..Len(r) -> DOMAIN recvq] :
        /\ \A i, j \in DOMAIN at : i < j => at[i] < at[j]
        /\ {at[i] : i \in DOMAIN at} = {i \in DOMAIN recvq : recvq[i].conn # c}
        /\ \A i \in DOMAIN at : r[i] = recvq[at[i]]
  BY DEF IsWithout
<1>7. DOMAIN at = DOMAIN r /\ DOMAIN r = 1..Len(r) /\ at \in [DOMAIN r -> DOMAIN recvq]
  BY <1>5, <1>6
<1>8. \A i \in DOMAIN r : r[i].conn # c  BY <1>6, <1>7
<1>9. \A k \in DOMAIN recvq : recvq[k].conn # c => \E i \in DOMAIN r : at[i] = k
  BY <1>6, <1>7
<1>10. \A i, j \in DOMAIN r : i < j => at[i] < at[j]  BY <1>6, <1>7
<1>11. \A i \in DOMAIN r : r[i] = recvq[at[i]]  BY <1>6, <1>7
<1> QED BY <1>3, <1>5, <1>7, <1>8, <1>9, <1>10, <1>11 DEF Kept

LEMMA AbortKeeps ==
  ASSUME IInv, NEW c \in Conns, NEW r \in ShorterQueues, Abort(c, r)
  PROVE  IInv'
<1> DEFINE Gone == {h \in holds : h.conn = c}
<1>1. /\ ~packet.on /\ ~drain.on /\ packet' = packet /\ drain' = drain
      /\ IsWithout(r, recvq, c) /\ recvq' = r
      /\ holds' = {h \in holds : h.conn # c}
      /\ holdCount' = holdCount - Cardinality(Gone)
      /\ expected' = [expected EXCEPT ![c] = [ch \in Channels |-> 0]]
      /\ latest' = [latest EXCEPT ![c] = [ch \in Channels |-> <<>>]]
      /\ seen' = [seen EXCEPT ![c] = {}]
      /\ released' = [released EXCEPT ![c] = [ch \in Channels |-> 0]]
      /\ newest' = [newest EXCEPT ![c] = [ch \in Channels |-> -1]]
      /\ delivered' = [delivered EXCEPT ![c] = [ch \in Channels |-> <<>>]]
      /\ copies' = [copies EXCEPT ![c] = [f \in UnorderedFrame |-> 0]]
      /\ acked' = [acked EXCEPT ![c] = {}]
      /\ aborts' = aborts + 1
  BY DEF Abort, Idle
<1>2. TypeOK  BY DEF IInv
<1>a. Kept(c, r)
  <2>1. recvq \in Seq(Event)  BY <1>2 DEF TypeOK
  <2>2. IsWithout(r, recvq, c)  BY <1>1
  <2> QED BY <2>1, <2>2, WithoutKeeps
<1>3. PICK at \in [DOMAIN r -> DOMAIN recvq] :
        /\ \A i \in DOMAIN r : r[i] = recvq[at[i]]
        /\ \A i, j \in DOMAIN r : i < j => at[i] < at[j]
        /\ \A k \in DOMAIN recvq : recvq[k].conn # c => \E i \in DOMAIN r : at[i] = k
  BY <1>a DEF Kept
<1>4. r \in Seq(Event) /\ Len(r) <= Len(recvq) /\ \A i \in DOMAIN r : r[i].conn # c
  BY <1>a DEF Kept
<1>5. IsFiniteSet(holds') /\ holdCount' = Cardinality(holds')
      /\ Cardinality(holds') <= MaxHolds
  <2>1. IsFiniteSet(holds) /\ holdCount = Cardinality(holds)  BY DEF IInv, HoldInv
  <2>2. IsFiniteSet(holds') /\ Cardinality(holds') <= Cardinality(holds)
        /\ Cardinality(holds') \in Nat
    BY <1>1, <2>1, FS_Subset, FS_CardinalityType
  <2>3. IsFiniteSet(Gone) /\ Cardinality(Gone) \in Nat
    BY <2>1, FS_Subset, FS_CardinalityType
  <2>4. holds = Gone \cup holds' /\ Gone \cap holds' = {}  BY <1>1
  <2>5. Cardinality(holds) = Cardinality(Gone) + Cardinality(holds')
    <3> HIDE DEF Gone
    <3>1. Cardinality(Gone \cup holds')
            = Cardinality(Gone) + Cardinality(holds') - Cardinality(Gone \cap holds')
      BY <2>2, <2>3, FS_Union
    <3>2. Cardinality(Gone \cap holds') = 0  BY <2>4, FS_EmptySet
    <3> QED BY <2>2, <2>3, <2>4, <3>1, <3>2
  <2> HIDE DEF Gone
  <2> QED BY <1>1, <1>2, <2>1, <2>2, <2>3, <2>5, InstanceAssumption DEF TypeOK
<1> HIDE DEF Gone
<1>6. \A d \in Conns, ch \in Channels :
        /\ expected'[d][ch] = IF d = c THEN 0 ELSE expected[d][ch]
        /\ released'[d][ch] = IF d = c THEN 0 ELSE released[d][ch]
        /\ delivered'[d][ch] = IF d = c THEN <<>> ELSE delivered[d][ch]
  BY <1>1, <1>2 DEF TypeOK
<1>7. \A d \in Conns :
        /\ seen'[d] = IF d = c THEN {} ELSE seen[d]
        /\ copies'[d] = IF d = c THEN [f \in UnorderedFrame |-> 0] ELSE copies[d]
        /\ acked'[d] = IF d = c THEN {} ELSE acked[d]
  BY <1>1, <1>2 DEF TypeOK
<1>8. holds' \subseteq holds /\ \A h \in holds' : h.conn # c
  BY <1>1
<1>9. \A h \in holds : h \in Event /\ h.conn \in Conns /\ h.frame \in Frame /\ h.frame.chan \in Channels
  BY <1>2, EvOfEvent, FrameShape DEF TypeOK
<1>10. TypeOK'
  <2>1. expected' \in [Conns -> [Channels -> 0..(SeqSpace - 1)]]
    <3>1. [ch \in Channels |-> 0] \in [Channels -> 0..(SeqSpace - 1)]  BY SpaceFacts
    <3> QED BY <1>1, <1>2, <3>1, Zenon DEF TypeOK
  <2>2. latest' \in [Conns -> [Channels -> {<<>>} \cup {<<s>> : s \in 0..(SeqSpace - 1)}]]
    BY <1>1, <1>2, Zenon DEF TypeOK
  <2>3. /\ released' \in [Conns -> [Channels -> Nat]]
        /\ newest' \in [Conns -> [Channels -> Int]]
        /\ delivered' \in [Conns -> [Channels -> Seq(Nat)]]
        /\ copies' \in [Conns -> [UnorderedFrame -> Nat]]
    <3>1. 0 \in Nat /\ -1 \in Int /\ <<>> \in Seq(Nat)  OBVIOUS
    <3> QED BY <1>1, <1>2, <3>1, Zenon DEF TypeOK
  <2>4. seen' \in [Conns -> SUBSET Frame] /\ acked' \in [Conns -> SUBSET Frame]
    BY <1>1, <1>2 DEF TypeOK
  <2>5. recvq' \in Seq(Event) /\ Len(recvq') <= MaxRecv
    <3>1. Len(recvq) \in Nat /\ Len(r) \in Nat  BY <1>2, <1>4, LenProperties DEF TypeOK
    <3> QED BY <1>1, <1>2, <1>4, <3>1, InstanceAssumption DEF TypeOK
  <2>6. holds' \in SUBSET Event /\ holdCount' \in Int
    BY <1>2, <1>5, <1>8, FS_CardinalityType DEF TypeOK
  <2>7. aborts' \in Nat  BY <1>1, <1>2 DEF TypeOK
  <2>8. packet' \in PacketType \cup {NoPacket} /\ drain' \in DrainType \cup {NoDrain}
    BY <1>1, <1>2 DEF TypeOK
  <2> QED BY <1>5, <2>1, <2>2, <2>3, <2>4, <2>5, <2>6, <2>7, <2>8 DEF TypeOK
<1>11. CountInv'
  <2>1. Wire(0, SeqSpace) = 0  BY SpaceFacts DEF Wire
  <2> QED BY <1>6, <2>1 DEF IInv, CountInv
<1>12. HoldInv'  BY <1>5, <1>6, <1>8, <1>9 DEF IInv, HoldInv
<1>13. SeenInv'
  <2> SUFFICES ASSUME NEW d \in Conns, NEW f \in Frame PROVE
        /\ f \in seen'[d] => Reliable(f)
        /\ Ordered(f) => (f \in seen'[d] <=> \/ f.idx < released'[d][f.chan]
                                             \/ Ev(d, f) \in holds')
        /\ f.kind = "unordered" => copies'[d][f] = IF f \in seen'[d] THEN 1 ELSE 0
    BY DEF SeenInv, Ordered, Reliable, Ev
  <2>1. f.chan \in Channels /\ f.idx \in Nat  BY FrameShape
  <2>2. Ev(d, f).conn = d  BY DEF Ev
  <2>3. CASE d = c
    <3>1. ~(f.idx < released'[d][f.chan])  BY <1>6, <2>1, <2>3
    <3>2. Ev(d, f) \notin holds'  BY <1>8, <2>2, <2>3
    <3>3. seen'[d] = {} /\ copies'[d] = [g \in UnorderedFrame |-> 0]  BY <1>7, <2>3
    <3> QED BY <3>1, <3>2, <3>3 DEF UnorderedFrame
  <2>4. CASE d # c
    <3>1. Ev(d, f) \in holds' <=> Ev(d, f) \in holds  BY <1>1, <2>2, <2>4
    <3> QED BY <1>6, <1>7, <2>1, <2>4, <3>1 DEF IInv, SeenInv
  <2> QED BY <2>3, <2>4
<1>14. QueueInv'
  <2> SUFFICES ASSUME NEW d \in Conns, NEW ch \in Channels PROVE
        /\ Len(delivered'[d][ch]) <= released'[d][ch]
        /\ \A i \in DOMAIN delivered'[d][ch] : delivered'[d][ch][i] = i - 1
        /\ \A n \in Nat : Len(delivered'[d][ch]) <= n /\ n < released'[d][ch] =>
             \E i \in DOMAIN r : Of(r[i], d, ch) /\ r[i].frame.idx = n
        /\ \A i \in DOMAIN r : Of(r[i], d, ch) =>
             /\ Len(delivered'[d][ch]) <= r[i].frame.idx
             /\ r[i].frame.idx < released'[d][ch]
        /\ \A i, j \in DOMAIN r : i < j /\ Of(r[i], d, ch) /\ Of(r[j], d, ch) =>
             r[i].frame.idx < r[j].frame.idx
    BY <1>1 DEF QueueInv, Of
  <2>1. CASE d = c
    <3>1. \A i \in DOMAIN r : ~Of(r[i], d, ch)  BY <1>4, <2>1 DEF Of
    <3>2. released'[d][ch] = 0 /\ delivered'[d][ch] = <<>>  BY <1>6, <2>1
    <3> QED BY <3>1, <3>2
  <2>2. CASE d # c
    <3>1. released'[d][ch] = released[d][ch] /\ delivered'[d][ch] = delivered[d][ch]
      BY <1>6, <2>2
    <3>2. \A i \in DOMAIN r : at[i] \in DOMAIN recvq  BY <1>3
    <3>3. /\ Len(delivered[d][ch]) <= released[d][ch]
          /\ \A i \in DOMAIN delivered[d][ch] : delivered[d][ch][i] = i - 1
      BY DEF IInv, QueueInv
    <3>4. ASSUME NEW n \in Nat, Len(delivered[d][ch]) <= n, n < released[d][ch]
          PROVE  \E i \in DOMAIN r : Of(r[i], d, ch) /\ r[i].frame.idx = n
      <4>1. PICK k \in DOMAIN recvq : Of(recvq[k], d, ch) /\ recvq[k].frame.idx = n
        BY <3>4 DEF IInv, QueueInv
      <4>2. recvq[k].conn # c  BY <2>2, <4>1 DEF Of
      <4>3. PICK i \in DOMAIN r : at[i] = k  BY <1>3, <4>2
      <4> QED BY <1>3, <4>1, <4>3
    <3>5. \A i \in DOMAIN r : Of(r[i], d, ch) =>
            Len(delivered[d][ch]) <= r[i].frame.idx /\ r[i].frame.idx < released[d][ch]
      BY <1>3, <3>2 DEF IInv, QueueInv
    <3>6. \A i, j \in DOMAIN r : i < j /\ Of(r[i], d, ch) /\ Of(r[j], d, ch) =>
            r[i].frame.idx < r[j].frame.idx
      BY <1>3, <3>2 DEF IInv, QueueInv
    <3> QED BY <3>1, <3>3, <3>4, <3>5, <3>6
  <2> QED BY <2>1, <2>2
<1>15. PacketInv'  BY <1>1 DEF PacketInv
<1>16. AckInv'  BY <1>7 DEF IInv, AckInv
<1>17. WakeInv'
  <2>1. ASSUME NEW h \in holds', h.frame.idx = released'[h.conn][h.frame.chan]
        PROVE  HasEvent(h.conn)'
    <3>1. h \in holds /\ h.conn # c /\ h.frame.idx = released[h.conn][h.frame.chan]
      BY <1>6, <1>8, <1>9, <2>1
    <3>2. HasEvent(h.conn)  BY <1>1, <3>1 DEF IInv, WakeInv
    <3>3. PICK k \in DOMAIN recvq : recvq[k].conn = h.conn  BY <3>2 DEF HasEvent
    <3>4. PICK i \in DOMAIN r : at[i] = k  BY <1>3, <3>1, <3>3
    <3> QED BY <1>1, <1>3, <3>3, <3>4 DEF HasEvent
  <2> QED BY <1>1, <2>1 DEF WakeInv
<1> QED BY <1>10, <1>11, <1>12, <1>13, <1>14, <1>15, <1>16, <1>17 DEF IInv

LEMMA NextKeeps ==
  ASSUME IInv, [Next]_vars
  PROVE  IInv'
<1>1. ASSUME NEW c \in Conns, NEW frames \in Packets, Arrive(c, frames) PROVE IInv'
  BY <1>1, ArriveKeeps
<1>2. ASSUME NEW c \in Conns, NEW f \in Frame, Deliver(c, f) PROVE IInv'
  <2>1. CASE IgnoreFrame(c, f)  BY <2>1, IgnoreFrameKeeps
  <2>2. CASE DeliverOrdered(c, f)  BY <2>2, DeliverOrderedKeeps
  <2>3. CASE HoldFrame(c, f)  BY <2>3, HoldFrameKeeps
  <2>4. CASE DeliverUnordered(c, f)  BY <2>4, DeliverUnorderedKeeps
  <2>5. CASE DeliverSequenced(c, f)  BY <2>5, DeliverSequencedKeeps
  <2>6. CASE DeliverUnreliable(c, f)  BY <2>6, DeliverUnreliableKeeps
  <2>7. CASE RefuseFrame(c, f)  BY <2>7, RefuseFrameKeeps
  <2> QED BY <1>2, <2>1, <2>2, <2>3, <2>4, <2>5, <2>6, <2>7 DEF Deliver
<1>3. ASSUME NEW h \in holds, DrainRelease(h) PROVE IInv'  BY <1>3, DrainReleaseKeeps
<1>4. CASE DrainNextChannel  BY <1>4, DrainNextChannelKeeps
<1>5. CASE DrainEnd  BY <1>5, DrainEndKeeps
<1>6. CASE FinishPacket  BY <1>6, FinishPacketKeeps
<1>7. CASE AppRecv  BY <1>7, AppRecvKeeps
<1>8. ASSUME NEW c \in Conns, NEW r \in ShorterQueues, Abort(c, r) PROVE IInv'
  BY <1>8, AbortKeeps
<1>9. CASE UNCHANGED vars
  <2>1. /\ UNCHANGED <<expected, latest, seen, holds, holdCount, recvq, packet, drain>>
        /\ UNCHANGED <<released, newest, delivered, copies, acked, aborts>>
    BY <1>9 DEF vars, connVars, endpointVars, history
  <2>2. TypeOK' /\ CountInv' /\ HoldInv' /\ SeenInv'
    BY <2>1 DEF IInv, TypeOK, CountInv, HoldInv, SeenInv
  <2>3. QueueInv' /\ PacketInv' /\ AckInv' /\ WakeInv'
    BY <2>1 DEF IInv, QueueInv, PacketInv, AckInv, WakeInv, Room, HasEvent
  <2> QED BY <2>2, <2>3 DEF IInv
<1> QED
  BY <1>1, <1>2, <1>3, <1>4, <1>5, <1>6, <1>7, <1>8, <1>9 DEF Next, Internal

(* The inductive invariant holds in every state the receive path can reach. *)
THEOREM Invariance == Spec => []IInv
BY InitInv, NextKeeps, PTL DEF Spec

-----------------------------------------------------------------------------
(* Results.                                                                 *)

(* Every variable keeps its shape, and the shared hold slots and receive    *)
(* queue are never filled past their sizes.                                 *)
THEOREM TypeCorrect == Spec => []TypeOK
<1>1. IInv => TypeOK  BY DEF IInv
<1> QED BY <1>1, Invariance, PTL

(* The ordered messages of a channel reach the application once each and in *)
(* the order they were sent, whatever the network does.                     *)
THEOREM OrderedStream == Spec => []InOrder
<1>1. IInv => InOrder  BY DEF IInv, QueueInv, InOrder
<1> QED BY <1>1, Invariance, PTL

(* An ordered hold whose turn has come is never left behind with nothing    *)
(* queued for its connection that would set a drain going.                  *)
THEOREM NoLostWakeup == Spec => []NoStrandedHold
<1>1. ASSUME IInv PROVE NoStrandedHold
  <2>1. ASSUME Idle, NEW h \in holds,
               CSeq(h.frame) = expected[h.conn][h.frame.chan]
        PROVE  \E i \in DOMAIN recvq : recvq[i].conn = h.conn
    <3>1. h.frame.idx = released[h.conn][h.frame.chan]
      BY <1>1, <2>1, ReadyHoldIsNext
    <3> QED BY <1>1, <2>1, <3>1 DEF IInv, WakeInv, HasEvent, Idle
  <2> QED BY <2>1 DEF NoStrandedHold
<1> QED BY <1>1, Invariance, PTL

(* A reliable message whose packet was recorded for acknowledgement is with *)
(* the application, in the receive queue, or in a hold slot.                *)
THEOREM AcknowledgedIsKept == Spec => []AckedIsKept
<1>1. ASSUME IInv PROVE AckedIsKept
  <2> SUFFICES ASSUME NEW c \in Conns, NEW f \in acked[c] PROVE
        \/ f.kind = "unordered" /\ copies[c][f] = 1
        \/ f.kind = "ordered" /\ \/ f.idx < Len(delivered[c][f.chan])
                                 \/ \E i \in DOMAIN recvq : recvq[i] = Ev(c, f)
                                 \/ Ev(c, f) \in holds
    BY DEF AckedIsKept
  <2>1. f \in Frame /\ f \in seen[c] /\ Reliable(f)
    BY <1>1 DEF IInv, TypeOK, AckInv, SeenInv
  <2>2. CASE f.kind = "unordered"  BY <1>1, <2>1, <2>2 DEF IInv, SeenInv
  <2>3. CASE f.kind = "ordered"
    <3>1. f.chan \in Channels /\ f.idx \in Nat  BY <2>1, FrameShape
    <3>2. f.idx < released[c][f.chan] \/ Ev(c, f) \in holds
      BY <1>1, <2>1, <2>3 DEF IInv, SeenInv, Ordered
    <3>3. Len(delivered[c][f.chan]) \in Nat
      BY <1>1, <3>1, LenProperties DEF IInv, TypeOK
    <3>4. ASSUME f.idx < released[c][f.chan], Len(delivered[c][f.chan]) <= f.idx
          PROVE  \E i \in DOMAIN recvq : recvq[i] = Ev(c, f)
      <4>1. PICK i \in DOMAIN recvq : Of(recvq[i], c, f.chan) /\ recvq[i].frame.idx = f.idx
        BY <1>1, <3>1, <3>4 DEF IInv, QueueInv
      <4>2. recvq[i] \in Event /\ recvq[i].frame \in Frame
        BY <1>1, QueuedEvent DEF IInv
      <4>3. recvq[i].frame = f  BY <2>1, <2>3, <4>1, <4>2 DEF Of, Frame
      <4> QED BY <4>1, <4>2, <4>3 DEF Of, Ev, Event
    <3> QED BY <2>3, <3>1, <3>2, <3>3, <3>4
  <2> QED BY <2>1, <2>2, <2>3 DEF Reliable
<1> QED BY <1>1, Invariance, PTL

(* A reliable unordered message is queued for the application at most once. *)
THEOREM UnorderedAtMostOnce == Spec => []UnorderedOnce
<1>1. ASSUME IInv PROVE UnorderedOnce
  <2>1. ASSUME NEW c \in Conns, NEW f \in UnorderedFrame PROVE copies[c][f] <= 1
    BY <1>1 DEF IInv, SeenInv, UnorderedFrame
  <2> QED BY <2>1 DEF UnorderedOnce
<1> QED BY <1>1, Invariance, PTL

(* ordered_hold_count, which gates every drain, is exactly the number of    *)
(* used hold slots.                                                         *)
THEOREM HoldCountIsExact == Spec => []HoldCountExact
<1>1. IInv => HoldCountExact  BY DEF IInv, HoldInv, HoldCountExact
<1> QED BY <1>1, Invariance, PTL

-----------------------------------------------------------------------------
(* The sequenced streams.                                                   *)

Sequenced(f) == f.kind = "sequenced"

(* The number the code keeps is the wire form of the newest position.       *)
NewestInv ==
  \A c \in Conns, ch \in Channels :
    /\ newest[c][ch] >= -1
    /\ latest[c][ch] = IF newest[c][ch] = -1 THEN <<>> ELSE <<Wire(newest[c][ch], SeqSpace)>>

(* The frames left in a packet lie about the newest position, and close to  *)
(* each other, so that they do so still when one of them is the newest.     *)
StrayInv ==
  packet.on =>
    \A i, j \in DOMAIN packet.frames :
      LET f == packet.frames[i]
          g == packet.frames[j]
          n == newest[packet.conn][f.chan]
      IN /\ Sequenced(f) => f.idx <= n + Stray /\ n <= f.idx + 2 * Stray
         /\ Sequenced(f) /\ Sequenced(g) /\ f.chan = g.chan => g.idx <= f.idx + 2 * Stray

SequencedInv == NewestInv /\ StrayInv

LEMMA StrayFacts ==
  /\ SeqSpace \in Nat /\ SeqSpace > 1 /\ SeqSpace % 2 = 0 /\ Stray \in Nat
  /\ Stray < SeqSpace \div 2 /\ 2 * Stray <= SeqSpace \div 2
BY SeqSpaceAssumption

(* A sequenced frame is fresh if it is past the newest.                     *)
LEMMA FreshIsNewer ==
  ASSUME IInv, SequencedInv, NEW c \in Conns, NEW f \in Frame, AtFrame(c, f),
         Sequenced(f), IsFresh(c, f)
  PROVE  newest[c][f.chan] < f.idx
<1> DEFINE n == newest[c][f.chan]
<1>1. f.chan \in Channels /\ f.idx \in Nat  BY FrameShape
<1>2. n \in Int /\ n >= -1  BY <1>1 DEF IInv, TypeOK, SequencedInv, NewestInv
<1>3. latest[c][f.chan] = IF n = -1 THEN <<>> ELSE <<Wire(n, SeqSpace)>>
  BY <1>1 DEF SequencedInv, NewestInv
<1>4. packet.on /\ packet.conn = c /\ packet.frames \in Seq(Frame) /\ packet.frames # <<>>
      /\ f = Head(packet.frames)
  BY PacketShape DEF IInv, AtFrame
<1>5. 1 \in DOMAIN packet.frames /\ packet.frames[1] = f  BY <1>4
<1>6. n <= f.idx + 2 * Stray /\ f.idx <= n + Stray
  BY <1>4, <1>5 DEF SequencedInv, StrayInv
<1> HIDE DEF n
<1>7. CASE n = -1  BY <1>1, <1>7 DEF n
<1>8. CASE n # -1
  <2>1. n \in Nat  BY <1>2, <1>8
  <2>2. SeqAfter(Wire(f.idx, SeqSpace), Wire(n, SeqSpace), SeqSpace)
    BY <1>3, <1>8 DEF IsFresh, CSeq
  <2>3. f.idx - n < SeqSpace \div 2 /\ n - f.idx <= SeqSpace \div 2
    BY <1>1, <1>6, <2>1, StrayFacts
  <2>4. f.idx > n  BY <1>1, <2>1, <2>2, <2>3, StrayFacts, SeqAfterIsLater
  <2> QED BY <1>1, <2>1, <2>4 DEF n
<1> QED BY <1>7, <1>8

LEMMA SequencedInit == Init => SequencedInv
BY DEF Init, SequencedInv, NewestInv, StrayInv, NoPacket

(* What only takes frames off the packet, or clears it, keeps it.           *)
LEMMA SameNewest ==
  ASSUME IInv, SequencedInv, UNCHANGED <<latest, newest>>,
         \/ packet' = packet
         \/ ~packet'.on
         \/ /\ packet.on /\ packet.frames # <<>> /\ packet'.conn = packet.conn
            /\ packet'.frames = Tail(packet.frames)
  PROVE  SequencedInv'
<1>1. NewestInv'  BY DEF SequencedInv, NewestInv
<1>2. CASE packet' = packet  BY <1>1, <1>2 DEF SequencedInv, StrayInv
<1>3. CASE ~packet'.on  BY <1>1, <1>3 DEF SequencedInv, StrayInv
<1>4. CASE /\ packet.on /\ packet.frames # <<>> /\ packet'.conn = packet.conn
           /\ packet'.frames = Tail(packet.frames)
  <2>1. packet.frames \in Seq(Frame)  BY <1>4, PacketShape DEF IInv
  <2>2. \A i \in DOMAIN packet'.frames :
          i + 1 \in DOMAIN packet.frames /\ packet'.frames[i] = packet.frames[i + 1]
    BY <1>4, <2>1
  <2>3. StrayInv'
    <3> SUFFICES ASSUME NEW i \in DOMAIN packet'.frames, NEW j \in DOMAIN packet'.frames
                 PROVE  LET f == packet'.frames[i]
                            g == packet'.frames[j]
                            n == newest'[packet'.conn][f.chan]
                        IN /\ Sequenced(f) => f.idx <= n + Stray /\ n <= f.idx + 2 * Stray
                           /\ Sequenced(f) /\ Sequenced(g) /\ f.chan = g.chan =>
                                g.idx <= f.idx + 2 * Stray
      BY DEF StrayInv
    <3>1. i + 1 \in DOMAIN packet.frames /\ j + 1 \in DOMAIN packet.frames  BY <2>2
    <3> QED BY <1>4, <2>2, <3>1 DEF SequencedInv, StrayInv
  <2> QED BY <1>1, <2>3 DEF SequencedInv
<1> QED BY <1>2, <1>3, <1>4

LEMMA SequencedArrive ==
  ASSUME IInv, SequencedInv, NEW c \in Conns, NEW frames \in Packets, Arrive(c, frames)
  PROVE  SequencedInv'
<1>1. UNCHANGED <<latest, newest>> /\ packet'.conn = c /\ packet'.frames = frames
      /\ \A i \in DOMAIN frames : frames[i] \in OnNetwork(c)
  BY DEF Arrive, connVars, history
<1>2. NewestInv'  BY <1>1 DEF SequencedInv, NewestInv
<1>3. ASSUME NEW i \in DOMAIN frames, NEW j \in DOMAIN frames
      PROVE  LET f == frames[i]
                 g == frames[j]
                 n == newest[c][f.chan]
             IN /\ Sequenced(f) => f.idx <= n + Stray /\ n <= f.idx + 2 * Stray
                /\ Sequenced(f) /\ Sequenced(g) /\ f.chan = g.chan => g.idx <= f.idx + 2 * Stray
  <2> DEFINE f == frames[i]
             g == frames[j]
             n == newest[c][f.chan]
  <2>1. f \in OnNetwork(c) /\ g \in OnNetwork(c)  BY <1>1
  <2>2. f \in Frame /\ g \in Frame  BY <2>1 DEF OnNetwork
  <2>3. f.idx \in Nat /\ g.idx \in Nat /\ f.chan \in Channels  BY <2>2, FrameShape
  <2>4. n \in Int  BY <2>3 DEF IInv, TypeOK
  <2>5. Sequenced(f) => f.idx <= n + Stray /\ f.idx >= n - Stray
    BY <2>1 DEF OnNetwork, Sequenced
  <2>6. Sequenced(g) /\ f.chan = g.chan => g.idx <= n + Stray
    BY <2>1 DEF OnNetwork, Sequenced
  <2> HIDE DEF f, g, n
  <2>7. /\ Sequenced(f) => f.idx <= n + Stray /\ n <= f.idx + 2 * Stray
        /\ Sequenced(f) /\ Sequenced(g) /\ f.chan = g.chan => g.idx <= f.idx + 2 * Stray
    BY <2>3, <2>4, <2>5, <2>6, StrayFacts
  <2> QED BY <2>7 DEF f, g, n
<1>4. StrayInv'  BY <1>1, <1>3 DEF StrayInv
<1> QED BY <1>2, <1>4 DEF SequencedInv

LEMMA SequencedNewer ==
  ASSUME IInv, SequencedInv, NEW c \in Conns, NEW f \in Frame, DeliverSequenced(c, f)
  PROVE  SequencedInv' /\ newest[c][f.chan] < f.idx
<1>1. /\ AtFrame(c, f) /\ FrameDone(f, TRUE) /\ Sequenced(f) /\ IsFresh(c, f)
      /\ latest' = [latest EXCEPT ![c][f.chan] = <<CSeq(f)>>]
      /\ newest' = [newest EXCEPT ![c][f.chan] = f.idx]
  BY DEF DeliverSequenced, Sequenced
<1>2. f.chan \in Channels /\ f.idx \in Nat  BY FrameShape
<1>3. newest[c][f.chan] < f.idx  BY <1>1, FreshIsNewer
<1>4. /\ newest \in [Conns -> [Channels -> Int]]
      /\ latest \in [Conns -> [Channels -> {<<>>} \cup {<<s>> : s \in 0..(SeqSpace - 1)}]]
  BY DEF IInv, TypeOK
<1>5. ASSUME NEW d \in Conns, NEW ch \in Channels
      PROVE  IF d = c /\ ch = f.chan
             THEN newest'[d][ch] = f.idx /\ latest'[d][ch] = <<Wire(f.idx, SeqSpace)>>
             ELSE newest'[d][ch] = newest[d][ch] /\ latest'[d][ch] = latest[d][ch]
  BY <1>1, <1>4 DEF CSeq
<1>6. NewestInv'
  <2> SUFFICES ASSUME NEW d \in Conns, NEW ch \in Channels
               PROVE  /\ newest'[d][ch] >= -1
                      /\ latest'[d][ch] = IF newest'[d][ch] = -1 THEN <<>>
                                          ELSE <<Wire(newest'[d][ch], SeqSpace)>>
    BY DEF NewestInv
  <2>1. CASE d = c /\ ch = f.chan  BY <1>2, <1>5, <2>1
  <2>2. CASE ~(d = c /\ ch = f.chan)
    <3>1. newest'[d][ch] = newest[d][ch] /\ latest'[d][ch] = latest[d][ch]  BY <1>5, <2>2
    <3> QED BY <3>1 DEF SequencedInv, NewestInv
  <2> QED BY <2>1, <2>2
<1>7. /\ packet.on /\ packet.conn = c /\ packet.frames \in Seq(Frame) /\ packet.frames # <<>>
      /\ f = Head(packet.frames) /\ packet'.conn = c /\ packet'.frames = Tail(packet.frames)
  <2>1. packet.on /\ packet.conn = c /\ packet.frames # <<>> /\ f = Head(packet.frames)
    BY <1>1 DEF AtFrame
  <2>2. packet \in PacketType /\ packet.frames \in Seq(Frame)  BY <2>1, PacketShape DEF IInv
  <2> QED BY <1>1, <2>1, <2>2 DEF FrameDone, PacketType
<1>8. /\ 1 \in DOMAIN packet.frames /\ packet.frames[1] = f
      /\ \A i \in DOMAIN packet'.frames :
           i + 1 \in DOMAIN packet.frames /\ packet'.frames[i] = packet.frames[i + 1]
  BY <1>7
<1>9. StrayInv'
  <2> SUFFICES ASSUME NEW i \in DOMAIN packet'.frames, NEW j \in DOMAIN packet'.frames
               PROVE  LET h == packet'.frames[i]
                          g == packet'.frames[j]
                          n == newest'[c][h.chan]
                      IN /\ Sequenced(h) => h.idx <= n + Stray /\ n <= h.idx + 2 * Stray
                         /\ Sequenced(h) /\ Sequenced(g) /\ h.chan = g.chan =>
                              g.idx <= h.idx + 2 * Stray
    BY <1>7 DEF StrayInv
  <2> DEFINE h == packet'.frames[i]
             g == packet'.frames[j]
  <2>1. /\ i + 1 \in DOMAIN packet.frames /\ j + 1 \in DOMAIN packet.frames
        /\ h = packet.frames[i + 1] /\ g = packet.frames[j + 1]
    BY <1>8
  <2>2. h \in Frame /\ h.chan \in Channels /\ h.idx \in Nat
    <3>1. h \in Frame  BY <1>7, <2>1
    <3> QED BY <3>1, FrameShape
  <2>3. Sequenced(h) /\ Sequenced(g) /\ h.chan = g.chan => g.idx <= h.idx + 2 * Stray
    BY <1>7, <2>1 DEF SequencedInv, StrayInv
  <2>4. Sequenced(h) => h.idx <= newest[c][h.chan] + Stray /\ newest[c][h.chan] <= h.idx + 2 * Stray
    BY <1>7, <2>1 DEF SequencedInv, StrayInv
  <2>5. Sequenced(h) /\ h.chan = f.chan => f.idx <= h.idx + 2 * Stray
    BY <1>1, <1>7, <1>8, <2>1 DEF SequencedInv, StrayInv
  <2>6. newest'[c][h.chan] = IF h.chan = f.chan THEN f.idx ELSE newest[c][h.chan]
    BY <1>5, <2>2
  <2>7. newest[c][h.chan] \in Int  BY <1>4, <2>2
  <2> HIDE DEF h, g
  <2>8. Sequenced(h) => h.idx <= newest'[c][h.chan] + Stray /\ newest'[c][h.chan] <= h.idx + 2 * Stray
    BY <1>2, <1>3, <2>2, <2>4, <2>5, <2>6, <2>7, StrayFacts
  <2> QED BY <2>3, <2>8 DEF h, g
<1> QED BY <1>3, <1>6, <1>9 DEF SequencedInv

LEMMA SequencedAbort ==
  ASSUME IInv, SequencedInv, NEW c \in Conns, NEW r, Abort(c, r)
  PROVE  SequencedInv'
<1>1. /\ Idle /\ packet' = packet /\ aborts \in Nat /\ aborts' = aborts + 1
      /\ latest' = [latest EXCEPT ![c] = [ch \in Channels |-> <<>>]]
      /\ newest' = [newest EXCEPT ![c] = [ch \in Channels |-> -1]]
  BY DEF Abort, IInv, TypeOK
<1>2. StrayInv'  BY <1>1 DEF Idle, StrayInv
<1>3. /\ newest \in [Conns -> [Channels -> Int]]
      /\ latest \in [Conns -> [Channels -> {<<>>} \cup {<<s>> : s \in 0..(SeqSpace - 1)}]]
  BY DEF IInv, TypeOK
<1>4. NewestInv'  BY <1>1, <1>3 DEF SequencedInv, NewestInv
<1> QED BY <1>2, <1>4 DEF SequencedInv

Forward ==
  aborts' = aborts => \A c \in Conns, ch \in Channels : newest'[c][ch] >= newest[c][ch]

LEMMA SequencedStep ==
  ASSUME IInv, SequencedInv, [Next]_vars PROVE SequencedInv' /\ Forward
<1>0. /\ newest \in [Conns -> [Channels -> Int]]
      /\ \A c \in Conns, ch \in Channels : newest[c][ch] >= newest[c][ch]
  BY DEF IInv, TypeOK
<1>1. newest' = newest => Forward  BY <1>0 DEF Forward
<1>2. ASSUME NEW c \in Conns, NEW frames \in Packets, Arrive(c, frames)
      PROVE  SequencedInv' /\ Forward
  BY <1>1, <1>2, SequencedArrive DEF Arrive, history
<1>3. ASSUME NEW c \in Conns, NEW f \in Frame, Deliver(c, f) PROVE SequencedInv' /\ Forward
  <2>1. CASE DeliverSequenced(c, f)
    <3>1. SequencedInv' /\ newest[c][f.chan] < f.idx  BY <2>1, SequencedNewer
    <3>2. newest' = [newest EXCEPT ![c][f.chan] = f.idx]  BY <2>1 DEF DeliverSequenced
    <3>3. f.chan \in Channels /\ f.idx \in Nat  BY FrameShape
    <3>4. Forward  BY <1>0, <3>1, <3>2, <3>3 DEF Forward
    <3> QED BY <3>1, <3>4
  <2>2. CASE ~DeliverSequenced(c, f)
    <3>1. UNCHANGED <<latest, newest>>
      BY <1>3, <2>2 DEF Deliver, IgnoreFrame, DeliverOrdered, HoldFrame, DeliverUnordered,
                        DeliverUnreliable, RefuseFrame, connVars, history
    <3>2. AtFrame(c, f) /\ \E ok \in BOOLEAN : FrameDone(f, ok)
      BY <1>3, <2>2 DEF Deliver, IgnoreFrame, DeliverOrdered, HoldFrame, DeliverUnordered,
                        DeliverUnreliable, RefuseFrame
    <3>3. packet.on /\ packet.frames # <<>>  BY <3>2 DEF AtFrame
    <3>4. packet \in PacketType  BY <3>3, PacketShape DEF IInv
    <3>5. packet'.conn = packet.conn /\ packet'.frames = Tail(packet.frames)
      BY <3>2, <3>4 DEF FrameDone, PacketType
    <3> QED BY <1>1, <3>1, <3>3, <3>5, SameNewest
  <2> QED BY <2>1, <2>2
<1>4. ASSUME NEW h \in holds, DrainRelease(h) PROVE SequencedInv' /\ Forward
  BY <1>1, <1>4, SameNewest DEF DrainRelease
<1>5. CASE DrainNextChannel \/ DrainEnd
  BY <1>1, <1>5, SameNewest DEF DrainNextChannel, DrainEnd, connVars, history
<1>6. CASE FinishPacket
  <2>1. packet' = NoPacket /\ UNCHANGED <<latest, newest>>  BY <1>6 DEF FinishPacket, connVars
  <2>2. ~packet'.on  BY <2>1 DEF NoPacket
  <2> QED BY <1>1, <2>1, <2>2, SameNewest
<1>7. CASE AppRecv  BY <1>1, <1>7, SameNewest DEF AppRecv, connVars
<1>8. ASSUME NEW c \in Conns, NEW r \in ShorterQueues, Abort(c, r) PROVE SequencedInv' /\ Forward
  <2>1. SequencedInv'  BY <1>8, SequencedAbort
  <2>2. aborts' = aborts + 1 /\ aborts \in Nat  BY <1>8 DEF Abort, IInv, TypeOK
  <2> QED BY <2>1, <2>2 DEF Forward
<1>9. CASE UNCHANGED vars
  BY <1>1, <1>9, SameNewest DEF vars, connVars, history
<1> QED
  BY <1>2, <1>3, <1>4, <1>5, <1>6, <1>7, <1>8, <1>9 DEF Next, Internal

(* No sequenced message is put in the receive queue after a newer one of    *)
(* its stream, wherever the numbers wrap and although a packet may carry    *)
(* several of them (deliver_frame).                                         *)
THEOREM SequencedStaysForward == Spec => SequencedForward
<1>1. Spec => [](IInv /\ SequencedInv)
  <2>1. Init => IInv /\ SequencedInv  BY InitInv, SequencedInit
  <2>2. IInv /\ SequencedInv /\ [Next]_vars => (IInv /\ SequencedInv)'
    BY NextKeeps, SequencedStep
  <2> QED BY <2>1, <2>2, PTL DEF Spec
<1>2. IInv /\ SequencedInv /\ [Next]_vars => [Forward]_vars
  BY SequencedStep
<1>3. SequencedForward <=> [][Forward]_vars
  BY DEF SequencedForward, Forward
<1> QED BY <1>1, <1>2, <1>3, PTL DEF Spec
=============================================================================
