--------------------------- MODULE MCRudpReceiver ---------------------------
(***************************************************************************)
(* Instances of RudpReceiver for TLC.  Few long streams bring the channel  *)
(* numbers across their wrap, many short ones bring connections and        *)
(* channels into each other's way: a behaviour follows one such instance.  *)
(***************************************************************************)
EXTENDS RudpReceiver

CONSTANT Instances  \* streams the peers send on, kinds they use, messages of each

VARIABLE instance

First == CHOOSE c \in Conns : TRUE

Competing ==
  {[streams |-> Conns \X Channels, kinds |-> {"ordered"}, length |-> 2],
   [streams |-> Conns \X {0}, kinds |-> {"ordered"}, length |-> StreamLen],
   [streams |-> {First} \X Channels, kinds |-> {"ordered"}, length |-> StreamLen]}

Mixed ==
  {[streams |-> Conns \X Channels, kinds |-> Kinds, length |-> 2],
   [streams |-> Conns \X Channels, kinds |-> {"sequenced"}, length |-> StreamLen]}

LengthOf(c, ch) == IF <<c, ch>> \in instance.streams THEN instance.length ELSE 0

(* Packets carry messages of the instance.                                 *)
OfInstance(p) ==
  p.on => \A i \in DOMAIN p.frames :
            LET f == p.frames[i]
            IN f.kind \in instance.kinds /\ f.idx < LengthOf(p.conn, f.chan)

MCInit == Init /\ instance \in Instances
MCNext == Next /\ OfInstance(packet') /\ UNCHANGED instance
MCSpec == MCInit /\ [][MCNext]_<<vars, instance>>

(* Fairness.  The thread finishes what it started.  The adapter's loop polls *)
(* one batch, then calls rudp_recv until the queue is empty, so rudp_recv is *)
(* never shut out; and the peer repeats the frame that is needed next until *)
(* it is taken, so that it reaches an idle endpoint with room in its queue  *)
(* again and again.                                                         *)
FairSpec ==
  /\ MCSpec /\ WF_vars(Internal) /\ SF_vars(AppRecv)
  /\ \A c \in Conns, ch \in Channels :
       SF_vars(released[c][ch] < LengthOf(c, ch) /\ NextNeeded(c, ch))

(* Every ordered message reaches the application, although connections      *)
(* compete for the same hold slots and the same queue: in particular a hold *)
(* whose turn has come does not stay behind a queue that was full, since    *)
(* its frame is acknowledged and will not come again (drain_ordered,        *)
(* rudp_recv).                                                              *)
AllDelivered ==
  \A c \in Conns, ch \in Channels : <>(Len(delivered[c][ch]) = LengthOf(c, ch))
=============================================================================
