------------------------- MODULE SutExchangeProofs -------------------------
(***************************************************************************)
(* For any number of clients, any lengths of intervals, window and drain,  *)
(* and any loss, order and repetition of messages: what a process counts   *)
(* is what happened in its window, the server works for its whole roster   *)
(* once it has begun, and the gate finds a fault in the load alone.        *)
(*                                                                         *)
(* The argument: the plan of a process is a row of slots, and the counters *)
(* are the sizes of sets of them.  `slots' counts the slots of the window  *)
(* the plan is past, once for every target; `submitted' and `delivered'    *)
(* count what the transport took and what a receiver has seen of it, and   *)
(* nothing is seen that was not taken, and nothing taken that was not due. *)
(***************************************************************************)
EXTENDS SutExchange, NumberProofs, FiniteSetTheorems, WellFoundedInduction, TLAPS

(* What the transport has taken of the measured messages of either direction. *)
InputsTaken == {t \in Clients \X Nat : Input(t[1], t[2], TRUE) \in sent}
StateOf(c, n, m, a) == [kind |-> "state", peer |-> c, seq |-> n, measured |-> m, applied |-> a]
StatesTaken == {t \in Clients \X Nat : \E a \in Nat : StateOf(t[1], t[2], TRUE, a) \in sent}
Taken(p) == IF p = Server THEN StatesTaken ELSE {t \in InputsTaken : t[1] = p}

(* The slots of the window that a process has accounted for.               *)
Accounted(p) == Measured(p, begin[p], 1..(next[p] - 1))

Message ==
  [kind : {"registration"}, peer : Clients]
    \cup [kind : {"input"}, peer : Clients, seq : Nat, measured : BOOLEAN]
    \cup [kind : {"state"}, peer : Clients, seq : Nat, measured : BOOLEAN, applied : Nat]

Types ==
  /\ clock \in 0..MaxClock /\ moves \in BOOLEAN
  /\ stage \in [Procs -> {"connecting", "waiting", "running", "done", "failed"}]
  /\ window \in [Procs -> {Start, Early}]
  /\ begin \in [Procs -> 0..MaxClock] /\ next \in [Procs -> Nat \ {0}]
  /\ counts \in [Procs -> [slots : Nat, submitted : Nat, delivered : Nat]]
  /\ seen \in [Procs -> SUBSET (Procs \X Nat)]
  /\ invalid \in [Procs -> BOOLEAN]
  /\ up \in [Clients -> BOOLEAN]
  /\ input \in [Clients -> Nat] /\ inputSent \in [Clients -> Nat]
  /\ stateSeq \in [Clients -> Nat] /\ applied \in [Clients -> Nat]
  /\ conn \in [Clients -> [up : BOOLEAN, origin : BOOLEAN, roster : BOOLEAN, input : Nat]]
  /\ registered \in Nat /\ frozen \in BOOLEAN /\ stateTicks \in Nat
  /\ sent \subseteq Message

(* What has been looked at was due, and within the window that counts.     *)
LookedAt == \A p \in Procs : \A n \in 1..(next[p] - 1) :
  Sched(p, begin[p], n) <= clock /\ Sched(p, begin[p], n) < Stop(window[p])

(* A plan that has not begun has nothing behind it, and the server begins it*)
(* with a frozen roster.                                                   *)
NotBegun ==
  /\ \A c \in Clients : stage[c] \in {"connecting", "waiting"} => next[c] = 1
  /\ stage[Server] \in {"connecting", "waiting"} => ~frozen
  /\ ~frozen => next[Server] = 1

(* A process that is done has looked at all its slots before the cutoff.   *)
DoneInv == \A p \in Procs : stage[p] = "done" /\ (p = Server => frozen) =>
  \A n \in Nat \ {0} : Sched(p, begin[p], n) < Stop(window[p]) => n < next[p]

(* The counters of slots are the sizes of sets of them.                    *)
SlotInv ==
  /\ \A p \in Procs : counts[p].slots = Cardinality(Targets(p) \X Accounted(p))
  /\ stateTicks = Cardinality(Accounted(Server))

(* A message belongs to a slot that has been looked at, and tells of nothing*)
(* its sender has not seen.                                                *)
Placed(m) ==
  /\ m.kind = "input" => m.seq \in 1..(next[m.peer] - 1) /\ m.seq <= input[m.peer]
  /\ m.kind = "state" => m.seq \in 1..(next[Server] - 1) /\ m.applied <= input[m.peer]
MessageInv == \A m \in sent : Placed(m)

(* The numbers of inputs and states follow the plan, and nobody has applied*)
(* an input that was not sent; inputSent is one of the window.             *)
InputInv == \A c \in Clients :
  /\ input[c] < next[c] /\ applied[c] <= input[c] /\ conn[c].input <= input[c]
  /\ stateSeq[c] < next[Server]
  /\ inputSent[c] # 0 => inputSent[c] = input[c] /\ window[c] <= Sched(c, begin[c], input[c])

(* The transport took what was counted as submitted, ...                   *)
SubmittedInv == \A p \in Procs : counts[p].submitted = Cardinality(Taken(p))

(* ... and what was counted as delivered is of what the transport took.    *)
DeliveredInv ==
  /\ \A p \in Procs : IsFiniteSet(seen[p]) /\ counts[p].delivered = Cardinality(seen[p])
  /\ seen[Server] \subseteq InputsTaken
  /\ \A c \in Clients : seen[c] \subseteq {<<Server, t[2]>> : t \in {u \in StatesTaken : u[1] = c}}

(* The inductive invariant                                                 *)
IInv == /\ Types /\ LookedAt /\ NotBegun /\ DoneInv /\ SlotInv /\ MessageInv /\ InputInv
        /\ SubmittedInv /\ DeliveredInv /\ RosterExact /\ NothingInvalid

-----------------------------------------------------------------------------
(* Slots                                                                   *)

LEMMA Constants ==
  /\ Start \in Nat /\ Early \in Nat /\ Early < Start /\ Drain \in Nat
  /\ Duration \in Nat /\ Duration >= 1 /\ MaxClock \in Nat
  /\ \A p : Interval(p) \in Nat /\ Interval(p) >= 1
  /\ Server \in Procs /\ Clients \subseteq Procs /\ Server \notin Clients
  /\ IsFiniteSet(Clients) /\ Clients # {}
BY ExchangeAssumption DEF ExchangeAssumption, Interval, Procs, MaxClock, DrainUntil, Stop

(* Slot n of a plan that begins at b, and the slots that fall into a window. *)
SlotAt(b, I, n) == b + (n - 1) * I
SlotsOfWindow(b, I, w, D) ==
  {n \in Nat \ {0} : w <= SlotAt(b, I, n) /\ SlotAt(b, I, n) < w + D}

LEMMA SlotsGrow ==
  ASSUME NEW b \in Nat, NEW I \in Nat, I >= 1, NEW n \in Nat \ {0}
  PROVE  /\ SlotAt(b, I, n) \in Nat /\ n - 1 <= SlotAt(b, I, n) /\ SlotAt(b, I, 1) = b
         /\ \A m \in Nat \ {0} : n <= m => SlotAt(b, I, m) = SlotAt(b, I, n) + (m - n) * I
                                           /\ SlotAt(b, I, n) <= SlotAt(b, I, m)
         /\ SlotAt(b, I, n + 1) = SlotAt(b, I, n) + I
<1>2. ASSUME NEW k \in Nat PROVE k * I \in Nat /\ k <= k * I
  <2>1. k * I = k + k * (I - 1)  OBVIOUS
  <2>2. k * (I - 1) \in Nat  OBVIOUS
  <2> QED BY <2>1, <2>2
<1>3. SlotAt(b, I, n) = b + (n - 1) * I /\ SlotAt(b, I, 1) = b + 0 * I  BY DEF SlotAt
<1>4. SlotAt(b, I, n) \in Nat /\ n - 1 <= SlotAt(b, I, n)
  <2>1. n - 1 \in Nat  OBVIOUS
  <2>2. (n - 1) * I \in Nat /\ n - 1 <= (n - 1) * I  BY <1>2, <2>1
  <2> QED BY <1>3, <2>2
<1>5. SlotAt(b, I, 1) = b  BY <1>3
<1>6. ASSUME NEW m \in Nat \ {0}, n <= m
      PROVE  SlotAt(b, I, m) = SlotAt(b, I, n) + (m - n) * I /\ SlotAt(b, I, n) <= SlotAt(b, I, m)
  <2>1. m - n \in Nat /\ m - 1 \in Nat /\ n - 1 \in Nat  BY <1>6
  <2>2. (m - 1) * I = (n - 1) * I + (m - n) * I  BY <2>1
  <2>3. (m - n) * I \in Nat /\ (n - 1) * I \in Nat  BY <1>2, <2>1
  <2>4. SlotAt(b, I, m) = b + (m - 1) * I  BY DEF SlotAt
  <2> QED BY <1>3, <2>2, <2>3, <2>4
<1>7. SlotAt(b, I, n + 1) = SlotAt(b, I, n) + I
  <2>1. (n + 1 - 1) * I = (n - 1) * I + I  OBVIOUS
  <2>2. SlotAt(b, I, n + 1) = b + (n + 1 - 1) * I  BY DEF SlotAt
  <2>3. (n - 1) * I \in Nat  BY <1>2
  <2> QED BY <1>3, <2>1, <2>2, <2>3
<1> QED BY <1>4, <1>5, <1>6, <1>7

LEMMA SchedGrows ==
  ASSUME NEW p, NEW b \in Nat, NEW n \in Nat \ {0}
  PROVE  /\ Sched(p, b, n) \in Nat /\ n - 1 <= Sched(p, b, n) /\ Sched(p, b, 1) = b
         /\ \A m \in Nat \ {0} : n <= m => Sched(p, b, n) <= Sched(p, b, m)
         /\ Sched(p, b, n + 1) = Sched(p, b, n) + Interval(p)
<1> DEFINE I == Interval(p)
<1>1. I \in Nat /\ I >= 1  BY Constants
<1>2. \A m : Sched(p, b, m) = SlotAt(b, I, m)  BY DEF Sched, SlotAt
<1> HIDE DEF I
<1>3. /\ SlotAt(b, I, n) \in Nat /\ n - 1 <= SlotAt(b, I, n) /\ SlotAt(b, I, 1) = b
      /\ \A m \in Nat \ {0} : n <= m => SlotAt(b, I, n) <= SlotAt(b, I, m)
      /\ SlotAt(b, I, n + 1) = SlotAt(b, I, n) + I
  BY <1>1, SlotsGrow
<1> QED BY <1>2, <1>3 DEF I

(* A count k of slots with k intervals as long as the window, to less than   *)
(* an interval, is one that expectedSlotRange allows.                        *)
LEMMA CountInSlotRange ==
  ASSUME NEW D \in Nat, NEW I \in Nat, I >= 1, NEW k \in Nat, k * I > D - I, k * I < D + I
  PROVE  k \in SlotRange(I, D, 1)
<1>1. k \in (D \div I)..((D + I - 1) \div I)  BY CountInRange
<1>2. D \div I \in Int /\ (D + I - 1) \div I \in Int  BY DivMod
<1>3. SlotRange(I, D, 1) = (D \div I)..((D + I - 1) \div I)
  <2>1. \A x \in Int : x * 1 = x  OBVIOUS
  <2> DEFINE x == D \div I
             y == (D + I - 1) \div I
  <2>2. SlotRange(I, D, 1) = (x * 1)..(y * 1)  BY DEF SlotRange, CeilDiv
  <2> HIDE DEF x, y
  <2>3. x * 1 = x /\ y * 1 = y  BY <1>2, <2>1 DEF x, y
  <2> QED BY <2>2, <2>3 DEF x, y
<1> QED BY <1>1, <1>3

(* What expectedSlotRange allows is what a plan that begins by the start of  *)
(* the window has in it, whatever the interval and the length of the window. *)
THEOREM SlotRangeIsRight ==
  ASSUME NEW b \in Nat, NEW I \in Nat, I >= 1, NEW w \in Nat, b <= w, NEW D \in Nat, D >= 1
  PROVE  /\ IsFiniteSet(SlotsOfWindow(b, I, w, D))
         /\ Cardinality(SlotsOfWindow(b, I, w, D)) \in SlotRange(I, D, 1)
<1> DEFINE At(n) == SlotAt(b, I, n)
           U == {n \in Nat \ {0} : w <= At(n)}
           V == {n \in Nat \ {0} : w + D <= At(n)}
           S == SlotsOfWindow(b, I, w, D)
<1>1. \A n \in Nat \ {0} : At(n) \in Nat /\ n - 1 <= At(n) /\ At(n + 1) = At(n) + I
  BY SlotsGrow
<1>2. \A n \in Nat \ {0}, m \in Nat \ {0} :
        n <= m => At(m) = At(n) + (m - n) * I /\ At(n) <= At(m)
  BY SlotsGrow
<1>3. At(1) = b  BY SlotsGrow
<1>4. S = {n \in Nat \ {0} : w <= At(n) /\ At(n) < w + D}  BY DEF SlotsOfWindow
<1> HIDE DEF At, S
<1>5. PICK u \in U : \A n \in U : u <= n
  <2>1. w + 1 \in U  BY <1>1
  <2>2. U \in SUBSET Nat  OBVIOUS
  <2> HIDE DEF U
  <2> QED BY <2>1, <2>2, LeastExists
<1>6. PICK v \in V : \A n \in V : v <= n
  <2>1. w + D + 1 \in V  BY <1>1
  <2>2. V \in SUBSET Nat  OBVIOUS
  <2> HIDE DEF V
  <2> QED BY <2>1, <2>2, LeastExists
<1>7. /\ u \in Nat \ {0} /\ v \in Nat \ {0} /\ At(u) \in Nat /\ At(v) \in Nat
      /\ w <= At(u) /\ w + D <= At(v)
  BY <1>1, <1>5, <1>6
<1>8. u <= v
  <2>1. v \in U  BY <1>7
  <2> QED BY <1>5, <2>1
<1>9. S = u..(v - 1)
  <2>1. ASSUME NEW n \in Nat \ {0} PROVE w <= At(n) <=> u <= n
    <3>1. w <= At(n) => u <= n  BY <1>5
    <3>2. u <= n => w <= At(n)  BY <1>1, <1>2, <1>7
    <3> QED BY <3>1, <3>2
  <2>2. ASSUME NEW n \in Nat \ {0} PROVE At(n) < w + D <=> n < v
    <3>1. At(n) \in Nat  BY <1>1
    <3>2. w + D <= At(n) => v <= n  BY <1>6
    <3>3. v <= n => w + D <= At(n)  BY <1>1, <1>2, <1>7
    <3> QED BY <1>7, <3>1, <3>2, <3>3
  <2>3. \A n : n \in u..(v - 1) <=> n \in Nat \ {0} /\ u <= n /\ n < v  BY <1>7
  <2>4. \A n : n \in S <=> n \in Nat \ {0} /\ w <= At(n) /\ At(n) < w + D  BY <1>4
  <2> QED BY <2>1, <2>2, <2>3, <2>4
<1>10. IsFiniteSet(S) /\ Cardinality(S) = v - u
  <2>1. u \in Int /\ v - 1 \in Int  BY <1>7
  <2>2. IsFiniteSet(u..(v - 1))
        /\ Cardinality(u..(v - 1)) = IF u > v - 1 THEN 0 ELSE (v - 1) - u + 1
    BY <2>1, FS_Interval
  <2> QED BY <1>7, <1>8, <1>9, <2>2
<1>11. At(u) < w + I
  <2>1. CASE u = 1  BY <1>3, <1>7, <2>1
  <2>2. CASE u # 1
    <3>1. u - 1 \in Nat \ {0} /\ ~(u <= u - 1)  BY <1>7, <2>2
    <3>2. ~(w <= At(u - 1))  BY <1>5, <3>1
    <3>3. At(u - 1) \in Nat /\ At((u - 1) + 1) = At(u - 1) + I  BY <1>1, <3>1
    <3>4. (u - 1) + 1 = u  BY <1>7
    <3> QED BY <3>2, <3>3, <3>4
  <2> QED BY <2>1, <2>2
<1>12. At(v) < w + D + I
  <2>1. CASE v = 1  BY <1>3, <1>7, <2>1
  <2>2. CASE v # 1
    <3>1. v - 1 \in Nat \ {0} /\ ~(v <= v - 1)  BY <1>7, <2>2
    <3>2. ~(w + D <= At(v - 1))  BY <1>6, <3>1
    <3>3. At(v - 1) \in Nat /\ At((v - 1) + 1) = At(v - 1) + I  BY <1>1, <3>1
    <3>4. (v - 1) + 1 = v  BY <1>7
    <3> QED BY <3>2, <3>3, <3>4
  <2> QED BY <2>1, <2>2
<1> DEFINE k == v - u
<1>13. k \in Nat /\ At(v) = At(u) + k * I  BY <1>2, <1>7, <1>8
<1> HIDE DEF k
<1>14. k * I > D - I /\ k * I < D + I
  <2>1. k * I \in Int  BY <1>13
  <2> QED BY <1>7, <1>11, <1>12, <1>13, <2>1
<1>15. k \in SlotRange(I, D, 1)  BY <1>13, <1>14, CountInSlotRange
<1> QED BY <1>10, <1>15 DEF S, k

(* The slots that are due follow on those that have been looked at.          *)
LEMMA DueSlots ==
  ASSUME NEW p \in Procs, next[p] \in Nat \ {0}, NEW b \in Nat, NEW limit \in Nat
  PROVE  /\ IsFiniteSet(Due(p, b, limit)) /\ Cardinality(Due(p, b, limit)) \in Nat
         /\ Due(p, b, limit) = next[p]..(next[p] + Cardinality(Due(p, b, limit)) - 1)
         /\ \A n \in Nat \ {0} : n >= next[p] =>
              (n \in Due(p, b, limit) <=> Sched(p, b, n) <= limit)
<1> DEFINE D == Due(p, b, limit)
           x == next[p]
<1>0. x \in Nat /\ x > 0  OBVIOUS
<1>1. ASSUME NEW n \in Nat \ {0}, n >= x PROVE n \in D <=> Sched(p, b, n) <= limit
  <2>1. n - 1 <= Sched(p, b, n) /\ Sched(p, b, n) \in Nat  BY SchedGrows
  <2>2. Sched(p, b, n) <= limit => n \in x..(x + limit)  BY <1>0, <1>1, <2>1
  <2> QED BY <2>2 DEF Due
<1>2. D \subseteq x..(x + limit)  BY DEF Due
<1>3. \A n \in D : n \in Nat \ {0} /\ n >= x /\ n <= x + limit /\ Sched(p, b, n) <= limit
  BY <1>0 DEF Due
<1> HIDE DEF D, x
<1>4. IsFiniteSet(D) /\ Cardinality(D) \in Nat
  <2>1. x \in Int /\ x + limit \in Int  BY <1>0
  <2>2. IsFiniteSet(x..(x + limit))  BY <2>1, FS_Interval
  <2> QED BY <1>2, <2>2, FS_Subset, FS_CardinalityType
<1>5. D = x..(x + Cardinality(D) - 1)
  <2>1. CASE D = {}
    <3>1. Cardinality(D) = 0  BY <2>1, FS_EmptySet
    <3>2. x..(x + 0 - 1) = {}  BY <1>0
    <3> QED BY <2>1, <3>1, <3>2
  <2>2. CASE D # {}
    <3>1. D \in SUBSET (0..(x + limit)) /\ x + limit \in Nat  BY <1>0, <1>2
    <3>3. PICK m \in D : \A n \in D : m >= n  BY <2>2, <3>1, GreatestExists
    <3>4. m \in Nat /\ m >= x /\ Sched(p, b, m) <= limit  BY <1>3, <3>3
    <3>5. ASSUME NEW n \in x..m PROVE n \in D
      <4>1. n \in Nat \ {0} /\ n >= x /\ n <= m /\ m \in Nat \ {0}  BY <1>0, <3>4
      <4>2. Sched(p, b, n) <= Sched(p, b, m) /\ Sched(p, b, n) \in Nat /\ Sched(p, b, m) \in Nat
        BY <4>1, SchedGrows
      <4> QED BY <1>1, <3>4, <4>1, <4>2
    <3>6. D = x..m
      <4>1. \A n \in D : n \in x..m  BY <1>3, <3>3, <3>4
      <4> QED BY <3>5, <4>1
    <3>7. Cardinality(x..m) = m - x + 1  BY <1>0, <3>4, FS_Interval
    <3>8. x + (m - x + 1) - 1 = m  BY <1>0, <3>4
    <3> QED BY <3>6, <3>7, <3>8
  <2> QED BY <2>1, <2>2
<1> QED BY <1>1, <1>4, <1>5 DEF D, x

LEMMA DisjointCard ==
  ASSUME NEW A, NEW B, IsFiniteSet(A), IsFiniteSet(B), A \cap B = {}
  PROVE  IsFiniteSet(A \cup B) /\ Cardinality(A \cup B) = Cardinality(A) + Cardinality(B)
<1>1. Cardinality(A \cap B) = 0  BY FS_EmptySet
<1>2. Cardinality(A) \in Nat /\ Cardinality(B) \in Nat  BY FS_CardinalityType
<1>3. IsFiniteSet(A \cup B)
      /\ Cardinality(A \cup B) = Cardinality(A) + Cardinality(B) - Cardinality(A \cap B)
  BY FS_Union
<1> QED BY <1>1, <1>2, <1>3

(* What is added to a set of slots is added to the count of the slots times  *)
(* the targets.                                                              *)
LEMMA ProductGrows ==
  ASSUME NEW T, IsFiniteSet(T), NEW A, IsFiniteSet(A), NEW B, IsFiniteSet(B), A \cap B = {}
  PROVE  Cardinality(T \X (A \cup B)) = Cardinality(T \X A) + Cardinality(T \X B)
<1>1. IsFiniteSet(T \X A) /\ IsFiniteSet(T \X B)  BY FS_Product
<1>2. T \X (A \cup B) = (T \X A) \cup (T \X B) /\ (T \X A) \cap (T \X B) = {}  OBVIOUS
<1> QED BY <1>1, <1>2, DisjointCard

LEMMA ProductOfOne ==
  ASSUME NEW x, NEW A, IsFiniteSet(A) PROVE Cardinality({x} \X A) = Cardinality(A)
<1>1. IsFiniteSet({x}) /\ Cardinality({x}) = 1  BY FS_Singleton
<1>2. Cardinality(A) \in Nat  BY FS_CardinalityType
<1>3. Cardinality({x} \X A) = 1 * Cardinality(A)  BY <1>1, FS_Product
<1> QED BY <1>2, <1>3

LEMMA Finite ==
  ASSUME NEW p \in Procs, next[p] \in Nat \ {0}
  PROVE  /\ IsFiniteSet(Accounted(p)) /\ Cardinality(Accounted(p)) \in Nat
         /\ IsFiniteSet(Targets(p))
         /\ Accounted(p) \subseteq 1..(next[p] - 1)
<1>1. IsFiniteSet(1..(next[p] - 1))  BY FS_Interval
<1>2. Accounted(p) \subseteq 1..(next[p] - 1)  BY DEF Accounted, Measured
<1>3. IsFiniteSet(Targets(p))
  <2>1. IsFiniteSet({p})  BY FS_Singleton
  <2> QED BY <2>1, Constants DEF Targets
<1> QED BY <1>1, <1>2, <1>3, FS_Subset, FS_CardinalityType

LEMMA AccountedFrame ==
  ASSUME NEW p, next'[p] = next[p], begin'[p] = begin[p], window'[p] = window[p]
  PROVE  Accounted(p)' = Accounted(p)
BY DEF Accounted, Measured, InWindow, Sched, Stop

LEMMA NothingAccounted ==
  ASSUME NEW p, next[p] = 1
  PROVE  Accounted(p) = {}
BY DEF Accounted, Measured

(* Looking at what is due moves the plan on and adds to what is accounted,   *)
(* whether the plan has begun earlier or begins with it.                     *)
LEMMA Advance ==
  ASSUME NEW p \in Procs, next[p] \in Nat \ {0}, NEW b \in Nat, NEW limit \in Nat,
         b = begin[p] \/ next[p] = 1,
         begin'[p] = b, window' = window,
         next'[p] = next[p] + Cardinality(Due(p, b, limit))
  PROVE  /\ next'[p] \in Nat \ {0} /\ next'[p] >= next[p]
         /\ \A n \in 1..(next'[p] - 1) : n < next[p] \/ n \in Due(p, b, limit)
         /\ Due(p, b, limit) = next[p]..(next'[p] - 1)
         /\ IsFiniteSet(Measured(p, b, Due(p, b, limit)))
         /\ Accounted(p)' = Accounted(p) \cup Measured(p, b, Due(p, b, limit))
         /\ Accounted(p) \cap Measured(p, b, Due(p, b, limit)) = {}
<1> DEFINE D == Due(p, b, limit)
<1>1. IsFiniteSet(D) /\ Cardinality(D) \in Nat /\ D = next[p]..(next[p] + Cardinality(D) - 1)
  BY DueSlots
<1> HIDE DEF D
<1>2. next'[p] = next[p] + Cardinality(D)  BY DEF D
<1>3. next'[p] \in Nat \ {0} /\ next'[p] >= next[p] /\ D = next[p]..(next'[p] - 1)
  BY <1>1, <1>2
<1>4. 1..(next'[p] - 1) = (1..(next[p] - 1)) \cup D
  <2>1. \A k, l \in Nat \ {0} : l >= k => 1..(l - 1) = (1..(k - 1)) \cup (k..(l - 1))
    OBVIOUS
  <2> QED BY <1>3, <2>1
<1>5. Measured(p, b, D) \subseteq D /\ IsFiniteSet(Measured(p, b, D))
  <2>1. Measured(p, b, D) \subseteq D  BY DEF Measured
  <2> QED BY <1>1, <2>1, FS_Subset
<1>6. Accounted(p) = Measured(p, b, 1..(next[p] - 1))
  <2>1. CASE b = begin[p]  BY <2>1 DEF Accounted
  <2>2. CASE next[p] = 1
    <3>1. 1..(next[p] - 1) = {}  BY <2>2
    <3> QED BY <3>1 DEF Accounted, Measured
  <2> QED BY <2>1, <2>2
<1>7. Accounted(p)' = Measured(p, b, 1..(next'[p] - 1))
  BY DEF Accounted, Measured, InWindow, Sched, Stop
<1>8. ASSUME NEW A, NEW B PROVE Measured(p, b, A \cup B) = Measured(p, b, A) \cup Measured(p, b, B)
  BY DEF Measured
<1>9. Accounted(p) \cap Measured(p, b, D) = {}
  <2>1. \A n \in Accounted(p) : n < next[p] /\ n \in Nat  BY <1>6 DEF Measured
  <2>2. \A n \in Measured(p, b, D) : n \in D  BY DEF Measured
  <2> QED BY <1>3, <2>1, <2>2
<1>10. Accounted(p)' = Accounted(p) \cup Measured(p, b, D)
  <2> DEFINE L == 1..(next[p] - 1)
  <2>1. Accounted(p)' = Measured(p, b, L \cup D)  BY <1>4, <1>7
  <2>2. Accounted(p) = Measured(p, b, L)  BY <1>6
  <2> HIDE DEF L
  <2>3. Measured(p, b, L \cup D) = Measured(p, b, L) \cup Measured(p, b, D)  BY <1>8
  <2> QED BY <2>1, <2>2, <2>3
<1>11. \A n \in 1..(next'[p] - 1) : n < next[p] \/ n \in D  BY <1>3
<1> QED BY <1>3, <1>5, <1>9, <1>10, <1>11 DEF D

-----------------------------------------------------------------------------
(* What keeps the parts of the invariant                                    *)

LEMMA TakenFrame ==
  ASSUME sent' = sent
  PROVE  InputsTaken' = InputsTaken /\ StatesTaken' = StatesTaken /\ \A p : Taken(p)' = Taken(p)
<1>1. InputsTaken' = InputsTaken /\ StatesTaken' = StatesTaken
  BY DEF InputsTaken, StatesTaken
<1> QED BY <1>1 DEF Taken

(* A registration is none of the messages that are counted.                  *)
LEMMA TakenRegistration ==
  ASSUME NEW c \in Clients, sent' = sent \cup {Registration(c)}
  PROVE  InputsTaken' = InputsTaken /\ StatesTaken' = StatesTaken /\ \A p : Taken(p)' = Taken(p)
<1>1. ASSUME NEW d, NEW n, NEW m, NEW a
      PROVE  Input(d, n, m) # Registration(c) /\ StateOf(d, n, m, a) # Registration(c)
  BY DEF Input, StateOf, Registration
<1>2. ASSUME NEW d, NEW n PROVE Input(d, n, TRUE) \in sent' <=> Input(d, n, TRUE) \in sent
  BY <1>1
<1>3. ASSUME NEW d, NEW n, NEW a
      PROVE StateOf(d, n, TRUE, a) \in sent' <=> StateOf(d, n, TRUE, a) \in sent
  BY <1>1
<1>4. InputsTaken' = {t \in Clients \X Nat : Input(t[1], t[2], TRUE) \in sent'}
  BY DEF InputsTaken, Input
<1>5. StatesTaken' = {t \in Clients \X Nat : \E a \in Nat : StateOf(t[1], t[2], TRUE, a) \in sent'}
  BY DEF StatesTaken, StateOf
<1>6. InputsTaken' = InputsTaken  BY <1>2, <1>4 DEF InputsTaken
<1>7. StatesTaken' = StatesTaken  BY <1>3, <1>5 DEF StatesTaken
<1> QED BY <1>6, <1>7 DEF Taken

LEMMA SlotFrame ==
  ASSUME SlotInv, stateTicks' = stateTicks,
         \A p \in Procs : counts'[p].slots = counts[p].slots /\ Accounted(p)' = Accounted(p)
  PROVE  SlotInv'
<1>1. \A p \in Procs : counts'[p].slots = Cardinality(Targets(p) \X Accounted(p)')
  BY DEF SlotInv
<1>2. stateTicks' = Cardinality(Accounted(Server)')  BY Constants DEF SlotInv
<1>3. \A p : Targets(p)' = Targets(p)  BY DEF Targets
<1> QED BY <1>1, <1>2, <1>3 DEF SlotInv

LEMMA MessageFrame ==
  ASSUME Types, MessageInv,
         \A p \in Procs : next'[p] \in Nat \ {0} /\ next[p] <= next'[p],
         \A c \in Clients : input'[c] \in Nat /\ input[c] <= input'[c],
         \A m \in sent' : m \in sent \/ m.kind = "registration" \/ Placed(m)'
  PROVE  MessageInv'
<1> SUFFICES ASSUME NEW m \in sent' PROVE Placed(m)'  BY DEF MessageInv
<1>1. CASE m.kind = "registration"  BY <1>1 DEF Placed
<1>2. CASE m \in sent
  <2>1. m \in Message  BY <1>2 DEF Types
  <2>2. m.peer \in Clients /\ m.peer \in Procs /\ Server \in Procs  BY <2>1, Constants DEF Message
  <2>3. next[m.peer] \in Nat /\ next[Server] \in Nat /\ input[m.peer] \in Nat  BY <2>2 DEF Types
  <2>4. next'[m.peer] \in Nat /\ next[m.peer] <= next'[m.peer]
        /\ next'[Server] \in Nat /\ next[Server] <= next'[Server]
        /\ input'[m.peer] \in Nat /\ input[m.peer] <= input'[m.peer]
    BY <2>2
  <2>5. m.kind = "input" => m.seq \in 1..(next[m.peer] - 1) /\ m.seq <= input[m.peer]
    BY <1>2 DEF MessageInv, Placed
  <2>6. m.kind = "state" => m.seq \in 1..(next[Server] - 1) /\ m.applied <= input[m.peer] /\ m.applied \in Nat
    BY <1>2, <2>1 DEF MessageInv, Placed, Message
  <2> QED BY <2>3, <2>4, <2>5, <2>6 DEF Placed
<1>3. CASE Placed(m)'  BY <1>3
<1> QED BY <1>1, <1>2, <1>3

LEMMA DoneFrame ==
  ASSUME Types, DoneInv, \A p \in Procs : next'[p] \in Nat /\ next[p] <= next'[p],
         \A p \in Procs : stage'[p] = "done" /\ (p = Server => frozen') =>
           /\ stage[p] = "done" /\ (p = Server => frozen)
           /\ begin'[p] = begin[p] /\ window'[p] = window[p]
  PROVE  DoneInv'
<1> SUFFICES ASSUME NEW p \in Procs, stage'[p] = "done", p = Server => frozen',
                    NEW n \in Nat \ {0}, Sched(p, begin'[p], n) < Stop(window'[p])
             PROVE  n < next'[p]
  BY DEF DoneInv, Sched, Stop
<1>1. n < next[p]  BY DEF DoneInv
<1>2. next[p] \in Nat /\ next'[p] \in Nat /\ next[p] <= next'[p]  BY DEF Types
<1> QED BY <1>1, <1>2

(* Nothing that concerns plans, messages or accounts happens.                *)
LEMMA Quiet ==
  ASSUME IInv,
         UNCHANGED <<clock, moves, window, begin, next, counts, seen, invalid>>,
         UNCHANGED <<input, inputSent, stateSeq, applied, registered, frozen, stateTicks>>,
         up' \in [Clients -> BOOLEAN],
         stage' \in [Procs -> {"connecting", "waiting", "running", "done", "failed"}],
         \A p \in Procs :
           /\ stage'[p] \in {"connecting", "waiting"} => stage[p] \in {"connecting", "waiting"}
           /\ stage'[p] = "done" => stage[p] = "done",
         conn' \in [Clients -> [up : BOOLEAN, origin : BOOLEAN, roster : BOOLEAN, input : Nat]],
         \A c \in Clients :
           /\ conn'[c].origin = conn[c].origin /\ conn'[c].roster = conn[c].roster
           /\ conn'[c].input = conn[c].input /\ (conn[c].up => conn'[c].up),
         sent' = sent \/ \E c \in Clients : sent' = sent \cup {Registration(c)}
  PROVE  IInv'
<1>0. Types /\ LookedAt /\ NotBegun /\ DoneInv /\ SlotInv /\ MessageInv /\ InputInv
      /\ SubmittedInv /\ DeliveredInv /\ RosterExact /\ NothingInvalid  BY DEF IInv
<1>1. \A m \in sent' : m \in sent \/ (m.kind = "registration" /\ m \in Message)
  <2>1. \A c \in Clients : Registration(c).kind = "registration" /\ Registration(c) \in Message
    BY DEF Registration, Message
  <2> QED BY <2>1
<1>2. Types'  BY <1>0, <1>1 DEF Types
<1>3. LookedAt'  BY <1>0 DEF LookedAt, Sched, Stop
<1>4. NotBegun'
  <2>1. Clients \subseteq Procs /\ Server \in Procs  BY Constants
  <2> QED BY <1>0, <2>1 DEF NotBegun
<1>5. \A p \in Procs : next[p] \in Nat \ {0} /\ next[p] <= next[p]  BY <1>0 DEF Types
<1>6. DoneInv'  BY <1>0, <1>5, DoneFrame
<1>7. SlotInv'  BY <1>0, AccountedFrame, SlotFrame
<1>8. MessageInv'
  <2>1. \A c \in Clients : input[c] \in Nat /\ input[c] <= input[c]  BY <1>0 DEF Types
  <2> QED BY <1>0, <1>1, <1>5, <2>1, MessageFrame
<1>9. InputInv'  BY <1>0 DEF InputInv, Sched
<1>10. InputsTaken' = InputsTaken /\ StatesTaken' = StatesTaken /\ \A p : Taken(p)' = Taken(p)
  BY TakenFrame, TakenRegistration
<1>11. SubmittedInv'  BY <1>0, <1>10 DEF SubmittedInv
<1>12. DeliveredInv'  BY <1>0, <1>10 DEF DeliveredInv
<1>13. RosterExact'
  <2>1. {c \in Clients : conn'[c].origin} = {c \in Clients : conn[c].origin}  OBVIOUS
  <2> QED BY <1>0, <2>1 DEF RosterExact
<1>14. NothingInvalid'  BY <1>0 DEF NothingInvalid
<1> QED BY <1>2, <1>3, <1>4, <1>6, <1>7, <1>8, <1>9, <1>11, <1>12, <1>13, <1>14 DEF IInv

-----------------------------------------------------------------------------
(* The actions                                                              *)

LEMMA InitInv == Init => IInv
<1> SUFFICES ASSUME Init PROVE IInv  OBVIOUS
<1> USE DEF Init
<1>1. Types
  <2>0. moves \in BOOLEAN /\ frozen \in BOOLEAN /\ sent \subseteq Message  OBVIOUS
  <2>1. clock \in 0..MaxClock /\ registered \in Nat /\ stateTicks \in Nat  BY Constants
  <2>2. /\ stage \in [Procs -> {"connecting", "waiting", "running", "done", "failed"}]
        /\ window \in [Procs -> {Start, Early}]
        /\ next \in [Procs -> Nat \ {0}]
    OBVIOUS
  <2>3. begin \in [Procs -> 0..MaxClock]  BY Constants
  <2>4. counts \in [Procs -> [slots : Nat, submitted : Nat, delivered : Nat]]  OBVIOUS
  <2>5. /\ seen \in [Procs -> SUBSET (Procs \X Nat)] /\ invalid \in [Procs -> BOOLEAN]
        /\ up \in [Clients -> BOOLEAN]
    OBVIOUS
  <2>6. /\ input \in [Clients -> Nat] /\ inputSent \in [Clients -> Nat]
        /\ stateSeq \in [Clients -> Nat] /\ applied \in [Clients -> Nat]
    OBVIOUS
  <2>7. conn \in [Clients -> [up : BOOLEAN, origin : BOOLEAN, roster : BOOLEAN, input : Nat]]
    OBVIOUS
  <2> QED BY <2>0, <2>1, <2>2, <2>3, <2>4, <2>5, <2>6, <2>7 DEF Types
<1>2. LookedAt  BY DEF LookedAt
<1>3. NotBegun /\ DoneInv  BY Constants DEF NotBegun, DoneInv
<1>4. \A p \in Procs : Accounted(p) = {}  BY NothingAccounted
<1>5. SlotInv
  <2>1. ASSUME NEW p \in Procs PROVE counts[p].slots = Cardinality(Targets(p) \X Accounted(p))
    <3>1. Targets(p) \X Accounted(p) = {}  BY <1>4
    <3>2. Cardinality(Targets(p) \X Accounted(p)) = 0  BY <3>1, FS_EmptySet
    <3> QED BY <3>2
  <2>2. Cardinality(Accounted(Server)) = 0  BY <1>4, Constants, FS_EmptySet
  <2> QED BY <2>1, <2>2 DEF SlotInv
<1>6. MessageInv
  <2>1. sent = {}  OBVIOUS
  <2> QED BY <2>1 DEF MessageInv
<1>7. InputInv
  <2> SUFFICES ASSUME NEW c \in Clients
               PROVE  /\ input[c] < next[c] /\ applied[c] <= input[c] /\ conn[c].input <= input[c]
                      /\ stateSeq[c] < next[Server] /\ inputSent[c] = 0
    BY DEF InputInv
  <2>1. c \in Procs /\ Server \in Procs  BY Constants
  <2> QED BY <2>1
<1>8. InputsTaken = {} /\ StatesTaken = {}  BY DEF InputsTaken, StatesTaken
<1>9. \A p : Taken(p) = {}  BY <1>8 DEF Taken
<1>10. SubmittedInv
  <2>1. \A p : Cardinality(Taken(p)) = 0  BY <1>9, FS_EmptySet
  <2> QED BY <2>1 DEF SubmittedInv
<1>11. DeliveredInv
  <2>1. Cardinality({}) = 0 /\ IsFiniteSet({})  BY FS_EmptySet
  <2> QED BY <2>1, Constants DEF DeliveredInv
<1>12. RosterExact
  <2>1. {c \in Clients : conn[c].origin} = {}  OBVIOUS
  <2>2. Cardinality({c \in Clients : conn[c].origin}) = 0  BY <2>1, FS_EmptySet
  <2> QED BY <2>2 DEF RosterExact
<1>13. NothingInvalid  BY DEF NothingInvalid
<1> QED BY <1>1, <1>2, <1>3, <1>5, <1>6, <1>7, <1>10, <1>11, <1>12, <1>13 DEF IInv

LEMMA FailedIs ==
  ASSUME stage' = Failed
  PROVE  /\ stage' \in [Procs -> {"connecting", "waiting", "running", "done", "failed"}]
         /\ \A p \in Procs : stage'[p] = "failed"
BY DEF Failed

LEMMA ClientConnectedKeeps == ASSUME IInv, NEW c \in Clients, ClientConnected(c) PROVE IInv'
<1> USE DEF ClientConnected, planVars, metricsVars, serverVars
<1>1. up' \in [Clients -> BOOLEAN]  BY DEF IInv, Types
<1>2. /\ stage' \in [Procs -> {"connecting", "waiting", "running", "done", "failed"}]
      /\ \A p \in Procs : stage'[p] = stage[p] \/ stage'[p] = "failed"
  BY FailedIs DEF IInv, Types
<1>3. sent' = sent \/ \E d \in Clients : sent' = sent \cup {Registration(d)}  OBVIOUS
<1>4. conn' = conn /\ conn \in [Clients -> [up : BOOLEAN, origin : BOOLEAN, roster : BOOLEAN, input : Nat]]
  BY DEF IInv, Types
<1>5. UNCHANGED <<clock, moves, window, begin, next, counts, seen, invalid>>  OBVIOUS
<1>6. UNCHANGED <<input, inputSent, stateSeq, applied, registered, frozen, stateTicks>>  OBVIOUS
<1> QED BY <1>1, <1>2, <1>3, <1>4, <1>5, <1>6, Quiet

LEMMA ClientDisconnectedKeeps == ASSUME IInv, NEW c \in Clients, ClientDisconnected(c) PROVE IInv'
<1> USE DEF ClientDisconnected, planVars, metricsVars, serverVars
<1>1. up' \in [Clients -> BOOLEAN]  BY DEF IInv, Types
<1>2. /\ stage' \in [Procs -> {"connecting", "waiting", "running", "done", "failed"}]
      /\ \A p \in Procs : stage'[p] = stage[p] \/ stage'[p] = "failed"
  BY FailedIs DEF IInv, Types
<1>4. conn' = conn /\ conn \in [Clients -> [up : BOOLEAN, origin : BOOLEAN, roster : BOOLEAN, input : Nat]]
  BY DEF IInv, Types
<1>5. UNCHANGED <<clock, moves, window, begin, next, counts, seen, invalid>>  OBVIOUS
<1>6. UNCHANGED <<input, inputSent, stateSeq, applied, registered, frozen, stateTicks, sent>>  OBVIOUS
<1> QED BY <1>1, <1>2, <1>4, <1>5, <1>6, Quiet

LEMMA ServerConnectedKeeps == ASSUME IInv, NEW c \in Clients, ServerConnected(c) PROVE IInv'
<1> USE DEF ServerConnected, planVars, metricsVars, clientVars
<1>1. /\ up' = up /\ up \in [Clients -> BOOLEAN]
      /\ stage' = stage /\ stage \in [Procs -> {"connecting", "waiting", "running", "done", "failed"}]
      /\ conn \in [Clients -> [up : BOOLEAN, origin : BOOLEAN, roster : BOOLEAN, input : Nat]]
  BY DEF IInv, Types
<1>2. conn' \in [Clients -> [up : BOOLEAN, origin : BOOLEAN, roster : BOOLEAN, input : Nat]]
  BY <1>1
<1>3. \A d \in Clients : /\ conn'[d].origin = conn[d].origin /\ conn'[d].roster = conn[d].roster
                         /\ conn'[d].input = conn[d].input /\ (conn[d].up => conn'[d].up)
  BY <1>1
<1>5. UNCHANGED <<clock, moves, window, begin, next, counts, seen, invalid>>  OBVIOUS
<1>6. UNCHANGED <<input, inputSent, stateSeq, applied, registered, frozen, stateTicks, sent>>  OBVIOUS
<1> QED BY <1>1, <1>2, <1>3, <1>5, <1>6, Quiet

LEMMA ReadyKeeps == ASSUME IInv, NEW c \in Clients, Ready(c) PROVE IInv'
<1> USE DEF Ready, planVars, metricsVars, clientVars, serverVars
<1>1. /\ up' = up /\ up \in [Clients -> BOOLEAN]
      /\ stage \in [Procs -> {"connecting", "waiting", "running", "done", "failed"}]
      /\ conn' = conn
      /\ conn \in [Clients -> [up : BOOLEAN, origin : BOOLEAN, roster : BOOLEAN, input : Nat]]
  BY DEF IInv, Types
<1>2. /\ stage' \in [Procs -> {"connecting", "waiting", "running", "done", "failed"}]
      /\ \A p \in Procs : stage'[p] = stage[p] \/ (stage[p] = "connecting" /\ stage'[p] = "waiting")
  BY <1>1
<1>5. UNCHANGED <<clock, moves, window, begin, next, counts, seen, invalid>>  OBVIOUS
<1>6. UNCHANGED <<input, inputSent, stateSeq, applied, registered, frozen, stateTicks, sent>>  OBVIOUS
<1> QED BY <1>1, <1>2, <1>5, <1>6, Quiet

LEMMA GiveUpKeeps == ASSUME IInv, GiveUp PROVE IInv'
<1> USE DEF GiveUp, planVars, metricsVars, clientVars, serverVars
<1>1. /\ up' = up /\ up \in [Clients -> BOOLEAN]
      /\ conn' = conn
      /\ conn \in [Clients -> [up : BOOLEAN, origin : BOOLEAN, roster : BOOLEAN, input : Nat]]
  BY DEF IInv, Types
<1>2. /\ stage' \in [Procs -> {"connecting", "waiting", "running", "done", "failed"}]
      /\ \A p \in Procs : stage'[p] = "failed"
  BY FailedIs
<1>5. UNCHANGED <<clock, moves, window, begin, next, counts, seen, invalid>>  OBVIOUS
<1>6. UNCHANGED <<input, inputSent, stateSeq, applied, registered, frozen, stateTicks, sent>>  OBVIOUS
<1> QED BY <1>1, <1>2, <1>5, <1>6, Quiet

LEMMA SentFrame ==
  ASSUME Types, MessageInv, SubmittedInv, DeliveredInv,
         UNCHANGED <<next, input, counts, seen, sent>>
  PROVE  MessageInv' /\ SubmittedInv' /\ DeliveredInv'
<1>1. \A p \in Procs : next'[p] \in Nat \ {0} /\ next[p] <= next'[p]  BY DEF Types
<1>2. \A c \in Clients : input'[c] \in Nat /\ input[c] <= input'[c]  BY DEF Types
<1>3. MessageInv'  BY <1>1, <1>2, MessageFrame
<1>4. InputsTaken' = InputsTaken /\ StatesTaken' = StatesTaken /\ \A p : Taken(p)' = Taken(p)
  BY TakenFrame
<1>5. SubmittedInv'  BY <1>4 DEF SubmittedInv
<1>6. DeliveredInv'  BY <1>4 DEF DeliveredInv
<1> QED BY <1>3, <1>5, <1>6

LEMMA RosterFrame ==
  ASSUME RosterExact, NothingInvalid, UNCHANGED <<registered, frozen, conn, invalid>>
  PROVE  RosterExact' /\ NothingInvalid'
BY DEF RosterExact, NothingInvalid

LEMMA ReadScheduleKeeps == ASSUME IInv, NEW p \in Procs, ReadSchedule(p) PROVE IInv'
<1> USE DEF ReadSchedule, metricsVars, clientVars, serverVars
<1>0. Types /\ LookedAt /\ NotBegun /\ DoneInv /\ SlotInv /\ MessageInv /\ InputInv
      /\ SubmittedInv /\ DeliveredInv /\ RosterExact /\ NothingInvalid  BY DEF IInv
<1>1. next[p] = 1
  <2>1. p # Server => p \in Clients  BY DEF Procs
  <2> QED BY <1>0, <2>1 DEF NotBegun
<1>2. UNCHANGED <<clock, moves, window, next, counts, seen, invalid>>
      /\ UNCHANGED <<up, input, inputSent, stateSeq, applied, conn, registered, frozen, stateTicks, sent>>
  OBVIOUS
<1>3. /\ begin'[p] = clock /\ stage'[p] = "running"
      /\ \A q \in Procs : q # p => begin'[q] = begin[q] /\ stage'[q] = stage[q]
      /\ begin' \in [Procs -> 0..MaxClock]
      /\ stage' \in [Procs -> {"connecting", "waiting", "running", "done", "failed"}]
  BY <1>0 DEF Types
<1>4. Types'  BY <1>0, <1>2, <1>3 DEF Types
<1>5. LookedAt'
  <2> SUFFICES ASSUME NEW q \in Procs, NEW n \in 1..(next[q] - 1)
               PROVE  Sched(q, begin'[q], n) <= clock /\ Sched(q, begin'[q], n) < Stop(window[q])
    BY <1>2 DEF LookedAt, Sched, Stop
  <2>1. q # p  BY <1>1
  <2> QED BY <1>0, <1>3, <2>1 DEF LookedAt
<1>6. NotBegun'  BY <1>0, <1>2, <1>3, Constants DEF NotBegun
<1>7. DoneInv'
  <2>1. \A q \in Procs : next'[q] \in Nat /\ next[q] <= next'[q]  BY <1>0, <1>2 DEF Types
  <2>2. \A q \in Procs : stage'[q] = "done" /\ (q = Server => frozen') =>
          /\ stage[q] = "done" /\ (q = Server => frozen)
          /\ begin'[q] = begin[q] /\ window'[q] = window[q]
    BY <1>2, <1>3
  <2> QED BY <1>0, <2>1, <2>2, DoneFrame
<1>8. SlotInv'
  <2>1. ASSUME NEW q \in Procs PROVE Accounted(q)' = Accounted(q)
    <3>1. CASE q = p
      <4>1. Accounted(p) = {}  BY <1>1, NothingAccounted
      <4>2. Accounted(p)' = {}  BY <1>1, <1>2 DEF Accounted, Measured
      <4> QED BY <3>1, <4>1, <4>2
    <3>2. CASE q # p  BY <1>2, <1>3, <3>2, AccountedFrame
    <3> QED BY <3>1, <3>2
  <2> QED BY <1>0, <1>2, <2>1, SlotFrame
<1>9. InputInv'
  <2> SUFFICES ASSUME NEW c \in Clients
               PROVE  /\ input[c] < next[c] /\ applied[c] <= input[c] /\ conn[c].input <= input[c]
                      /\ stateSeq[c] < next[Server]
                      /\ inputSent[c] # 0 => inputSent[c] = input[c]
                                             /\ window[c] <= Sched(c, begin'[c], input[c])
    BY <1>2 DEF InputInv, Sched
  <2>1. c \in Procs /\ input[c] \in Nat  BY <1>0, Constants DEF Types
  <2>2. CASE c = p
    <3>1. input[c] = 0  BY <1>0, <1>1, <2>1, <2>2 DEF InputInv
    <3>2. inputSent[c] = 0  BY <1>0, <3>1 DEF InputInv
    <3> QED BY <1>0, <3>2 DEF InputInv
  <2>3. CASE c # p  BY <1>0, <1>3, <2>1, <2>3 DEF InputInv
  <2> QED BY <2>2, <2>3
<1>10. MessageInv' /\ SubmittedInv' /\ DeliveredInv' /\ RosterExact' /\ NothingInvalid'
  BY <1>0, <1>2, SentFrame, RosterFrame
<1> QED BY <1>4, <1>5, <1>6, <1>7, <1>8, <1>9, <1>10 DEF IInv

LEMMA TakeWindowKeeps == ASSUME IInv, NEW p \in Procs, TakeWindow(p) PROVE IInv'
<1> USE DEF TakeWindow, metricsVars, clientVars, serverVars
<1>0. Types /\ LookedAt /\ NotBegun /\ DoneInv /\ SlotInv /\ MessageInv /\ InputInv
      /\ SubmittedInv /\ DeliveredInv /\ RosterExact /\ NothingInvalid  BY DEF IInv
<1>1. UNCHANGED <<clock, moves, stage, begin, next, counts, seen, invalid>>
      /\ UNCHANGED <<up, input, inputSent, stateSeq, applied, conn, registered, frozen, stateTicks, sent>>
  OBVIOUS
<1>2. /\ stage[p] = "running" /\ window[p] = Start /\ clock < Early /\ window'[p] = Early
      /\ \A q \in Procs : q # p => window'[q] = window[q]
      /\ window' \in [Procs -> {Start, Early}]
      /\ clock \in Nat
  BY <1>0, Constants DEF Types
<1>3. \A n \in 1..(next[p] - 1) : Sched(p, begin[p], n) < Early /\ Sched(p, begin[p], n) \in Nat
  <2>1. ASSUME NEW n \in 1..(next[p] - 1)
        PROVE  Sched(p, begin[p], n) < Early /\ Sched(p, begin[p], n) \in Nat
    <3>1. begin[p] \in Nat /\ n \in Nat \ {0}  BY <1>0, Constants DEF Types
    <3>2. Sched(p, begin[p], n) \in Nat  BY <3>1, SchedGrows
    <3>3. Sched(p, begin[p], n) <= clock  BY <1>0 DEF LookedAt
    <3> QED BY <1>2, <3>2, <3>3, Constants
  <2> QED BY <2>1
<1>4. Types'  BY <1>0, <1>1, <1>2 DEF Types
<1>5. LookedAt'
  <2> SUFFICES ASSUME NEW q \in Procs, NEW n \in 1..(next[q] - 1)
               PROVE  Sched(q, begin[q], n) <= clock /\ Sched(q, begin[q], n) < Stop(window'[q])
    BY <1>1 DEF LookedAt, Sched, Stop
  <2>1. Sched(q, begin[q], n) <= clock /\ Sched(q, begin[q], n) < Stop(window[q])
    BY <1>0 DEF LookedAt
  <2>2. CASE q = p
    <3>1. Stop(window'[p]) = Early + Duration  BY <1>2 DEF Stop
    <3>2. Sched(p, begin[p], n) < Early /\ Sched(p, begin[p], n) \in Nat  BY <1>3, <2>2
    <3> QED BY <2>1, <2>2, <3>1, <3>2, Constants
  <2> QED BY <1>2, <2>1, <2>2
<1>6. NotBegun'  BY <1>0, <1>1 DEF NotBegun
<1>7. DoneInv'
  <2>1. \A q \in Procs : next'[q] \in Nat /\ next[q] <= next'[q]  BY <1>0, <1>1 DEF Types
  <2>2. \A q \in Procs : stage'[q] = "done" /\ (q = Server => frozen') =>
          /\ stage[q] = "done" /\ (q = Server => frozen)
          /\ begin'[q] = begin[q] /\ window'[q] = window[q]
    BY <1>1, <1>2
  <2> QED BY <1>0, <2>1, <2>2, DoneFrame
<1>8. SlotInv'
  <2>1. ASSUME NEW q \in Procs PROVE Accounted(q)' = Accounted(q)
    <3>1. CASE q = p
      <4>1. \A n \in 1..(next[p] - 1) : ~InWindow(Start, Sched(p, begin[p], n))
                                        /\ ~InWindow(Early, Sched(p, begin[p], n))
        BY <1>3, Constants DEF InWindow
      <4>2. Accounted(p) = {n \in 1..(next[p] - 1) : InWindow(Start, Sched(p, begin[p], n))}
        BY <1>2 DEF Accounted, Measured
      <4>3. Accounted(p)' = {n \in 1..(next[p] - 1) : InWindow(Early, Sched(p, begin[p], n))}
        BY <1>1, <1>2 DEF Accounted, Measured, InWindow, Sched, Stop
      <4> QED BY <3>1, <4>1, <4>2, <4>3
    <3>2. CASE q # p  BY <1>1, <1>2, <3>2, AccountedFrame
    <3> QED BY <3>1, <3>2
  <2> QED BY <1>0, <1>1, <2>1, SlotFrame
<1>9. InputInv'
  <2> SUFFICES ASSUME NEW c \in Clients
               PROVE  /\ input[c] < next[c] /\ applied[c] <= input[c] /\ conn[c].input <= input[c]
                      /\ stateSeq[c] < next[Server]
                      /\ inputSent[c] # 0 => inputSent[c] = input[c]
                                             /\ window'[c] <= Sched(c, begin[c], input[c])
    BY <1>1 DEF InputInv, Sched
  <2>1. c \in Procs /\ input[c] \in Nat /\ inputSent[c] \in Nat /\ next[c] \in Nat
    BY <1>0, Constants DEF Types
  <2>2. input[c] < next[c]  BY <1>0 DEF InputInv
  <2>3. CASE c = p
    <3>1. inputSent[c] = 0
      <4> SUFFICES ASSUME inputSent[c] # 0 PROVE FALSE  OBVIOUS
      <4>1. inputSent[c] = input[c] /\ Start <= Sched(c, begin[c], input[c])
        BY <1>0, <1>2, <2>3 DEF InputInv
      <4>2. input[c] \in 1..(next[p] - 1)  BY <2>1, <2>2, <2>3, <4>1
      <4>3. Sched(p, begin[p], input[c]) < Early /\ Sched(p, begin[p], input[c]) \in Nat
        BY <1>3, <4>2
      <4> QED BY <2>3, <4>1, <4>3, Constants
    <3> QED BY <1>0, <3>1 DEF InputInv
  <2>4. CASE c # p  BY <1>0, <1>2, <2>1, <2>4 DEF InputInv
  <2> QED BY <2>3, <2>4
<1>10. MessageInv' /\ SubmittedInv' /\ DeliveredInv' /\ RosterExact' /\ NothingInvalid'
  BY <1>0, <1>1, SentFrame, RosterFrame
<1> QED BY <1>4, <1>5, <1>6, <1>7, <1>8, <1>9, <1>10 DEF IInv

LEMMA TickKeeps == ASSUME IInv, Tick PROVE IInv'
<1> USE DEF Tick, planVars, metricsVars, clientVars, serverVars
<1>0. Types /\ LookedAt /\ NotBegun /\ DoneInv /\ SlotInv /\ MessageInv /\ InputInv
      /\ SubmittedInv /\ DeliveredInv /\ RosterExact /\ NothingInvalid  BY DEF IInv
<1>1. UNCHANGED <<moves, stage, window, begin, next, counts, seen, invalid>>
      /\ UNCHANGED <<up, input, inputSent, stateSeq, applied, conn, registered, frozen, stateTicks, sent>>
  OBVIOUS
<1>2. clock \in Nat /\ clock' = clock + 1 /\ clock' \in 0..MaxClock  BY <1>0, Constants DEF Types
<1>4. Types'  BY <1>0, <1>1, <1>2 DEF Types
<1>5. LookedAt'
  <2> SUFFICES ASSUME NEW q \in Procs, NEW n \in 1..(next[q] - 1)
               PROVE  Sched(q, begin[q], n) <= clock + 1 /\ Sched(q, begin[q], n) < Stop(window[q])
    BY <1>1, <1>2 DEF LookedAt, Sched, Stop
  <2>1. Sched(q, begin[q], n) <= clock /\ Sched(q, begin[q], n) < Stop(window[q])
    BY <1>0 DEF LookedAt
  <2>2. begin[q] \in Nat /\ n \in Nat \ {0}  BY <1>0, Constants DEF Types
  <2>3. Sched(q, begin[q], n) \in Nat  BY <2>2, SchedGrows
  <2> QED BY <1>2, <2>1, <2>3
<1>6. NotBegun' /\ InputInv'  BY <1>0, <1>1 DEF NotBegun, InputInv, Sched
<1>7. DoneInv'
  <2>1. \A q \in Procs : next'[q] \in Nat /\ next[q] <= next'[q]  BY <1>0, <1>1 DEF Types
  <2> QED BY <1>0, <1>1, <2>1, DoneFrame
<1>8. SlotInv'  BY <1>0, <1>1, AccountedFrame, SlotFrame
<1>10. MessageInv' /\ SubmittedInv' /\ DeliveredInv' /\ RosterExact' /\ NothingInvalid'
  BY <1>0, <1>1, SentFrame, RosterFrame
<1> QED BY <1>4, <1>5, <1>6, <1>7, <1>8, <1>10 DEF IInv

LEMMA PlanFrame ==
  ASSUME Types, LookedAt, NotBegun, DoneInv, SlotInv,
         UNCHANGED <<clock, stage, window, begin, next, frozen, stateTicks>>,
         \A p \in Procs : counts'[p].slots = counts[p].slots
  PROVE  LookedAt' /\ NotBegun' /\ DoneInv' /\ SlotInv'
<1>1. LookedAt'  BY DEF LookedAt, Sched, Stop
<1>2. NotBegun'  BY DEF NotBegun
<1>3. DoneInv'
  <2>1. \A q \in Procs : next'[q] \in Nat /\ next[q] <= next'[q]  BY DEF Types
  <2> QED BY <2>1, DoneFrame
<1>4. SlotInv'  BY AccountedFrame, SlotFrame
<1> QED BY <1>1, <1>2, <1>3, <1>4

LEMMA ServerDisconnectedKeeps == ASSUME IInv, NEW c \in Clients, ServerDisconnected(c) PROVE IInv'
<1> USE DEF ServerDisconnected, planVars, metricsVars, clientVars
<1>0. Types /\ LookedAt /\ NotBegun /\ DoneInv /\ SlotInv /\ MessageInv /\ InputInv
      /\ SubmittedInv /\ DeliveredInv /\ RosterExact /\ NothingInvalid  BY DEF IInv
<1>1. UNCHANGED <<clock, moves, stage, window, begin, next, counts, seen, invalid>>
      /\ UNCHANGED <<up, input, inputSent, stateSeq, applied, frozen, stateTicks, sent>>
  OBVIOUS
<1>2. conn \in [Clients -> [up : BOOLEAN, origin : BOOLEAN, roster : BOOLEAN, input : Nat]]
  BY <1>0 DEF Types
<1>3. /\ conn' \in [Clients -> [up : BOOLEAN, origin : BOOLEAN, roster : BOOLEAN, input : Nat]]
      /\ \A d \in Clients : d # c => conn'[d] = conn[d]
      /\ conn'[c].up = FALSE /\ conn'[c].roster = FALSE /\ conn'[c].input = conn[c].input
      /\ conn'[c].origin <=> conn[c].origin /\ ~Leaves(c)
  BY <1>2
<1> DEFINE O == {d \in Clients : conn[d].origin}
<1>4. IsFiniteSet(O) /\ Cardinality(O) \in Nat
  <2>1. O \subseteq Clients  OBVIOUS
  <2> QED BY <2>1, Constants, FS_Subset, FS_CardinalityType
<1>5. registered = Cardinality(O)  BY <1>0 DEF RosterExact
<1>6. {d \in Clients : conn'[d].origin} = IF Leaves(c) THEN O \ {c} ELSE O
  <2>1. CASE Leaves(c)  BY <1>3, <2>1
  <2>2. CASE ~Leaves(c)  BY <1>3, <2>2
  <2> QED BY <2>1, <2>2
<1>7. Leaves(c) => c \in O  BY DEF Leaves
<1> HIDE DEF O
<1>8. registered' = Cardinality({d \in Clients : conn'[d].origin}) /\ registered' \in Nat
  <2>1. CASE Leaves(c)
    <3>1. Cardinality(O \ {c}) = Cardinality(O) - 1  BY <1>4, <1>7, <2>1, FS_RemoveElement
    <3>2. IsFiniteSet(O \ {c})  BY <1>4, FS_RemoveElement
    <3>3. Cardinality(O \ {c}) \in Nat  BY <3>2, FS_CardinalityType
    <3>4. registered' = registered - 1  BY <2>1
    <3> QED BY <1>5, <1>6, <2>1, <3>1, <3>3, <3>4
  <2>2. CASE ~Leaves(c)
    <3>1. registered' = registered  BY <2>2
    <3> QED BY <1>4, <1>5, <1>6, <2>2, <3>1
  <2> QED BY <2>1, <2>2
<1>9. RosterExact'
  <2>1. ASSUME frozen, NEW d \in Clients PROVE conn'[d].origin
    <3>1. conn[d].origin  BY <1>0, <2>1 DEF RosterExact
    <3>2. ~Leaves(c)  BY <2>1 DEF Leaves
    <3> QED BY <1>3, <3>1, <3>2
  <2>2. ASSUME NEW d \in Clients, conn'[d].roster PROVE conn'[d].origin /\ conn'[d].up
    <3>1. d # c  BY <1>3, <2>2
    <3>2. conn'[d] = conn[d]  BY <1>3, <3>1
    <3> QED BY <1>0, <2>2, <3>2 DEF RosterExact
  <2>3. frozen' => \A d \in Clients : conn'[d].origin
    <3> SUFFICES ASSUME frozen', NEW d \in Clients PROVE conn'[d].origin  OBVIOUS
    <3>1. frozen  BY <1>1
    <3> QED BY <2>1, <3>1
  <2>4. \A d \in Clients : conn'[d].roster => conn'[d].origin /\ conn'[d].up  BY <2>2
  <2> QED BY <1>8, <2>3, <2>4 DEF RosterExact
<1>10. Types'  BY <1>0, <1>1, <1>3, <1>8 DEF Types
<1>11. LookedAt' /\ NotBegun' /\ DoneInv' /\ SlotInv'  BY <1>0, <1>1, PlanFrame
<1>12. \A d \in Clients : conn'[d].input = conn[d].input  BY <1>3
<1>13. InputInv'  BY <1>0, <1>1, <1>12 DEF InputInv, Sched
<1>14. MessageInv' /\ SubmittedInv' /\ DeliveredInv'  BY <1>0, <1>1, SentFrame
<1>15. NothingInvalid'  BY <1>0, <1>1 DEF NothingInvalid
<1> QED BY <1>9, <1>10, <1>11, <1>13, <1>14, <1>15 DEF IInv

(* A delivery is counted once, and only of what was taken.                   *)
LEMMA DeliveredStep ==
  ASSUME Types, SubmittedInv, DeliveredInv, sent' = sent,
         NEW p \in Procs, NEW key \in Procs \X Nat, Delivered(p, key),
         p = Server => key \in InputsTaken,
         p # Server => key \in {<<Server, t[2]>> : t \in {u \in StatesTaken : u[1] = p}}
  PROVE  /\ SubmittedInv' /\ DeliveredInv'
         /\ counts' \in [Procs -> [slots : Nat, submitted : Nat, delivered : Nat]]
         /\ seen' \in [Procs -> SUBSET (Procs \X Nat)]
         /\ \A q \in Procs : counts'[q].slots = counts[q].slots
<1>1. /\ counts \in [Procs -> [slots : Nat, submitted : Nat, delivered : Nat]]
      /\ seen \in [Procs -> SUBSET (Procs \X Nat)]
  BY DEF Types
<1>2. /\ seen' \in [Procs -> SUBSET (Procs \X Nat)]
      /\ seen'[p] = seen[p] \cup {key}
      /\ \A q \in Procs : q # p => seen'[q] = seen[q]
  BY <1>1 DEF Delivered
<1>3. /\ counts'[p].delivered = IF key \in seen[p] THEN counts[p].delivered
                                                    ELSE counts[p].delivered + 1
      /\ \A q \in Procs : q # p => counts'[q] = counts[q]
      /\ counts'[p].slots = counts[p].slots /\ counts'[p].submitted = counts[p].submitted
  BY <1>1 DEF Delivered
<1>4. counts' \in [Procs -> [slots : Nat, submitted : Nat, delivered : Nat]]
  BY <1>1 DEF Delivered
<1>5. InputsTaken' = InputsTaken /\ StatesTaken' = StatesTaken /\ \A q : Taken(q)' = Taken(q)
  BY TakenFrame
<1>6. SubmittedInv'
  <2>1. \A q \in Procs : counts'[q].submitted = Cardinality(Taken(q))  BY <1>3 DEF SubmittedInv
  <2> QED BY <1>5, <2>1 DEF SubmittedInv
<1>7. ASSUME NEW q \in Procs
      PROVE  IsFiniteSet(seen'[q]) /\ counts'[q].delivered = Cardinality(seen'[q])
  <2>1. IsFiniteSet(seen[q]) /\ counts[q].delivered = Cardinality(seen[q])  BY DEF DeliveredInv
  <2>2. CASE q = p
    <3>1. IsFiniteSet(seen[q] \cup {key})
          /\ Cardinality(seen[q] \cup {key}) = IF key \in seen[q] THEN Cardinality(seen[q])
                                                                 ELSE Cardinality(seen[q]) + 1
      BY <2>1, FS_AddElement
    <3> QED BY <1>2, <1>3, <2>1, <2>2, <3>1
  <2>3. CASE q # p  BY <1>2, <1>3, <2>1, <2>3
  <2> QED BY <2>2, <2>3
<1>8. seen'[Server] \subseteq InputsTaken  BY <1>2, Constants DEF DeliveredInv
<1>9. ASSUME NEW c \in Clients
      PROVE  seen'[c] \subseteq {<<Server, t[2]>> : t \in {u \in StatesTaken : u[1] = c}}
  <2>1. seen[c] \subseteq {<<Server, t[2]>> : t \in {u \in StatesTaken : u[1] = c}}  BY DEF DeliveredInv
  <2>2. c \in Procs /\ c # Server  BY Constants
  <2>3. CASE c = p  BY <1>2, <2>1, <2>2, <2>3
  <2>4. CASE c # p  BY <1>2, <2>1, <2>2, <2>4
  <2> QED BY <2>3, <2>4
<1>10. DeliveredInv'  BY <1>5, <1>7, <1>8, <1>9 DEF DeliveredInv
<1> QED BY <1>2, <1>3, <1>4, <1>6, <1>10

LEMMA ServerReceivesKeeps == ASSUME IInv, NEW m \in sent, ServerReceives(m) PROVE IInv'
<1> USE DEF ServerReceives, planVars, clientVars
<1>0. Types /\ LookedAt /\ NotBegun /\ DoneInv /\ SlotInv /\ MessageInv /\ InputInv
      /\ SubmittedInv /\ DeliveredInv /\ RosterExact /\ NothingInvalid  BY DEF IInv
<1> DEFINE c == m.peer
<1>1. UNCHANGED <<clock, moves, stage, window, begin, next>>
      /\ UNCHANGED <<up, input, inputSent, stateSeq, applied, frozen, stateTicks, sent>>
  OBVIOUS
<1>2. m \in Message /\ c \in Clients /\ m.kind \in {"registration", "input"} /\ conn[c].up
  <2>1. m \in Message  BY <1>0 DEF Types
  <2> QED BY <2>1 DEF Message
<1>3. Registrable(c)
  <2>1. frozen => conn[c].origin  BY <1>0, <1>2 DEF RosterExact
  <2>2. conn[c].roster => conn[c].origin  BY <1>0, <1>2 DEF RosterExact
  <2> QED BY <2>1, <2>2 DEF Registrable
<1>4. /\ registered' = NowRegistered(c) /\ invalid' = invalid
      /\ m.kind = "input" =>
           /\ conn' = [Register(c) EXCEPT ![c].input = IF m.seq >= @ THEN m.seq ELSE @]
           /\ IF m.measured THEN Delivered(Server, <<c, m.seq>>) ELSE UNCHANGED <<counts, seen>>
      /\ m.kind = "registration" => conn' = Register(c) /\ UNCHANGED <<counts, seen>>
  <2>1. m.kind = "input" => Register(c)[c].input \in Nat /\ m.seq \in Nat
    BY <1>0, <1>2 DEF Types, Register, Message
  <2>2. \A i \in Nat, j \in Nat : Max({i, j}) = IF j >= i THEN j ELSE i  BY MaxOfTwo
  <2> QED BY <1>2, <1>3, <2>1, <2>2 DEF metricsVars
<1>5. conn \in [Clients -> [up : BOOLEAN, origin : BOOLEAN, roster : BOOLEAN, input : Nat]]
  BY <1>0 DEF Types
<1>6. m.kind = "input" => m.seq \in Nat /\ m.seq <= input[c]
  BY <1>0, <1>2 DEF Message, MessageInv, Placed
<1>7. /\ conn' \in [Clients -> [up : BOOLEAN, origin : BOOLEAN, roster : BOOLEAN, input : Nat]]
      /\ \A d \in Clients : d # c => conn'[d] = conn[d]
      /\ conn'[c].up = conn[c].up /\ conn'[c].origin = TRUE
      /\ conn'[c].input = conn[c].input \/ conn'[c].input <= input[c]
  <2> HIDE DEF c
  <2>1. /\ Register(c) \in [Clients -> [up : BOOLEAN, origin : BOOLEAN, roster : BOOLEAN, input : Nat]]
        /\ \A d \in Clients : d # c => Register(c)[d] = conn[d]
        /\ Register(c)[c].up = conn[c].up /\ Register(c)[c].origin = TRUE
        /\ Register(c)[c].input = conn[c].input
    BY <1>2, <1>5, ZenonT(40) DEF Register
  <2> DEFINE R == Register(c)
  <2> HIDE DEF R
  <2>2. CASE m.kind = "registration"
    <3>1. conn' = R  BY <1>4, <2>2 DEF R
    <3> QED BY <2>1, <3>1 DEF R
  <2>3. CASE m.kind = "input"
    <3>1. conn' = [R EXCEPT ![c].input = IF m.seq >= @ THEN m.seq ELSE @]  BY <1>4, <2>3 DEF R
    <3>2. m.seq \in Nat /\ m.seq <= input[c]  BY <1>6, <2>3
    <3>3. R \in [Clients -> [up : BOOLEAN, origin : BOOLEAN, roster : BOOLEAN, input : Nat]]
      BY <2>1 DEF R
    <3>4. \A d \in Clients : d # c => conn'[d] = R[d]  BY <3>1, <3>3
    <3>5. /\ conn'[c].up = R[c].up /\ conn'[c].origin = R[c].origin
          /\ conn'[c].input = R[c].input \/ conn'[c].input = m.seq
      BY <1>2, <3>1, <3>3
    <3>6. conn' \in [Clients -> [up : BOOLEAN, origin : BOOLEAN, roster : BOOLEAN, input : Nat]]
      BY <3>1, <3>2, <3>3, ZenonT(40)
    <3> QED BY <2>1, <3>2, <3>4, <3>5, <3>6 DEF R
  <2> QED BY <1>2, <2>2, <2>3
<1> DEFINE O == {d \in Clients : conn[d].origin}
<1>8. IsFiniteSet(O) /\ Cardinality(O) \in Nat
  <2>1. O \subseteq Clients  OBVIOUS
  <2> QED BY <2>1, Constants, FS_Subset, FS_CardinalityType
<1>9. registered = Cardinality(O)  BY <1>0 DEF RosterExact
<1>10. {d \in Clients : conn'[d].origin} = O \cup {c}
  <2> HIDE DEF c
  <2> QED BY <1>2, <1>7
<1>11. registered' = Cardinality({d \in Clients : conn'[d].origin}) /\ registered' \in Nat
  <2>1. conn[c].origin <=> c \in O  BY <1>2
  <2> HIDE DEF c, O
  <2>2. Cardinality(O \cup {c}) = IF c \in O THEN Cardinality(O) ELSE Cardinality(O) + 1
    BY <1>8, FS_AddElement
  <2>3. registered' = IF c \in O THEN registered ELSE registered + 1
    BY <1>4, <2>1 DEF NowRegistered
  <2>4. registered' = Cardinality(O \cup {c}) /\ registered' \in Nat  BY <1>8, <1>9, <2>2, <2>3
  <2> QED BY <1>10, <2>4
<1>12. RosterExact'
  <2> HIDE DEF c
  <2>1. frozen' => \A d \in Clients : conn'[d].origin
    <3> SUFFICES ASSUME frozen, NEW d \in Clients PROVE conn'[d].origin  BY <1>1
    <3>1. conn[d].origin  BY <1>0 DEF RosterExact
    <3> QED BY <1>7, <3>1
  <2>2. \A d \in Clients : conn'[d].roster => conn'[d].origin /\ conn'[d].up
    <3> SUFFICES ASSUME NEW d \in Clients, conn'[d].roster PROVE conn'[d].origin /\ conn'[d].up
      OBVIOUS
    <3>1. conn[d].roster => conn[d].origin /\ conn[d].up  BY <1>0 DEF RosterExact
    <3>2. CASE d = c  BY <1>2, <1>7, <3>2
    <3>3. CASE d # c
      <4>1. conn'[d] = conn[d]  BY <1>7, <3>3
      <4> QED BY <3>1, <4>1
    <3> QED BY <3>2, <3>3
  <2> QED BY <1>11, <2>1, <2>2 DEF RosterExact
<1>13. /\ SubmittedInv' /\ DeliveredInv'
       /\ counts' \in [Procs -> [slots : Nat, submitted : Nat, delivered : Nat]]
       /\ seen' \in [Procs -> SUBSET (Procs \X Nat)]
       /\ \A q \in Procs : counts'[q].slots = counts[q].slots
  <2>1. CASE m.kind = "input" /\ m.measured
    <3>1. m \in [kind : {"input"}, peer : Clients, seq : Nat, measured : BOOLEAN]
      BY <1>2, <2>1 DEF Message
    <3>2. m = Input(c, m.seq, TRUE)  BY <2>1, <3>1 DEF Input
    <3>3. <<c, m.seq>> \in InputsTaken  BY <3>1, <3>2 DEF InputsTaken
    <3>4. <<c, m.seq>> \in Procs \X Nat /\ Server \in Procs  BY <3>1, Constants
    <3>5. Delivered(Server, <<c, m.seq>>)  BY <1>4, <2>1
    <3> HIDE DEF c
    <3> QED BY <1>0, <1>1, <3>3, <3>4, <3>5, DeliveredStep
  <2>2. CASE ~(m.kind = "input" /\ m.measured)
    <3>1. UNCHANGED <<counts, seen>>  BY <1>2, <1>4, <2>2
    <3> QED BY <1>0, <1>1, <3>1, SentFrame DEF Types
  <2> QED BY <2>1, <2>2
<1>14. Types'  BY <1>0, <1>1, <1>4, <1>7, <1>11, <1>13 DEF Types
<1>15. LookedAt' /\ NotBegun' /\ DoneInv' /\ SlotInv'  BY <1>0, <1>1, <1>13, PlanFrame
<1>16. \A d \in Clients : conn'[d].input <= input[d]
  <2> SUFFICES ASSUME NEW d \in Clients PROVE conn'[d].input <= input[d]  OBVIOUS
  <2>1. conn[d].input <= input[d]  BY <1>0 DEF InputInv
  <2> HIDE DEF c
  <2> QED BY <1>7, <2>1
<1>17. InputInv'  BY <1>0, <1>1, <1>16 DEF InputInv, Sched
<1>18. MessageInv'
  <2>1. \A p \in Procs : next'[p] \in Nat \ {0} /\ next[p] <= next'[p]  BY <1>0, <1>1 DEF Types
  <2>2. \A d \in Clients : input'[d] \in Nat /\ input[d] <= input'[d]  BY <1>0, <1>1 DEF Types
  <2> QED BY <1>0, <1>1, <2>1, <2>2, MessageFrame
<1>19. NothingInvalid'  BY <1>0, <1>4 DEF NothingInvalid
<1> QED BY <1>12, <1>13, <1>14, <1>15, <1>17, <1>18, <1>19 DEF IInv

LEMMA ClientReceivesKeeps == ASSUME IInv, NEW m \in sent, ClientReceives(m) PROVE IInv'
<1> USE DEF ClientReceives, planVars, serverVars
<1>0. Types /\ LookedAt /\ NotBegun /\ DoneInv /\ SlotInv /\ MessageInv /\ InputInv
      /\ SubmittedInv /\ DeliveredInv /\ RosterExact /\ NothingInvalid  BY DEF IInv
<1> DEFINE c == m.peer
<1>1. UNCHANGED <<clock, moves, stage, window, begin, next>>
      /\ UNCHANGED <<up, input, inputSent, conn, registered, frozen, stateTicks, sent>>
  OBVIOUS
<1>2. m \in [kind : {"state"}, peer : Clients, seq : Nat, measured : BOOLEAN, applied : Nat]
  <2>1. m \in Message  BY <1>0 DEF Types
  <2> QED BY <2>1 DEF Message
<1>3. c \in Clients /\ c \in Procs /\ c # Server /\ m.seq \in Nat /\ m.applied \in Nat
      /\ m.measured \in BOOLEAN
  BY <1>2, Constants
<1>4. m.seq < next[Server] /\ m.applied <= input[c]
  <2>1. m.seq \in 1..(next[Server] - 1) /\ m.applied <= input[c]  BY <1>0, <1>2 DEF MessageInv, Placed
  <2>2. next[Server] \in Nat  BY <1>0, Constants DEF Types
  <2> QED BY <2>1, <2>2
<1>5. stateSeq \in [Clients -> Nat] /\ applied \in [Clients -> Nat] /\ input \in [Clients -> Nat]
      /\ stateSeq[c] \in Nat /\ applied[c] \in Nat /\ input[c] \in Nat
  BY <1>0, <1>3 DEF Types
<1>6. ~TellsOfUnsent(c, m)  BY <1>3, <1>4, <1>5 DEF TellsOfUnsent
<1>7. /\ invalid' = invalid
      /\ m.measured => /\ stateSeq' = [stateSeq EXCEPT ![c] = Max({@, m.seq})]
                       /\ applied' = [applied EXCEPT ![c] = Max({@, m.applied})]
                       /\ Delivered(c, <<Server, m.seq>>)
      /\ ~m.measured => UNCHANGED <<counts, seen, stateSeq, applied>>
  BY <1>6 DEF metricsVars
<1>8. /\ stateSeq' \in [Clients -> Nat] /\ applied' \in [Clients -> Nat]
      /\ \A d \in Clients : d # c => stateSeq'[d] = stateSeq[d] /\ applied'[d] = applied[d]
      /\ stateSeq'[c] = stateSeq[c] \/ stateSeq'[c] = m.seq
      /\ applied'[c] = applied[c] \/ applied'[c] = m.applied
  <2>1. CASE ~m.measured  BY <1>5, <1>7, <2>1
  <2>2. CASE m.measured
    <3> DEFINE s == Max({stateSeq[c], m.seq})
               a == Max({applied[c], m.applied})
    <3>1. s \in Nat /\ (s = stateSeq[c] \/ s = m.seq)  BY <1>3, <1>5, MaxOfTwo
    <3>2. a \in Nat /\ (a = applied[c] \/ a = m.applied)  BY <1>3, <1>5, MaxOfTwo
    <3>3. stateSeq' = [stateSeq EXCEPT ![c] = s] /\ applied' = [applied EXCEPT ![c] = a]
      BY <1>7, <2>2
    <3> HIDE DEF s, a, c
    <3> QED BY <1>3, <1>5, <3>1, <3>2, <3>3
  <2> QED BY <1>3, <2>1, <2>2
<1>9. /\ SubmittedInv' /\ DeliveredInv'
      /\ counts' \in [Procs -> [slots : Nat, submitted : Nat, delivered : Nat]]
      /\ seen' \in [Procs -> SUBSET (Procs \X Nat)]
      /\ \A q \in Procs : counts'[q].slots = counts[q].slots
  <2>1. CASE m.measured
    <3>1. m = StateOf(c, m.seq, TRUE, m.applied)  BY <1>2, <2>1 DEF StateOf
    <3>2. <<c, m.seq>> \in StatesTaken  BY <1>3, <3>1 DEF StatesTaken
    <3>3. <<Server, m.seq>> \in {<<Server, t[2]>> : t \in {u \in StatesTaken : u[1] = c}}
      <4> HIDE DEF c
      <4>1. <<c, m.seq>> \in {u \in StatesTaken : u[1] = c}  BY <3>2
      <4> QED BY <4>1
    <3>4. <<Server, m.seq>> \in Procs \X Nat  BY <1>3, Constants
    <3>5. Delivered(c, <<Server, m.seq>>)  BY <1>7, <2>1
    <3> HIDE DEF c
    <3> QED BY <1>0, <1>1, <1>3, <3>3, <3>4, <3>5, DeliveredStep
  <2>2. CASE ~m.measured
    <3>1. UNCHANGED <<counts, seen>>  BY <1>7, <2>2
    <3> QED BY <1>0, <1>1, <3>1, SentFrame DEF Types
  <2> QED BY <1>3, <2>1, <2>2
<1>14. Types'  BY <1>0, <1>1, <1>7, <1>8, <1>9 DEF Types
<1>15. LookedAt' /\ NotBegun' /\ DoneInv' /\ SlotInv'  BY <1>0, <1>1, <1>9, PlanFrame
<1>16. ASSUME NEW d \in Clients PROVE stateSeq'[d] < next[Server] /\ applied'[d] <= input[d]
  <2>1. stateSeq[d] < next[Server] /\ applied[d] <= input[d]  BY <1>0 DEF InputInv
  <2> HIDE DEF c
  <2> QED BY <1>4, <1>8, <2>1
<1>17. InputInv'  BY <1>0, <1>1, <1>16 DEF InputInv, Sched
<1>18. MessageInv'
  <2>1. \A p \in Procs : next'[p] \in Nat \ {0} /\ next[p] <= next'[p]  BY <1>0, <1>1 DEF Types
  <2>2. \A d \in Clients : input'[d] \in Nat /\ input[d] <= input'[d]  BY <1>0, <1>1 DEF Types
  <2> QED BY <1>0, <1>1, <2>1, <2>2, MessageFrame
<1>19. RosterExact' /\ NothingInvalid'  BY <1>0, <1>1, <1>7, RosterFrame
<1> QED BY <1>9, <1>14, <1>15, <1>17, <1>18, <1>19 DEF IInv

-----------------------------------------------------------------------------
(* Slots are looked at                                                      *)

(* What a process that looks at its due slots leaves of the plan part.       *)
LEMMA PlanStep ==
  ASSUME Types, LookedAt, SlotInv,
         NEW p \in Procs, NEW b \in 0..MaxClock, NEW limit \in Nat,
         b = begin[p] \/ next[p] = 1, limit <= clock, limit < Stop(window[p]),
         UNCHANGED <<clock, window>>,
         begin' \in [Procs -> 0..MaxClock], begin'[p] = b,
         \A q \in Procs : q # p => begin'[q] = begin[q],
         next' = [next EXCEPT ![p] = @ + Cardinality(Due(p, b, limit))],
         \A q \in Procs : q # p => counts'[q].slots = counts[q].slots,
         counts'[p].slots = counts[p].slots
           + Cardinality(Targets(p) \X Measured(p, b, Due(p, b, limit))),
         stateTicks' = IF p = Server
                       THEN stateTicks + Cardinality(Measured(p, b, Due(p, b, limit)))
                       ELSE stateTicks
  PROVE  /\ next' \in [Procs -> Nat \ {0}] /\ LookedAt' /\ SlotInv' /\ stateTicks' \in Nat
         /\ \A q \in Procs : next[q] <= next'[q]
         /\ \A q \in Procs : q # p => next'[q] = next[q]
         /\ Due(p, b, limit) = next[p]..(next'[p] - 1)
         /\ IsFiniteSet(Measured(p, b, Due(p, b, limit)))
         /\ IsFiniteSet(Due(p, b, limit))
<1> DEFINE D == Due(p, b, limit)
           M == Measured(p, b, D)
<1>1. b \in Nat /\ next[p] \in Nat \ {0} /\ next \in [Procs -> Nat \ {0}]
  BY Constants DEF Types
<1>2. IsFiniteSet(D) /\ Cardinality(D) \in Nat
      /\ \A n \in Nat \ {0} : n >= next[p] => (n \in D <=> Sched(p, b, n) <= limit)
  BY <1>1, DueSlots
<1>3. next'[p] = next[p] + Cardinality(D) /\ \A q \in Procs : q # p => next'[q] = next[q]
  BY <1>1
<1>4. /\ next'[p] \in Nat \ {0} /\ next'[p] >= next[p]
      /\ \A n \in 1..(next'[p] - 1) : n < next[p] \/ n \in D
      /\ D = next[p]..(next'[p] - 1)
      /\ IsFiniteSet(M)
      /\ Accounted(p)' = Accounted(p) \cup M
      /\ Accounted(p) \cap M = {}
  BY <1>1, <1>3, Advance
<1>5. next' \in [Procs -> Nat \ {0}]
  <2> HIDE DEF D
  <2> QED BY <1>1, <1>2, <1>3, <1>4 DEF D
<1>6. \A q \in Procs : next[q] <= next'[q]
  <2> SUFFICES ASSUME NEW q \in Procs PROVE next[q] <= next'[q]  OBVIOUS
  <2>1. next[q] \in Nat  BY <1>1
  <2> HIDE DEF D, M
  <2> QED BY <1>3, <1>4, <2>1
<1>7. LookedAt'
  <2> SUFFICES ASSUME NEW q \in Procs, NEW n \in 1..(next'[q] - 1)
               PROVE  Sched(q, begin'[q], n) <= clock /\ Sched(q, begin'[q], n) < Stop(window[q])
    BY DEF LookedAt, Sched, Stop
  <2>1. CASE q # p
    <3>1. n \in 1..(next[q] - 1)  BY <1>3, <2>1
    <3> QED BY <2>1, <3>1 DEF LookedAt
  <2>2. CASE q = p
    <3>1. n \in Nat \ {0}  BY <1>4, <2>2
    <3>2. CASE n < next[p]
      <4>1. n \in 1..(next[p] - 1)  BY <1>1, <3>1, <3>2
      <4>2. next[p] # 1  BY <1>1, <4>1
      <4>3. begin'[q] = begin[q]  BY <2>2, <4>2
      <4> QED BY <2>2, <4>1, <4>3 DEF LookedAt
    <3>3. CASE n \in D
      <4>1. Sched(p, b, n) <= limit /\ Sched(p, b, n) \in Nat
        <5>1. n >= next[p]  BY <1>4, <3>3
        <5> QED BY <1>1, <1>2, <3>1, <3>3, <5>1, SchedGrows
      <4>2. clock \in Nat /\ Stop(window[p]) \in Nat
        <5>1. window[p] \in {Start, Early} /\ clock \in Nat  BY Constants DEF Types
        <5> QED BY <5>1, Constants DEF Stop
      <4> HIDE DEF D
      <4> QED BY <2>2, <4>1, <4>2
    <3> QED BY <1>4, <2>2, <3>2, <3>3
  <2> QED BY <2>1, <2>2
<1>8. SlotInv' /\ stateTicks' \in Nat
  <2>1. IsFiniteSet(Accounted(p)) /\ IsFiniteSet(Targets(p))  BY <1>1, Finite
  <2>2. Cardinality(Targets(p) \X Accounted(p)') =
          Cardinality(Targets(p) \X Accounted(p)) + Cardinality(Targets(p) \X M)
    <3> HIDE DEF M
    <3> QED BY <1>4, <2>1, ProductGrows
  <2>3. Cardinality(Accounted(p)') = Cardinality(Accounted(p)) + Cardinality(M)
    <3> HIDE DEF M
    <3> QED BY <1>4, <2>1, DisjointCard
  <2>4. \A q \in Procs : q # p => Accounted(q)' = Accounted(q)
    BY <1>3, AccountedFrame
  <2>5. ASSUME NEW q \in Procs
        PROVE  counts'[q].slots = Cardinality(Targets(q) \X Accounted(q)')
    <3>1. counts[q].slots = Cardinality(Targets(q) \X Accounted(q))  BY DEF SlotInv
    <3> HIDE DEF M
    <3>2. CASE q = p  BY <2>2, <3>1, <3>2 DEF M
    <3>3. CASE q # p  BY <2>4, <3>1, <3>3
    <3> QED BY <3>2, <3>3
  <2>6. stateTicks' = Cardinality(Accounted(Server)')
    <3>1. stateTicks = Cardinality(Accounted(Server)) /\ Server \in Procs  BY Constants DEF SlotInv
    <3>2. CASE p = Server  BY <2>3, <3>1, <3>2
    <3>3. CASE p # Server  BY <2>4, <3>1, <3>3
    <3> QED BY <3>2, <3>3
  <2>7. \A q : Targets(q)' = Targets(q)  BY DEF Targets
  <2>8. stateTicks' \in Nat
    <3>1. stateTicks \in Nat /\ Cardinality(M) \in Nat  BY <1>4, FS_CardinalityType DEF Types
    <3> HIDE DEF M
    <3> QED BY <3>1 DEF M
  <2> QED BY <2>5, <2>6, <2>7, <2>8 DEF SlotInv
<1> QED BY <1>2, <1>3, <1>4, <1>5, <1>6, <1>7, <1>8

LEMMA AccountStep ==
  ASSUME Types, NEW p \in Procs, NEW s \in Nat, NEW u \in Nat,
         counts' = [counts EXCEPT ![p] = Account(p, s, u)]
  PROVE  /\ counts' \in [Procs -> [slots : Nat, submitted : Nat, delivered : Nat]]
         /\ counts'[p].slots = counts[p].slots + s
         /\ counts'[p].submitted = counts[p].submitted + u
         /\ counts'[p].delivered = counts[p].delivered
         /\ \A q \in Procs : q # p => counts'[q] = counts[q]
<1>1. counts \in [Procs -> [slots : Nat, submitted : Nat, delivered : Nat]]  BY DEF Types
<1>2. /\ Account(p, s, u) \in [slots : Nat, submitted : Nat, delivered : Nat]
      /\ Account(p, s, u).slots = counts[p].slots + s
      /\ Account(p, s, u).submitted = counts[p].submitted + u
      /\ Account(p, s, u).delivered = counts[p].delivered
  <2> DEFINE r == counts[p]
  <2>1. r \in [slots : Nat, submitted : Nat, delivered : Nat]  BY <1>1
  <2>2. Account(p, s, u) = [r EXCEPT !.slots = @ + s, !.submitted = @ + u]  BY DEF Account
  <2> HIDE DEF r
  <2>3. r.slots \in Nat /\ r.submitted \in Nat /\ r.delivered \in Nat
        /\ DOMAIN r = {"slots", "submitted", "delivered"}
    BY <2>1
  <2>4. Account(p, s, u)
          = [slots |-> r.slots + s, submitted |-> r.submitted + u, delivered |-> r.delivered]
    BY <2>1, <2>2
  <2> QED BY <2>3, <2>4 DEF r
<1> QED BY <1>1, <1>2

(* What was taken stays taken, so the deliveries are covered by it.          *)
LEMMA DeliveredGrows ==
  ASSUME Types, DeliveredInv, seen' = seen,
         \A p \in Procs : counts'[p].delivered = counts[p].delivered,
         InputsTaken \subseteq InputsTaken', StatesTaken \subseteq StatesTaken'
  PROVE  DeliveredInv'
<1>1. \A p \in Procs : IsFiniteSet(seen'[p]) /\ counts'[p].delivered = Cardinality(seen'[p])
  BY DEF DeliveredInv
<1>2. seen'[Server] \subseteq InputsTaken'  BY DEF DeliveredInv
<1>3. ASSUME NEW c \in Clients
      PROVE  seen'[c] \subseteq {<<Server, t[2]>> : t \in {u \in StatesTaken' : u[1] = c}}
  <2>1. seen[c] \subseteq {<<Server, t[2]>> : t \in {u \in StatesTaken : u[1] = c}}
    BY DEF DeliveredInv
  <2>2. {u \in StatesTaken : u[1] = c} \subseteq {u \in StatesTaken' : u[1] = c}  OBVIOUS
  <2> QED BY <2>1, <2>2
<1> QED BY <1>1, <1>2, <1>3 DEF DeliveredInv

LEMMA TakenWithin ==
  ASSUME Types, MessageInv
  PROVE  /\ \A t \in InputsTaken : t[1] \in Clients /\ t[2] \in 1..(next[t[1]] - 1)
         /\ \A t \in StatesTaken : t[1] \in Clients /\ t[2] \in 1..(next[Server] - 1)
         /\ \A p \in Procs : IsFiniteSet(Taken(p)) /\ Cardinality(Taken(p)) \in Nat
<1>1. ASSUME NEW t \in InputsTaken PROVE t[1] \in Clients /\ t[2] \in 1..(next[t[1]] - 1)
  <2>1. t[1] \in Clients /\ Input(t[1], t[2], TRUE) \in sent  BY DEF InputsTaken
  <2>2. Placed(Input(t[1], t[2], TRUE))  BY <2>1 DEF MessageInv
  <2> QED BY <2>1, <2>2 DEF Placed, Input
<1>2. ASSUME NEW t \in StatesTaken PROVE t[1] \in Clients /\ t[2] \in 1..(next[Server] - 1)
  <2>1. PICK a \in Nat : t[1] \in Clients /\ StateOf(t[1], t[2], TRUE, a) \in sent
    BY DEF StatesTaken
  <2>2. Placed(StateOf(t[1], t[2], TRUE, a))  BY <2>1 DEF MessageInv
  <2> QED BY <2>1, <2>2 DEF Placed, StateOf
<1>3. ASSUME NEW p \in Procs PROVE IsFiniteSet(Taken(p)) /\ Cardinality(Taken(p)) \in Nat
  <2>1. \A q \in Procs : next[q] \in Nat  BY DEF Types
  <2>2. CASE p = Server
    <3> DEFINE B == 1..(next[Server] - 1)
    <3>1. IsFiniteSet(B)  BY <2>1, Constants, FS_Interval
    <3>2. IsFiniteSet(Clients \X B)
      <4> HIDE DEF B
      <4> QED BY <3>1, Constants, FS_Product
    <3>3. StatesTaken \subseteq Clients \X Nat  BY DEF StatesTaken
    <3>4. StatesTaken \subseteq Clients \X B  BY <1>2, <3>3
    <3>5. IsFiniteSet(StatesTaken)
      <4> HIDE DEF B
      <4> QED BY <3>2, <3>4, FS_Subset
    <3> QED BY <2>2, <3>5, FS_CardinalityType DEF Taken
  <2>3. CASE p # Server
    <3> DEFINE B == 1..(next[p] - 1)
    <3>1. IsFiniteSet(B)  BY <2>1, FS_Interval
    <3>2. IsFiniteSet({p})  BY FS_Singleton
    <3>3. IsFiniteSet({p} \X B)
      <4> HIDE DEF B
      <4> QED BY <3>1, <3>2, FS_Product
    <3>4. Taken(p) = {t \in InputsTaken : t[1] = p}  BY <2>3 DEF Taken
    <3>5. InputsTaken \subseteq Clients \X Nat  BY DEF InputsTaken
    <3>6. Taken(p) \subseteq {p} \X B  BY <1>1, <3>4, <3>5
    <3>7. IsFiniteSet(Taken(p))
      <4> HIDE DEF B
      <4> QED BY <3>3, <3>6, FS_Subset
    <3> QED BY <3>7, FS_CardinalityType
  <2> QED BY <2>2, <2>3
<1> QED BY <1>1, <1>2, <1>3

LEMMA StopType ==
  ASSUME Types, NEW p \in Procs
  PROVE  /\ window[p] \in Nat /\ Stop(window[p]) \in Nat /\ Stop(window[p]) >= 1
         /\ window[p] <= Stop(window[p]) /\ Stop(window[p]) <= DrainUntil(window[p])
         /\ Stop(window[p]) - 1 \in Nat /\ DrainUntil(window[p]) \in Nat
         /\ clock \in Nat /\ begin[p] \in 0..MaxClock /\ begin[p] \in Nat /\ next[p] \in Nat \ {0}
<1>0. window[p] \in {Start, Early} /\ clock \in 0..MaxClock /\ begin[p] \in 0..MaxClock
      /\ next[p] \in Nat \ {0}
  BY DEF Types
<1>1. window[p] \in Nat /\ clock \in Nat /\ begin[p] \in Nat
  BY <1>0, Constants
<1>2. Stop(window[p]) = window[p] + Duration /\ DrainUntil(window[p]) = window[p] + Duration + Drain
  BY DEF Stop, DrainUntil
<1> QED BY <1>0, <1>1, <1>2, Constants

LEMMA CutoffType ==
  ASSUME Types, NEW p \in Procs
  PROVE  Cutoff(p) \in Nat /\ Cutoff(p) <= clock /\ Cutoff(p) < Stop(window[p])
BY StopType DEF Cutoff

LEMMA DoneStep ==
  ASSUME Types, NEW p \in Procs, window' = window, begin' = begin,
         NEW limit \in Nat, limit = Stop(window[p]) - 1,
         next' = [next EXCEPT ![p] = @ + Cardinality(Due(p, begin[p], limit))],
         Due(p, begin[p], limit) = next[p]..(next'[p] - 1), next'[p] \in Nat
  PROVE  \A n \in Nat \ {0} : Sched(p, begin[p], n) < Stop(window[p]) => n < next'[p]
<1> SUFFICES ASSUME NEW n \in Nat \ {0}, Sched(p, begin[p], n) < Stop(window[p])
             PROVE  n < next'[p]
  OBVIOUS
<1>1. begin[p] \in Nat /\ next[p] \in Nat \ {0} /\ Stop(window[p]) \in Nat  BY StopType
<1>2. Sched(p, begin[p], n) \in Nat  BY <1>1, SchedGrows
<1>3. Sched(p, begin[p], n) <= limit  BY <1>1, <1>2
<1>4. n < next[p] \/ n \in Due(p, begin[p], limit)
  <2>1. n >= next[p] => n \in Due(p, begin[p], limit)  BY <1>1, <1>3, DueSlots
  <2> QED BY <1>1, <2>1
<1>5. next[p] <= next'[p]
  <2>1. Cardinality(Due(p, begin[p], limit)) \in Nat  BY <1>1, DueSlots
  <2>2. next'[p] = next[p] + Cardinality(Due(p, begin[p], limit))  BY DEF Types
  <2> QED BY <1>1, <2>1, <2>2
<1> QED BY <1>1, <1>4, <1>5

LEMMA ClientDoneKeeps == ASSUME IInv, NEW c \in Clients, ClientDone(c) PROVE IInv'
<1> USE DEF ClientDone, clientVars, serverVars
<1>0. Types /\ LookedAt /\ NotBegun /\ DoneInv /\ SlotInv /\ MessageInv /\ InputInv
      /\ SubmittedInv /\ DeliveredInv /\ RosterExact /\ NothingInvalid  BY DEF IInv
<1>1. c \in Procs /\ c # Server  BY Constants
<1> DEFINE limit == Stop(window[c]) - 1
           D == Due(c, begin[c], limit)
           M == Measured(c, begin[c], D)
<1>2. UNCHANGED <<clock, moves, window, begin, seen, invalid>>
      /\ UNCHANGED <<up, input, inputSent, stateSeq, applied, conn, registered, frozen, stateTicks, sent>>
  OBVIOUS
<1>3. limit \in Nat /\ limit <= clock /\ limit < Stop(window[c]) /\ begin[c] \in 0..MaxClock
      /\ next[c] \in Nat \ {0} /\ begin[c] \in Nat
  BY <1>0, <1>1, StopType
<1>4. next' = [next EXCEPT ![c] = @ + Cardinality(D)]
      /\ counts' = [counts EXCEPT ![c] = Account(c, Cardinality(M), 0)]
  BY DEF Unsent
<1> HIDE DEF limit
<1>5. IsFiniteSet(D) /\ IsFiniteSet(M)
  <2>1. IsFiniteSet(D)  BY <1>1, <1>3, DueSlots
  <2>2. M \subseteq D  BY DEF Measured
  <2> HIDE DEF D, M
  <2> QED BY <2>1, <2>2, FS_Subset
<1>6. Cardinality(M) \in Nat /\ Cardinality({c} \X M) = Cardinality(M)
  BY <1>5, FS_CardinalityType, ProductOfOne
<1>7. /\ counts' \in [Procs -> [slots : Nat, submitted : Nat, delivered : Nat]]
      /\ counts'[c].slots = counts[c].slots + Cardinality(M)
      /\ counts'[c].submitted = counts[c].submitted + 0
      /\ counts'[c].delivered = counts[c].delivered
      /\ \A q \in Procs : q # c => counts'[q] = counts[q]
  <2> DEFINE k == Cardinality(M)
  <2>1. k \in Nat /\ 0 \in Nat /\ counts' = [counts EXCEPT ![c] = Account(c, k, 0)]  BY <1>4, <1>6
  <2> HIDE DEF k
  <2>2. /\ counts' \in [Procs -> [slots : Nat, submitted : Nat, delivered : Nat]]
        /\ counts'[c].slots = counts[c].slots + k
        /\ counts'[c].submitted = counts[c].submitted + 0
        /\ counts'[c].delivered = counts[c].delivered
        /\ \A q \in Procs : q # c => counts'[q] = counts[q]
    BY <1>0, <1>1, <2>1, AccountStep
  <2> QED BY <2>2 DEF k
<1>8. /\ next' \in [Procs -> Nat \ {0}] /\ LookedAt' /\ SlotInv'
      /\ \A q \in Procs : next[q] <= next'[q]
      /\ \A q \in Procs : q # c => next'[q] = next[q]
      /\ D = next[c]..(next'[c] - 1)
  <2>1. counts'[c].slots = counts[c].slots + Cardinality(Targets(c) \X M)
    BY <1>1, <1>6, <1>7 DEF Targets
  <2>2. \A q \in Procs : q # c => counts'[q].slots = counts[q].slots  BY <1>7
  <2>3. begin' \in [Procs -> 0..MaxClock] /\ begin'[c] = begin[c]
        /\ \A q \in Procs : q # c => begin'[q] = begin[q]
    BY <1>0, <1>2 DEF Types
  <2> QED BY <1>0, <1>1, <1>2, <1>3, <1>4, <2>1, <2>2, <2>3, PlanStep, ZenonT(40)
<1>9. stage' \in [Procs -> {"connecting", "waiting", "running", "done", "failed"}]
      /\ stage'[c] = "done" /\ \A q \in Procs : q # c => stage'[q] = stage[q]
  BY <1>0, <1>1 DEF Types
<1>10. Types'  BY <1>0, <1>2, <1>7, <1>8, <1>9 DEF Types
<1>11. NotBegun'
  <2>1. Clients \subseteq Procs /\ Server \in Procs  BY Constants
  <2> QED BY <1>0, <1>1, <1>2, <1>8, <1>9, <2>1 DEF NotBegun
<1>12. DoneInv'
  <2>1. \A n \in Nat \ {0} : Sched(c, begin[c], n) < Stop(window[c]) => n < next'[c]
    <3>1. next'[c] \in Nat  BY <1>1, <1>8
    <3> QED BY <1>0, <1>1, <1>2, <1>3, <1>4, <1>8, <3>1, DoneStep DEF limit
  <2> SUFFICES ASSUME NEW q \in Procs, stage'[q] = "done", q = Server => frozen,
                      NEW n \in Nat \ {0}, Sched(q, begin[q], n) < Stop(window[q])
               PROVE  n < next'[q]
    BY <1>2 DEF DoneInv, Sched, Stop
  <2>2. CASE q = c  BY <2>1, <2>2
  <2>3. CASE q # c  BY <1>0, <1>8, <1>9, <2>3 DEF DoneInv
  <2> QED BY <2>2, <2>3
<1>13. MessageInv'
  <2>1. \A p \in Procs : next'[p] \in Nat \ {0} /\ next[p] <= next'[p]  BY <1>8
  <2>2. \A d \in Clients : input'[d] \in Nat /\ input[d] <= input'[d]  BY <1>0, <1>2 DEF Types
  <2> QED BY <1>0, <1>2, <2>1, <2>2, MessageFrame
<1>14. InputInv'
  <2> SUFFICES ASSUME NEW d \in Clients
               PROVE  /\ input[d] < next'[d] /\ applied[d] <= input[d] /\ conn[d].input <= input[d]
                      /\ stateSeq[d] < next'[Server]
                      /\ inputSent[d] # 0 => inputSent[d] = input[d]
                                             /\ window[d] <= Sched(d, begin[d], input[d])
    BY <1>2 DEF InputInv, Sched
  <2>1. d \in Procs /\ Server \in Procs /\ Server # c  BY Constants
  <2>2. input[d] \in Nat /\ next[d] \in Nat /\ next'[d] \in Nat /\ next[d] <= next'[d]
    BY <1>0, <1>8, <2>1 DEF Types
  <2>3. next'[Server] = next[Server]  BY <1>8, <2>1
  <2> QED BY <1>0, <2>2, <2>3 DEF InputInv
<1>15. SubmittedInv' /\ DeliveredInv'
  <2>1. InputsTaken' = InputsTaken /\ StatesTaken' = StatesTaken /\ \A p : Taken(p)' = Taken(p)
    BY <1>2, TakenFrame
  <2>2. \A p \in Procs : counts'[p].submitted = counts[p].submitted
                         /\ counts'[p].delivered = counts[p].delivered
    <3>1. counts[c].submitted \in Nat  BY <1>0, <1>1 DEF Types
    <3> HIDE DEF M
    <3> QED BY <1>7, <3>1
  <2>3. SubmittedInv'  BY <1>0, <2>1, <2>2 DEF SubmittedInv
  <2> QED BY <1>0, <1>2, <2>1, <2>2, <2>3, DeliveredGrows
<1>16. RosterExact' /\ NothingInvalid'  BY <1>0, <1>2, RosterFrame
<1> QED BY <1>8, <1>10, <1>11, <1>12, <1>13, <1>14, <1>15, <1>16 DEF IInv

LEMMA ClientSendsKeeps == ASSUME IInv, NEW c \in Clients, ClientSends(c) PROVE IInv'
<1>0. Types /\ LookedAt /\ NotBegun /\ DoneInv /\ SlotInv /\ MessageInv /\ InputInv
      /\ SubmittedInv /\ DeliveredInv /\ RosterExact /\ NothingInvalid  BY DEF IInv
<1>1. c \in Procs /\ c # Server  BY Constants
<1> DEFINE b == begin[c]
           limit == Cutoff(c)
           D == Due(c, b, limit)
           M == Measured(c, b, D)
<1>2. UNCHANGED <<clock, moves, stage, window, begin, seen, invalid>>
      /\ UNCHANGED <<up, stateSeq, applied, conn, registered, frozen, stateTicks>>
      /\ stage[c] = "running"
      /\ next' = [next EXCEPT ![c] = @ + Cardinality(D)]
  BY DEF ClientSends, serverVars
<1>3. PICK taken \in SUBSET D :
        /\ sent' = sent \cup {Input(c, n, n \in M) : n \in taken}
        /\ counts' = [counts EXCEPT ![c] = Account(c, Cardinality(M), Cardinality(M \cap taken))]
        /\ input' = [input EXCEPT ![c] = Max({@} \cup taken)]
        /\ inputSent' = [inputSent EXCEPT ![c] = Max({@} \cup (M \cap taken))]
  BY DEF ClientSends
<1>4. limit \in Nat /\ limit <= clock /\ limit < Stop(window[c]) /\ b \in 0..MaxClock
      /\ next[c] \in Nat \ {0} /\ b \in Nat /\ window[c] \in Nat
  BY <1>0, <1>1, StopType, CutoffType
<1> HIDE DEF limit, b
<1>5. IsFiniteSet(D) /\ IsFiniteSet(M) /\ M \subseteq D /\ IsFiniteSet(M \cap taken)
  <2>1. IsFiniteSet(D)  BY <1>1, <1>4, DueSlots
  <2>2. M \subseteq D  BY DEF Measured
  <2> HIDE DEF D, M
  <2>3. M \cap taken \subseteq D  BY <2>2
  <2> QED BY <2>1, <2>2, <2>3, FS_Subset
<1>6. Cardinality(M) \in Nat /\ Cardinality({c} \X M) = Cardinality(M)
      /\ Cardinality(M \cap taken) \in Nat
      /\ Cardinality({c} \X (M \cap taken)) = Cardinality(M \cap taken)
  BY <1>5, FS_CardinalityType, ProductOfOne
<1>7. /\ counts' \in [Procs -> [slots : Nat, submitted : Nat, delivered : Nat]]
      /\ counts'[c].slots = counts[c].slots + Cardinality(M)
      /\ counts'[c].submitted = counts[c].submitted + Cardinality(M \cap taken)
      /\ counts'[c].delivered = counts[c].delivered
      /\ \A q \in Procs : q # c => counts'[q] = counts[q]
  <2> DEFINE k == Cardinality(M)
             u == Cardinality(M \cap taken)
  <2>1. k \in Nat /\ u \in Nat /\ counts' = [counts EXCEPT ![c] = Account(c, k, u)]  BY <1>3, <1>6
  <2> HIDE DEF k, u
  <2>2. /\ counts' \in [Procs -> [slots : Nat, submitted : Nat, delivered : Nat]]
        /\ counts'[c].slots = counts[c].slots + k
        /\ counts'[c].submitted = counts[c].submitted + u
        /\ counts'[c].delivered = counts[c].delivered
        /\ \A q \in Procs : q # c => counts'[q] = counts[q]
    BY <1>0, <1>1, <2>1, AccountStep
  <2> QED BY <2>2 DEF k, u
<1>8. /\ next' \in [Procs -> Nat \ {0}] /\ LookedAt' /\ SlotInv'
      /\ \A q \in Procs : next[q] <= next'[q]
      /\ \A q \in Procs : q # c => next'[q] = next[q]
      /\ D = next[c]..(next'[c] - 1)
  <2>1. counts'[c].slots = counts[c].slots + Cardinality(Targets(c) \X M)
    BY <1>1, <1>6, <1>7 DEF Targets
  <2>2. \A q \in Procs : q # c => counts'[q].slots = counts[q].slots  BY <1>7
  <2>3. begin' \in [Procs -> 0..MaxClock] /\ begin'[c] = b
        /\ \A q \in Procs : q # c => begin'[q] = begin[q]
    BY <1>0, <1>2 DEF Types, b
  <2>4. b = begin[c] /\ stateTicks' = IF c = Server THEN stateTicks + Cardinality(M) ELSE stateTicks
    BY <1>1, <1>2 DEF b
  <2>5. UNCHANGED <<clock, window>>  BY <1>2
  <2> QED BY <1>0, <1>1, <1>2, <1>4, <2>1, <2>2, <2>3, <2>4, <2>5, PlanStep, ZenonT(40)
<1>9. /\ \A n \in D : n \in Nat /\ next[c] <= n /\ n < next'[c]
      /\ \A n \in D : n \in M <=> window[c] <= Sched(c, b, n)
  <2>1. next'[c] \in Nat  BY <1>1, <1>8
  <2>2. ASSUME NEW n \in D PROVE n \in Nat /\ next[c] <= n /\ n < next'[c]
    <3> HIDE DEF D
    <3> QED BY <1>4, <1>8, <2>1
  <2>3. ASSUME NEW n \in D PROVE n \in M <=> window[c] <= Sched(c, b, n)
    <3>1. n \in Nat \ {0} /\ n >= next[c]  BY <1>4, <2>2
    <3>2. Sched(c, b, n) <= limit /\ Sched(c, b, n) \in Nat  BY <1>1, <1>4, <3>1, DueSlots, SchedGrows
    <3>3. Stop(window[c]) \in Nat  BY <1>0, <1>1, StopType
    <3>4. Sched(c, b, n) < Stop(window[c])  BY <1>4, <3>2, <3>3
    <3> QED BY <3>4 DEF Measured, InWindow
  <2> QED BY <2>2, <2>3
<1>10. /\ input \in [Clients -> Nat] /\ inputSent \in [Clients -> Nat]
       /\ input[c] < next[c] /\ input[c] \in Nat /\ inputSent[c] \in Nat
       /\ inputSent[c] # 0 => inputSent[c] = input[c] /\ window[c] <= Sched(c, b, input[c])
  BY <1>0 DEF Types, InputInv, b
<1>11. /\ input'[c] \in Nat /\ inputSent'[c] \in Nat /\ input[c] <= input'[c]
       /\ \A k \in taken : k <= input'[c]
       /\ input'[c] < next'[c]
       /\ inputSent'[c] # 0 => inputSent'[c] = input'[c] /\ window[c] <= Sched(c, b, input'[c])
  <2> DEFINE i == input[c]
             s == inputSent[c]
             n == next[c]
             top == next'[c] - 1
             X == Max({i} \cup taken)
             Y == Max({s} \cup (M \cap taken))
  <2>1. top \in Nat  BY <1>1, <1>8
  <2>2. taken \in SUBSET (n..top)  BY <1>8
  <2>3. \A k \in taken : k \in M <=> window[c] <= Sched(c, b, k)
    <3> HIDE DEF D, M
    <3> QED BY <1>9
  <2>4. i \in Nat /\ s \in Nat /\ n \in Nat /\ i < n
        /\ (s # 0 => s = i /\ window[c] <= Sched(c, b, i))  BY <1>4, <1>10
  <2>5. input'[c] = X /\ inputSent'[c] = Y  BY <1>3, <1>10
  <2>8. ASSUME NEW k \in Nat \ {0}, window[c] <= Sched(c, b, k), NEW l \in taken, k <= l
        PROVE  l \in M
    <3>1. l \in Nat \ {0}  BY <1>4, <1>9
    <3>2. Sched(c, b, k) <= Sched(c, b, l) /\ Sched(c, b, k) \in Nat /\ Sched(c, b, l) \in Nat
      BY <1>4, <2>8, <3>1, SchedGrows
    <3>3. window[c] <= Sched(c, b, l)  BY <1>4, <2>8, <3>2
    <3> HIDE DEF M
    <3> QED BY <2>3, <3>3
  <2>9. \A k \in taken, l \in taken : k <= l /\ k \in M => l \in M
    <3> SUFFICES ASSUME NEW k \in taken, NEW l \in taken, k <= l, k \in M PROVE l \in M  OBVIOUS
    <3>1. k \in Nat \ {0}  BY <1>4, <1>9
    <3>2. window[c] <= Sched(c, b, k)  BY <2>3
    <3> HIDE DEF M
    <3> QED BY <2>8, <3>1, <3>2
  <2>10. s # 0 => s = i /\ taken \subseteq M
    <3>1. ASSUME s # 0, NEW l \in taken PROVE l \in M
      <4>1. i \in Nat \ {0} /\ s = i /\ window[c] <= Sched(c, b, i)  BY <2>4, <3>1
      <4>2. i <= l
        <5>1. l \in Nat /\ n <= l  BY <1>9
        <5> QED BY <2>4, <5>1
      <4> HIDE DEF M
      <4> QED BY <2>8, <4>1, <4>2
    <3> HIDE DEF M, s, i
    <3> QED BY <2>4, <3>1
  <2> HIDE DEF i, s, n, top, M
  <2>11. /\ X \in Nat /\ Y \in Nat /\ i <= X /\ \A k \in taken : k <= X
         /\ X \in {i} \cup taken
         /\ Y # 0 => Y = X /\ (X \in M \cap taken \/ (s # 0 /\ X = i))
    <3> HIDE DEF D
    <3> DEFINE T == M \cap taken
               S1 == {i} \cup taken
               S2 == {s} \cup T
               u == n + top + s
    <3>1. u \in Nat /\ i \in 0..u /\ s \in 0..u
      <4>1. i \in Nat /\ s \in Nat /\ n \in Nat /\ top \in Nat /\ i < n  BY <2>1, <2>4
      <4> QED BY <4>1
    <3>2. \A k \in taken : k \in Nat /\ k >= n /\ k \in 0..u
      <4>1. \A k \in n..top : k \in Nat /\ k >= n /\ k \in 0..u
        BY <2>1, <2>4
      <4> HIDE DEF u
      <4> QED BY <2>2, <4>1
    <3>3. S1 \in SUBSET (0..u) /\ S1 # {} /\ S2 \in SUBSET (0..u) /\ S2 # {}
      <4> HIDE DEF u
      <4> QED BY <3>1, <3>2
    <3>4. Max(S1) \in S1 /\ \A k \in S1 : Max(S1) >= k
      <4> HIDE DEF S1, u
      <4> QED BY <3>1, <3>3, MaxIsIn
    <3>5. Max(S2) \in S2 /\ \A k \in S2 : Max(S2) >= k
      <4> HIDE DEF S2, u
      <4> QED BY <3>1, <3>3, MaxIsIn
    <3>6. X \in {i} \cup taken /\ X >= i /\ \A k \in taken : X >= k  BY <3>4
    <3>7. (Y = s \/ Y \in T) /\ Y >= s /\ \A k \in T : Y >= k  BY <3>5
    <3>8. X \in Nat /\ Y \in Nat
      <4> HIDE DEF X, Y
      <4> QED BY <2>4, <3>2, <3>6, <3>7
    <3> HIDE DEF X, Y
    <3>9. ASSUME Y # 0 PROVE Y = X /\ (X \in T \/ (s # 0 /\ X = i))
      <4>1. CASE Y \in T
        <5>1. Y \in taken /\ Y >= n /\ Y \in M  BY <3>2, <4>1
        <5>2. X >= Y  BY <3>6, <5>1
        <5>3. X \in taken
          <6>1. X >= n  BY <2>4, <3>8, <5>1, <5>2
          <6>2. X # i  BY <2>4, <3>8, <6>1
          <6> QED BY <3>6, <6>2
        <5>4. X \in T  BY <2>9, <3>8, <5>1, <5>2, <5>3
        <5>5. Y >= X  BY <3>7, <5>4
        <5> QED BY <3>8, <5>2, <5>4, <5>5
      <4>2. CASE Y = s
        <5>1. s = i /\ taken \subseteq M /\ s # 0  BY <2>10, <3>9, <4>2
        <5>2. CASE X = i  BY <4>2, <5>1, <5>2
        <5>3. CASE X \in taken
          <6>1. X \in T  BY <5>1, <5>3
          <6>2. Y >= X /\ X >= n  BY <3>7, <3>2, <5>3, <6>1
          <6> QED BY <2>4, <3>8, <4>2, <5>1, <6>2
        <5> QED BY <3>6, <5>2, <5>3
      <4> QED BY <3>7, <4>1, <4>2
    <3>10. \A k \in taken : k <= X  BY <2>4, <3>6, <3>8, <3>2
    <3>11. i <= X  BY <2>4, <3>6, <3>8
    <3> QED BY <3>6, <3>8, <3>9, <3>10, <3>11 DEF X, Y
  <2> HIDE DEF X, Y
  <2>12. Y # 0 => window[c] <= Sched(c, b, X)
    <3> SUFFICES ASSUME Y # 0 PROVE window[c] <= Sched(c, b, X)  OBVIOUS
    <3>1. CASE X \in M \cap taken  BY <2>3, <3>1
    <3>2. CASE s # 0 /\ X = i  BY <2>4, <3>2
    <3> QED BY <2>11, <3>1, <3>2
  <2>6. /\ input'[c] \in Nat /\ inputSent'[c] \in Nat /\ i <= input'[c]
        /\ \A k \in taken : k <= input'[c]
        /\ input'[c] \in {i} \cup taken
        /\ inputSent'[c] # 0 => inputSent'[c] = input'[c] /\ window[c] <= Sched(c, b, input'[c])
    BY <2>5, <2>11, <2>12
  <2>7. input'[c] < next'[c]
    <3>1. CASE input'[c] = i
      <4>1. next'[c] \in Nat /\ next[c] <= next'[c]  BY <1>1, <1>8
      <4> QED BY <1>4, <2>4, <3>1, <4>1 DEF n
    <3>2. CASE input'[c] \in taken
      <4> HIDE DEF D
      <4> QED BY <1>9, <3>2
    <3> QED BY <2>6, <3>1, <3>2
  <2> QED BY <2>6, <2>7 DEF i
<1>12. /\ \A d \in Clients : d # c => input'[d] = input[d] /\ inputSent'[d] = inputSent[d]
       /\ input' \in [Clients -> Nat] /\ inputSent' \in [Clients -> Nat]
  <2> DEFINE x == Max({input[c]} \cup taken)
             y == Max({inputSent[c]} \cup (M \cap taken))
  <2>1. input' = [input EXCEPT ![c] = x] /\ inputSent' = [inputSent EXCEPT ![c] = y]  BY <1>3
  <2> HIDE DEF x, y
  <2>2. x = input'[c] /\ y = inputSent'[c]  BY <1>10, <2>1
  <2>3. x \in Nat /\ y \in Nat  BY <1>11, <2>2
  <2> QED BY <1>10, <2>1, <2>3
<1>13. ASSUME NEW m \in sent', m \notin sent
       PROVE  \E n \in taken : m = Input(c, n, n \in M)
  BY <1>3, <1>13
<1>14. sent' \subseteq Message
  <2> SUFFICES ASSUME NEW m \in sent', m \notin sent PROVE m \in Message
    BY <1>0 DEF Types
  <2>1. PICK n \in taken : m = Input(c, n, n \in M)  BY <1>13
  <2>2. n \in Nat  BY <1>9
  <2> HIDE DEF M
  <2> QED BY <2>1, <2>2 DEF Input, Message
<1>15. Types'  BY <1>0, <1>2, <1>7, <1>8, <1>12, <1>14 DEF Types
<1>16. NotBegun'
  <2>1. Clients \subseteq Procs /\ Server \in Procs  BY Constants
  <2> QED BY <1>0, <1>1, <1>2, <1>8, <2>1 DEF NotBegun
<1>17. DoneInv'
  <2>1. \A q \in Procs : next'[q] \in Nat /\ next[q] <= next'[q]  BY <1>8
  <2> QED BY <1>0, <1>2, <2>1, DoneFrame
<1>18. MessageInv'
  <2>1. \A p \in Procs : next'[p] \in Nat \ {0} /\ next[p] <= next'[p]  BY <1>8
  <2>2. \A d \in Clients : input'[d] \in Nat /\ input[d] <= input'[d]
    <3> SUFFICES ASSUME NEW d \in Clients PROVE input'[d] \in Nat /\ input[d] <= input'[d]  OBVIOUS
    <3>1. CASE d = c  BY <1>11, <3>1
    <3>2. CASE d # c
      <4>1. input'[d] = input[d] /\ input[d] \in Nat  BY <1>10, <1>12, <3>2
      <4> QED BY <4>1
    <3> QED BY <3>1, <3>2
  <2>3. ASSUME NEW m \in sent', m \notin sent PROVE Placed(m)'
    <3>1. PICK n \in taken : m = Input(c, n, n \in M)  BY <1>13, <2>3
    <3>2. m.kind = "input" /\ m.peer = c /\ m.seq = n
      <4> HIDE DEF M
      <4> QED BY <3>1 DEF Input
    <3>3. n \in 1..(next'[c] - 1)
      <4>1. n \in Nat /\ next[c] <= n /\ n < next'[c] /\ next'[c] \in Nat  BY <1>1, <1>8, <1>9
      <4> QED BY <1>4, <4>1
    <3>4. n <= input'[c]  BY <1>11
    <3> QED BY <3>2, <3>3, <3>4 DEF Placed
  <2> QED BY <1>0, <2>1, <2>2, <2>3, MessageFrame
<1>19. InputInv'
  <2> SUFFICES ASSUME NEW d \in Clients
               PROVE  /\ input'[d] < next'[d] /\ applied[d] <= input'[d] /\ conn[d].input <= input'[d]
                      /\ stateSeq[d] < next'[Server]
                      /\ inputSent'[d] # 0 => inputSent'[d] = input'[d]
                                             /\ window[d] <= Sched(d, begin[d], input'[d])
    BY <1>2 DEF InputInv, Sched
  <2>1. d \in Procs /\ Server \in Procs /\ Server # c  BY Constants
  <2>2. next'[Server] = next[Server]  BY <1>8, <2>1
  <2>3. /\ input[d] < next[d] /\ applied[d] <= input[d] /\ conn[d].input <= input[d]
        /\ stateSeq[d] < next[Server]
        /\ inputSent[d] # 0 => inputSent[d] = input[d]
                               /\ window[d] <= Sched(d, begin[d], input[d])
    BY <1>0 DEF InputInv
  <2>4. CASE d # c
    <3>1. input'[d] = input[d] /\ inputSent'[d] = inputSent[d] /\ next'[d] = next[d]
      BY <1>8, <1>12, <2>1, <2>4
    <3> QED BY <2>2, <2>3, <3>1
  <2>5. CASE d = c
    <3>1. applied[c] \in Nat /\ conn[c].input \in Nat  BY <1>0 DEF Types
    <3>2. applied[c] <= input'[c] /\ conn[c].input <= input'[c]
      BY <1>10, <1>11, <2>3, <2>5, <3>1
    <3> QED BY <1>11, <2>2, <2>3, <2>5, <3>2 DEF b
  <2> QED BY <2>4, <2>5
<1>20. /\ InputsTaken' = InputsTaken \cup ({c} \X (M \cap taken)) /\ StatesTaken' = StatesTaken
       /\ InputsTaken \cap ({c} \X (M \cap taken)) = {}
  <2>0. \A n \in M \cap taken : n \in Nat  BY <1>9
  <2>1. ASSUME NEW d \in Clients, NEW n \in Nat
        PROVE  Input(d, n, TRUE) \in sent' <=> Input(d, n, TRUE) \in sent \/ (d = c /\ n \in M \cap taken)
    <3>1. ASSUME Input(d, n, TRUE) \in sent' PROVE Input(d, n, TRUE) \in sent \/ (d = c /\ n \in M \cap taken)
      <4> SUFFICES ASSUME Input(d, n, TRUE) \notin sent PROVE d = c /\ n \in M \cap taken  OBVIOUS
      <4>1. PICK k \in taken : Input(d, n, TRUE) = Input(c, k, k \in M)  BY <1>13, <3>1
      <4>2. d = c /\ n = k /\ (k \in M) = TRUE
        <5> HIDE DEF M
        <5> QED BY <4>1 DEF Input
      <4> QED BY <4>2
    <3>2. ASSUME d = c, n \in M \cap taken PROVE Input(d, n, TRUE) \in sent'
      <4>1. Input(d, n, TRUE) = Input(c, n, n \in M)
        <5>1. (n \in M) = TRUE  BY <3>2
        <5> QED BY <3>2, <5>1
      <4> QED BY <1>3, <3>2, <4>1
    <3>3. Input(d, n, TRUE) \in sent => Input(d, n, TRUE) \in sent'  BY <1>3
    <3> QED BY <3>1, <3>2, <3>3
  <2>2. InputsTaken' = {t \in Clients \X Nat : Input(t[1], t[2], TRUE) \in sent'}
    BY DEF InputsTaken, Input
  <2>3. InputsTaken' = InputsTaken \cup ({c} \X (M \cap taken))
    <3> DEFINE A == M \cap taken
    <3>1. \A d \in Clients, n \in Nat :
            Input(d, n, TRUE) \in sent' <=> Input(d, n, TRUE) \in sent \/ (d = c /\ n \in A)
      BY <2>1
    <3>2. A \subseteq Nat  BY <2>0
    <3> HIDE DEF A
    <3> QED BY <2>2, <3>1, <3>2 DEF InputsTaken, A
  <2>4. ASSUME NEW d \in Clients, NEW n \in Nat, NEW a \in Nat
        PROVE  StateOf(d, n, TRUE, a) \in sent' <=> StateOf(d, n, TRUE, a) \in sent
    <3>1. StateOf(d, n, TRUE, a).kind = "state"  BY DEF StateOf
    <3>2. \A k : Input(c, k, k \in M).kind = "input"  BY DEF Input
    <3> HIDE DEF M
    <3> QED BY <1>3, <1>13, <3>1, <3>2
  <2>5. StatesTaken' = {t \in Clients \X Nat : \E a \in Nat : StateOf(t[1], t[2], TRUE, a) \in sent'}
    BY DEF StatesTaken, StateOf
  <2>6. StatesTaken' = StatesTaken  BY <2>4, <2>5 DEF StatesTaken
  <2>7. InputsTaken \cap ({c} \X (M \cap taken)) = {}
    <3> SUFFICES ASSUME NEW t \in InputsTaken, t \in {c} \X (M \cap taken) PROVE FALSE  OBVIOUS
    <3>1. t[1] = c /\ t[2] \in taken  OBVIOUS
    <3>2. t[2] \in 1..(next[c] - 1)  BY <1>0, <3>1, TakenWithin
    <3>3. t[2] \in Nat /\ next[c] <= t[2]  BY <1>9, <3>1
    <3> QED BY <1>4, <3>2, <3>3
  <2> QED BY <2>3, <2>6, <2>7
<1>21. SubmittedInv'
  <2> DEFINE A == M \cap taken
  <2>1. Taken(c)' = Taken(c) \cup ({c} \X A) /\ Taken(c) \cap ({c} \X A) = {}
    <3>1. Taken(c)' = {t \in InputsTaken' : t[1] = c} /\ Taken(c) = {t \in InputsTaken : t[1] = c}
      BY <1>1 DEF Taken
    <3> HIDE DEF A
    <3> QED BY <1>20, <3>1 DEF A
  <2>2. \A p \in Procs : p # c => Taken(p)' = Taken(p)
    <3> SUFFICES ASSUME NEW p \in Procs, p # c PROVE Taken(p)' = Taken(p)  OBVIOUS
    <3>1. CASE p = Server  BY <1>20, <3>1 DEF Taken
    <3>2. CASE p # Server
      <4>1. Taken(p)' = {t \in InputsTaken' : t[1] = p} /\ Taken(p) = {t \in InputsTaken : t[1] = p}
        BY <3>2 DEF Taken
      <4> HIDE DEF A
      <4> QED BY <1>20, <4>1 DEF A
    <3> QED BY <3>1, <3>2
  <2>3. IsFiniteSet(Taken(c)) /\ counts[c].submitted = Cardinality(Taken(c))
    BY <1>0, <1>1, TakenWithin DEF SubmittedInv
  <2>4. IsFiniteSet({c} \X A)
    <3>1. IsFiniteSet({c})  BY FS_Singleton
    <3> QED BY <1>5, <3>1, FS_Product
  <2>5. counts'[c].submitted = Cardinality(Taken(c)')
    <3>1. Cardinality(Taken(c) \cup ({c} \X A)) = Cardinality(Taken(c)) + Cardinality({c} \X A)
      <4> HIDE DEF A
      <4> QED BY <2>1, <2>3, <2>4, DisjointCard
    <3> QED BY <1>6, <1>7, <2>1, <2>3, <3>1
  <2>6. \A p \in Procs : counts'[p].submitted = Cardinality(Taken(p)')
    <3> SUFFICES ASSUME NEW p \in Procs PROVE counts'[p].submitted = Cardinality(Taken(p)')  OBVIOUS
    <3>1. CASE p = c  BY <2>5, <3>1
    <3>2. CASE p # c
      <4>1. counts'[p] = counts[p] /\ Taken(p)' = Taken(p)  BY <1>7, <2>2, <3>2
      <4> QED BY <1>0, <4>1 DEF SubmittedInv
    <3> QED BY <3>1, <3>2
  <2> QED BY <2>6 DEF SubmittedInv
<1>22. DeliveredInv'
  <2>1. \A p \in Procs : counts'[p].delivered = counts[p].delivered  BY <1>7
  <2>2. InputsTaken \subseteq InputsTaken' /\ StatesTaken \subseteq StatesTaken'  BY <1>20
  <2>3. seen' = seen  BY <1>2
  <2> QED BY <1>0, <2>1, <2>2, <2>3, DeliveredGrows
<1>23. RosterExact' /\ NothingInvalid'  BY <1>0, <1>2, RosterFrame
<1> QED BY <1>8, <1>15, <1>16, <1>17, <1>18, <1>19, <1>21, <1>22, <1>23 DEF IInv

(* The server sends to its roster, with its plan begun before or beginning   *)
(* with it.                                                                  *)
LEMMA SendStatesKeeps ==
  ASSUME IInv, NEW b \in 0..MaxClock, b = begin[Server] \/ next[Server] = 1, SendStates(b),
         stage[Server] = "running",
         begin' \in [Procs -> 0..MaxClock], begin'[Server] = b,
         \A q \in Procs : q # Server => begin'[q] = begin[q],
         frozen' = TRUE, \A c \in Clients : conn[c].origin,
         UNCHANGED <<clock, moves, stage, window, seen, invalid>>,
         UNCHANGED <<up, input, inputSent, stateSeq, applied, conn, registered>>
  PROVE  IInv'
<1>0. Types /\ LookedAt /\ NotBegun /\ DoneInv /\ SlotInv /\ MessageInv /\ InputInv
      /\ SubmittedInv /\ DeliveredInv /\ RosterExact /\ NothingInvalid  BY DEF IInv
<1>1. Server \in Procs /\ Server \notin Clients /\ Clients \subseteq Procs /\ IsFiniteSet(Clients)
  BY Constants
<1> DEFINE limit == Cutoff(Server)
           D == Due(Server, b, limit)
           M == Measured(Server, b, D)
           CM == Clients \X M
<1>2. next' = [next EXCEPT ![Server] = @ + Cardinality(D)]
      /\ stateTicks' = stateTicks + Cardinality(M)
  BY DEF SendStates
<1>3. PICK taken \in SUBSET (Clients \X D) :
        /\ sent' = sent \cup {State(t[1], t[2], t[2] \in M) : t \in taken}
        /\ counts' = [counts EXCEPT ![Server] =
             Account(Server, Cardinality(CM), Cardinality(taken \cap CM))]
  <2> DEFINE R == {c \in Clients : conn[c].roster /\ conn[c].up}
  <2>1. SUBSET (R \X D) \subseteq SUBSET (Clients \X D)
    <3> HIDE DEF D
    <3> QED OBVIOUS
  <2> QED BY <2>1 DEF SendStates
<1>4. limit \in Nat /\ limit <= clock /\ limit < Stop(window[Server])
      /\ next[Server] \in Nat \ {0} /\ b \in Nat /\ window[Server] \in Nat
  BY <1>0, <1>1, StopType, CutoffType, Constants
<1> HIDE DEF limit
<1>5. IsFiniteSet(D) /\ IsFiniteSet(M) /\ M \subseteq D
  <2>1. IsFiniteSet(D)  BY <1>1, <1>4, DueSlots
  <2>2. M \subseteq D  BY DEF Measured
  <2> HIDE DEF D, M
  <2> QED BY <2>1, <2>2, FS_Subset
<1>6. IsFiniteSet(CM) /\ IsFiniteSet(taken \cap CM)
      /\ Cardinality(CM) \in Nat /\ Cardinality(taken \cap CM) \in Nat
  <2>1. IsFiniteSet(CM)
    <3> HIDE DEF M
    <3> QED BY <1>1, <1>5, FS_Product
  <2>2. taken \cap CM \subseteq CM  OBVIOUS
  <2> HIDE DEF CM
  <2> QED BY <2>1, <2>2, FS_Subset, FS_CardinalityType
<1>7. /\ counts' \in [Procs -> [slots : Nat, submitted : Nat, delivered : Nat]]
      /\ counts'[Server].slots = counts[Server].slots + Cardinality(CM)
      /\ counts'[Server].submitted = counts[Server].submitted + Cardinality(taken \cap CM)
      /\ counts'[Server].delivered = counts[Server].delivered
      /\ \A q \in Procs : q # Server => counts'[q] = counts[q]
  <2> DEFINE k == Cardinality(CM)
             u == Cardinality(taken \cap CM)
  <2>1. k \in Nat /\ u \in Nat /\ counts' = [counts EXCEPT ![Server] = Account(Server, k, u)]
    BY <1>3, <1>6
  <2> HIDE DEF k, u
  <2>2. /\ counts' \in [Procs -> [slots : Nat, submitted : Nat, delivered : Nat]]
        /\ counts'[Server].slots = counts[Server].slots + k
        /\ counts'[Server].submitted = counts[Server].submitted + u
        /\ counts'[Server].delivered = counts[Server].delivered
        /\ \A q \in Procs : q # Server => counts'[q] = counts[q]
    BY <1>0, <1>1, <2>1, AccountStep
  <2> QED BY <2>2 DEF k, u
<1>8. /\ next' \in [Procs -> Nat \ {0}] /\ LookedAt' /\ SlotInv' /\ stateTicks' \in Nat
      /\ \A q \in Procs : next[q] <= next'[q]
      /\ \A q \in Procs : q # Server => next'[q] = next[q]
      /\ D = next[Server]..(next'[Server] - 1)
  <2>1. counts'[Server].slots = counts[Server].slots + Cardinality(Targets(Server) \X M)
    BY <1>7 DEF Targets
  <2>2. \A q \in Procs : q # Server => counts'[q].slots = counts[q].slots  BY <1>7
  <2>3. stateTicks' = IF Server = Server THEN stateTicks + Cardinality(M) ELSE stateTicks
    BY <1>2
  <2>4. UNCHANGED <<clock, window>>  OBVIOUS
  <2>5. next' = [next EXCEPT ![Server] = @ + Cardinality(Due(Server, b, limit))]  BY <1>2
  <2> DEFINE p == Server
  <2>6. /\ b = begin[p] \/ next[p] = 1
        /\ counts'[p].slots = counts[p].slots
             + Cardinality(Targets(p) \X Measured(p, b, Due(p, b, limit)))
        /\ \A q \in Procs : q # p => counts'[q].slots = counts[q].slots
        /\ stateTicks' = IF p = Server
                         THEN stateTicks + Cardinality(Measured(p, b, Due(p, b, limit)))
                         ELSE stateTicks
        /\ next' = [next EXCEPT ![p] = @ + Cardinality(Due(p, b, limit))]
    BY <2>1, <2>2, <2>3, <2>5
  <2>7. b \in 0..MaxClock  OBVIOUS
  <2>8. begin' \in [Procs -> 0..MaxClock] /\ begin'[Server] = b
        /\ \A q \in Procs : q # Server => begin'[q] = begin[q]
    OBVIOUS
  <2>9. limit \in Nat /\ limit <= clock /\ limit < Stop(window[p]) /\ p \in Procs
    BY <1>1, <1>4
  <2>10. begin'[p] = b /\ \A q \in Procs : q # p => begin'[q] = begin[q]  OBVIOUS
  <2> HIDE DEF p
  <2>11. /\ next' \in [Procs -> Nat \ {0}] /\ LookedAt' /\ SlotInv' /\ stateTicks' \in Nat
         /\ \A q \in Procs : next[q] <= next'[q]
         /\ \A q \in Procs : q # p => next'[q] = next[q]
         /\ Due(p, b, limit) = next[p]..(next'[p] - 1)
    <3> HIDE DEF D, M, CM
    <3>1. CASE b = begin[p]
      BY ONLY <3>1, <1>0, <2>4, <2>6, <2>7, <2>8, <2>9, <2>10, PlanStep, ZenonT(40)
    <3>2. CASE next[p] = 1
      BY ONLY <3>2, <1>0, <2>4, <2>6, <2>7, <2>8, <2>9, <2>10, PlanStep, ZenonT(40)
    <3> QED BY <2>6, <3>1, <3>2
  <2> QED BY <2>11 DEF p
<1>9. next'[Server] \in Nat /\ \A n \in D : n \in Nat /\ next[Server] <= n /\ n < next'[Server]
  <2>1. next'[Server] \in Nat  BY <1>1, <1>8
  <2> HIDE DEF D
  <2> QED BY <1>4, <1>8, <2>1
<1>10. \A t \in taken : t[1] \in Clients /\ t[2] \in D /\ t[2] \in Nat /\ t = <<t[1], t[2]>>
  <2> HIDE DEF D
  <2> QED BY <1>9
<1>11. /\ conn \in [Clients -> [up : BOOLEAN, origin : BOOLEAN, roster : BOOLEAN, input : Nat]]
       /\ \A c \in Clients : conn[c].input \in Nat /\ conn[c].input <= input[c]
  BY <1>0 DEF Types, InputInv
<1>12. ASSUME NEW m \in sent', m \notin sent
       PROVE  \E t \in taken : m = State(t[1], t[2], t[2] \in M)
  <2> HIDE DEF M
  <2> QED BY <1>3, <1>12
<1>13. sent' \subseteq Message
  <2> SUFFICES ASSUME NEW m \in sent', m \notin sent PROVE m \in Message
    BY <1>0 DEF Types
  <2>1. PICK t \in taken : m = State(t[1], t[2], t[2] \in M)  BY <1>12
  <2>2. t[1] \in Clients /\ t[2] \in Nat /\ conn[t[1]].input \in Nat  BY <1>10, <1>11
  <2> HIDE DEF M
  <2> QED BY <2>1, <2>2 DEF State, Message
<1>14. Types'
  <2>1. frozen' \in BOOLEAN  OBVIOUS
  <2> QED BY <1>0, <1>7, <1>8, <1>13, <2>1 DEF Types
<1>15. NotBegun'  BY <1>0, <1>1, <1>8 DEF NotBegun
<1>16. DoneInv'
  <2>1. \A q \in Procs : next'[q] \in Nat /\ next[q] <= next'[q]  BY <1>8
  <2>2. \A q \in Procs : stage'[q] = "done" /\ (q = Server => frozen') =>
          /\ stage[q] = "done" /\ (q = Server => frozen)
          /\ begin'[q] = begin[q] /\ window'[q] = window[q]
    <3> SUFFICES ASSUME NEW q \in Procs, stage[q] = "done"
                 PROVE  q # Server /\ begin'[q] = begin[q]
      OBVIOUS
    <3> QED OBVIOUS
  <2> QED BY <1>0, <2>1, <2>2, DoneFrame
<1>17. MessageInv'
  <2>1. \A p \in Procs : next'[p] \in Nat \ {0} /\ next[p] <= next'[p]  BY <1>8
  <2>2. \A d \in Clients : input'[d] \in Nat /\ input[d] <= input'[d]  BY <1>0 DEF Types
  <2>3. ASSUME NEW m \in sent', m \notin sent PROVE Placed(m)'
    <3>1. PICK t \in taken : m = State(t[1], t[2], t[2] \in M)  BY <1>12, <2>3
    <3>2. m.kind = "state" /\ m.peer = t[1] /\ m.seq = t[2] /\ m.applied = conn[t[1]].input
      <4> HIDE DEF M
      <4> QED BY <3>1 DEF State
    <3>3. t[2] \in 1..(next'[Server] - 1)  BY <1>4, <1>9, <1>10
    <3>4. conn[t[1]].input <= input'[t[1]]  BY <1>10, <1>11
    <3> QED BY <3>2, <3>3, <3>4 DEF Placed
  <2> QED BY <1>0, <2>1, <2>2, <2>3, MessageFrame
<1>18. InputInv'
  <2> SUFFICES ASSUME NEW d \in Clients
               PROVE  /\ input[d] < next'[d] /\ applied[d] <= input[d] /\ conn[d].input <= input[d]
                      /\ stateSeq[d] < next'[Server]
                      /\ inputSent[d] # 0 => inputSent[d] = input[d]
                                             /\ window[d] <= Sched(d, begin'[d], input[d])
    BY DEF InputInv, Sched
  <2>1. d \in Procs /\ d # Server  BY <1>1
  <2>2. next'[d] = next[d] /\ begin'[d] = begin[d] /\ next[Server] <= next'[Server]
    BY <1>1, <1>8, <2>1
  <2>3. stateSeq[d] \in Nat  BY <1>0 DEF Types
  <2>4. stateSeq[d] < next'[Server]  BY <1>0, <1>4, <1>9, <2>2, <2>3 DEF InputInv
  <2> QED BY <1>0, <2>2, <2>4 DEF InputInv
<1>19. InputsTaken' = InputsTaken
  <2>1. ASSUME NEW d \in Clients, NEW n \in Nat
        PROVE  Input(d, n, TRUE) \in sent' <=> Input(d, n, TRUE) \in sent
    <3>1. Input(d, n, TRUE).kind = "input"  BY DEF Input
    <3>2. \A t : State(t[1], t[2], t[2] \in M).kind = "state"  BY DEF State
    <3> HIDE DEF M
    <3> QED BY <1>3, <1>12, <3>1, <3>2
  <2>2. InputsTaken' = {t \in Clients \X Nat : Input(t[1], t[2], TRUE) \in sent'}
    BY DEF InputsTaken, Input
  <2> QED BY <2>1, <2>2 DEF InputsTaken
<1>20. StatesTaken' = StatesTaken \cup (taken \cap CM) /\ StatesTaken \cap (taken \cap CM) = {}
  <2>1. ASSUME NEW d \in Clients, NEW n \in Nat, NEW a \in Nat, StateOf(d, n, TRUE, a) \in sent'
        PROVE  StateOf(d, n, TRUE, a) \in sent \/ <<d, n>> \in taken \cap CM
    <3> SUFFICES ASSUME StateOf(d, n, TRUE, a) \notin sent PROVE <<d, n>> \in taken \cap CM  OBVIOUS
    <3>1. PICK t \in taken : StateOf(d, n, TRUE, a) = State(t[1], t[2], t[2] \in M)
      BY <1>12, <2>1
    <3>2. d = t[1] /\ n = t[2] /\ (t[2] \in M) = TRUE
      <4> HIDE DEF M
      <4> QED BY <3>1 DEF State, StateOf
    <3>3. t = <<d, n>>  BY <1>10, <3>2
    <3> HIDE DEF M
    <3> QED BY <3>2, <3>3
  <2>2. ASSUME NEW d \in Clients, NEW n \in Nat, <<d, n>> \in taken \cap CM
        PROVE  \E a \in Nat : StateOf(d, n, TRUE, a) \in sent'
    <3>1. n \in M /\ <<d, n>> \in taken
      <4> HIDE DEF M
      <4> QED BY <2>2
    <3>2. (n \in M) = TRUE  BY <3>1
    <3>3. State(d, n, n \in M) \in sent'
      <4> HIDE DEF M
      <4> QED BY <1>3, <3>1
    <3>4. State(d, n, n \in M) = StateOf(d, n, TRUE, conn[d].input)  BY <3>2 DEF State, StateOf
    <3> QED BY <1>11, <3>3, <3>4
  <2>3. ASSUME NEW d \in Clients, NEW n \in Nat
        PROVE  (\E a \in Nat : StateOf(d, n, TRUE, a) \in sent')
                 <=> (\E a \in Nat : StateOf(d, n, TRUE, a) \in sent) \/ <<d, n>> \in taken \cap CM
    <3>1. sent \subseteq sent'  BY <1>3
    <3> HIDE DEF CM
    <3> QED BY <2>1, <2>2, <3>1
  <2>4. StatesTaken' = {t \in Clients \X Nat : \E a \in Nat : StateOf(t[1], t[2], TRUE, a) \in sent'}
    BY DEF StatesTaken, StateOf
  <2>5. taken \cap CM \subseteq Clients \X Nat
    <3> HIDE DEF CM
    <3> QED BY <1>10
  <2>6. StatesTaken' = StatesTaken \cup (taken \cap CM)
    <3> DEFINE A == taken \cap CM
    <3> HIDE DEF A
    <3>1. A \subseteq Clients \X Nat  BY <2>5 DEF A
    <3>2. \A d \in Clients, n \in Nat :
            (\E a \in Nat : StateOf(d, n, TRUE, a) \in sent')
              <=> (\E a \in Nat : StateOf(d, n, TRUE, a) \in sent) \/ <<d, n>> \in A
      BY <2>3 DEF A
    <3> DEFINE New(d, n) == \E a \in Nat : StateOf(d, n, TRUE, a) \in sent'
               Old(d, n) == \E a \in Nat : StateOf(d, n, TRUE, a) \in sent
    <3>4. /\ StatesTaken' = {t \in Clients \X Nat : New(t[1], t[2])}
          /\ StatesTaken = {t \in Clients \X Nat : Old(t[1], t[2])}
      BY <2>4 DEF StatesTaken
    <3>5. \A d \in Clients, n \in Nat : New(d, n) <=> Old(d, n) \/ <<d, n>> \in A  BY <3>2
    <3> HIDE DEF New, Old
    <3>3. StatesTaken' = StatesTaken \cup A  BY <3>1, <3>4, <3>5
    <3> QED BY <3>3 DEF A
  <2>7. StatesTaken \cap (taken \cap CM) = {}
    <3> SUFFICES ASSUME NEW t \in StatesTaken, t \in taken PROVE FALSE  OBVIOUS
    <3>1. t[2] \in 1..(next[Server] - 1)  BY <1>0, TakenWithin
    <3>2. t[2] \in Nat /\ next[Server] <= t[2]  BY <1>9, <1>10
    <3> QED BY <1>4, <3>1, <3>2
  <2> QED BY <2>6, <2>7
<1>21. SubmittedInv'
  <2> HIDE DEF CM
  <2>1. Taken(Server) = StatesTaken /\ Taken(Server)' = StatesTaken'  BY DEF Taken
  <2>2. \A p \in Procs : p # Server => Taken(p)' = Taken(p)  BY <1>19 DEF Taken
  <2>3. IsFiniteSet(StatesTaken) /\ counts[Server].submitted = Cardinality(StatesTaken)
    BY <1>0, <1>1, <2>1, TakenWithin DEF SubmittedInv
  <2>4. Cardinality(StatesTaken') = Cardinality(StatesTaken) + Cardinality(taken \cap CM)
    BY <1>6, <1>20, <2>3, DisjointCard
  <2>5. \A p \in Procs : counts'[p].submitted = Cardinality(Taken(p)')
    <3> SUFFICES ASSUME NEW p \in Procs PROVE counts'[p].submitted = Cardinality(Taken(p)')  OBVIOUS
    <3>1. CASE p = Server  BY <1>7, <2>1, <2>3, <2>4, <3>1
    <3>2. CASE p # Server
      <4>1. counts'[p] = counts[p] /\ Taken(p)' = Taken(p)  BY <1>7, <2>2, <3>2
      <4> QED BY <1>0, <4>1 DEF SubmittedInv
    <3> QED BY <3>1, <3>2
  <2> QED BY <2>5 DEF SubmittedInv
<1>22. DeliveredInv'
  <2>1. \A p \in Procs : counts'[p].delivered = counts[p].delivered  BY <1>7
  <2>2. InputsTaken \subseteq InputsTaken' /\ StatesTaken \subseteq StatesTaken'  BY <1>19, <1>20
  <2> QED BY <1>0, <2>1, <2>2, DeliveredGrows
<1>23. RosterExact'  BY <1>0 DEF RosterExact
<1>24. NothingInvalid'  BY <1>0 DEF NothingInvalid
<1> QED BY <1>8, <1>14, <1>15, <1>16, <1>17, <1>18, <1>21, <1>22, <1>23, <1>24 DEF IInv

(* A full count means that everyone has an origin.                           *)
LEMMA FreezeKeeps == ASSUME IInv, Freeze PROVE IInv'
<1>0. Types /\ NotBegun /\ RosterExact  BY DEF IInv
<1>1. /\ stage[Server] = "running" /\ ~frozen /\ registered = Cardinality(Clients)
      /\ frozen' = TRUE /\ begin' = [begin EXCEPT ![Server] = clock] /\ SendStates(clock)
      /\ UNCHANGED <<clock, moves, stage, window, seen, invalid>>
      /\ UNCHANGED <<up, input, inputSent, stateSeq, applied, conn, registered>>
  BY DEF Freeze, ServerLoops, clientVars
<1>2. next[Server] = 1  BY <1>0, <1>1 DEF NotBegun
<1>3. \A c \in Clients : conn[c].origin
  <2> DEFINE O == {c \in Clients : conn[c].origin}
  <2>1. O \subseteq Clients /\ Cardinality(O) = Cardinality(Clients)  BY <1>0, <1>1 DEF RosterExact
  <2> HIDE DEF O
  <2>2. O = Clients  BY <2>1, Constants, FS_Subset
  <2> QED BY <2>2 DEF O
<1>4. clock \in 0..MaxClock /\ begin \in [Procs -> 0..MaxClock] /\ Server \in Procs
  BY <1>0, Constants DEF Types
<1>5. begin' \in [Procs -> 0..MaxClock] /\ begin'[Server] = clock
      /\ \A q \in Procs : q # Server => begin'[q] = begin[q]
  BY <1>1, <1>4
<1> QED BY <1>1, <1>2, <1>3, <1>4, <1>5, SendStatesKeeps

LEMMA ServerSendsKeeps == ASSUME IInv, ServerSends PROVE IInv'
<1>0. Types /\ RosterExact  BY DEF IInv
<1>1. /\ stage[Server] = "running" /\ frozen /\ SendStates(begin[Server])
      /\ frozen' = frozen /\ begin' = begin
      /\ UNCHANGED <<clock, moves, stage, window, seen, invalid>>
      /\ UNCHANGED <<up, input, inputSent, stateSeq, applied, conn, registered>>
  BY DEF ServerSends, ServerLoops, clientVars
<1>2. \A c \in Clients : conn[c].origin  BY <1>0, <1>1 DEF RosterExact
<1>3. begin \in [Procs -> 0..MaxClock] /\ Server \in Procs  BY <1>0, Constants DEF Types
<1> DEFINE b == begin[Server]
<1>4. b \in 0..MaxClock /\ b = begin[Server]  BY <1>3
<1>5. begin' \in [Procs -> 0..MaxClock] /\ begin'[Server] = b
      /\ \A q \in Procs : q # Server => begin'[q] = begin[q]
  BY <1>1, <1>3
<1>6. frozen' = TRUE  BY <1>0, <1>1 DEF Types
<1>7. SendStates(b)  BY <1>1
<1> HIDE DEF b
<1> QED BY <1>1, <1>2, <1>4, <1>5, <1>6, <1>7, SendStatesKeeps

LEMMA ServerDoneKeeps == ASSUME IInv, ServerDone PROVE IInv'
<1>0. Types /\ LookedAt /\ NotBegun /\ DoneInv /\ SlotInv /\ MessageInv /\ InputInv
      /\ SubmittedInv /\ DeliveredInv /\ RosterExact /\ NothingInvalid  BY DEF IInv
<1>1. Server \in Procs /\ Server \notin Clients /\ Clients \subseteq Procs /\ IsFiniteSet(Clients)
  BY Constants
<1> DEFINE limit == Stop(window[Server]) - 1
           b == begin[Server]
           U == IF frozen THEN Due(Server, b, limit) ELSE {}
           M == Measured(Server, b, U)
           CM == Clients \X M
<1>2. UNCHANGED <<clock, moves, window, begin, seen, invalid>>
      /\ UNCHANGED <<up, input, inputSent, stateSeq, applied, conn, registered, frozen, sent>>
  BY DEF ServerDone, clientVars
<1>3. /\ stage[Server] = "running" /\ clock >= DrainUntil(window[Server])
      /\ stage' = [stage EXCEPT ![Server] = "done"]
      /\ next' = [next EXCEPT ![Server] = @ + Cardinality(U)]
      /\ stateTicks' = stateTicks + Cardinality(M)
      /\ counts' = [counts EXCEPT ![Server] = Account(Server, Cardinality(CM), 0)]
  BY DEF ServerDone, Unsent
<1>4. limit \in Nat /\ limit <= clock /\ limit < Stop(window[Server]) /\ b \in 0..MaxClock
      /\ next[Server] \in Nat \ {0} /\ b \in Nat
  BY <1>0, <1>1, <1>3, StopType
<1> HIDE DEF limit
<1>5. IsFiniteSet(U) /\ IsFiniteSet(M)
  <2>1. IsFiniteSet(U)  BY <1>1, <1>4, DueSlots, FS_EmptySet
  <2>2. M \subseteq U  BY DEF Measured
  <2> HIDE DEF U, M
  <2> QED BY <2>1, <2>2, FS_Subset
<1>6. Cardinality(CM) \in Nat
  <2>1. IsFiniteSet(CM)
    <3> HIDE DEF M
    <3> QED BY <1>1, <1>5, FS_Product
  <2> HIDE DEF CM
  <2> QED BY <2>1, FS_CardinalityType
<1>7. /\ counts' \in [Procs -> [slots : Nat, submitted : Nat, delivered : Nat]]
      /\ counts'[Server].slots = counts[Server].slots + Cardinality(CM)
      /\ counts'[Server].submitted = counts[Server].submitted + 0
      /\ counts'[Server].delivered = counts[Server].delivered
      /\ \A q \in Procs : q # Server => counts'[q] = counts[q]
  <2> DEFINE k == Cardinality(CM)
  <2>1. k \in Nat /\ 0 \in Nat /\ counts' = [counts EXCEPT ![Server] = Account(Server, k, 0)]
    BY <1>3, <1>6
  <2> HIDE DEF k
  <2>2. /\ counts' \in [Procs -> [slots : Nat, submitted : Nat, delivered : Nat]]
        /\ counts'[Server].slots = counts[Server].slots + k
        /\ counts'[Server].submitted = counts[Server].submitted + 0
        /\ counts'[Server].delivered = counts[Server].delivered
        /\ \A q \in Procs : q # Server => counts'[q] = counts[q]
    BY <1>0, <1>1, <2>1, AccountStep
  <2> QED BY <2>2 DEF k
<1>8. /\ next' \in [Procs -> Nat \ {0}] /\ LookedAt' /\ SlotInv' /\ stateTicks' \in Nat
      /\ \A q \in Procs : next[q] <= next'[q]
      /\ \A q \in Procs : q # Server => next'[q] = next[q]
      /\ frozen => U = next[Server]..(next'[Server] - 1)
      /\ ~frozen => next' = next
  <2>1. CASE frozen
    <3> DEFINE p == Server
    <3>1. /\ b = begin[p] /\ UNCHANGED <<clock, window>>
          /\ counts'[p].slots = counts[p].slots
               + Cardinality(Targets(p) \X Measured(p, b, Due(p, b, limit)))
          /\ \A q \in Procs : q # p => counts'[q].slots = counts[q].slots
          /\ stateTicks' = IF p = Server
                           THEN stateTicks + Cardinality(Measured(p, b, Due(p, b, limit)))
                           ELSE stateTicks
          /\ next' = [next EXCEPT ![p] = @ + Cardinality(Due(p, b, limit))]
      BY <1>2, <1>3, <1>7, <2>1 DEF Targets
    <3>2. begin' \in [Procs -> 0..MaxClock] /\ begin'[p] = b
          /\ \A q \in Procs : q # p => begin'[q] = begin[q]
      BY <1>0, <1>2 DEF Types
    <3>3. limit \in Nat /\ limit <= clock /\ limit < Stop(window[p]) /\ p \in Procs
          /\ b \in 0..MaxClock
      BY <1>1, <1>4
    <3> HIDE DEF p, b
    <3>4. /\ next' \in [Procs -> Nat \ {0}] /\ LookedAt' /\ SlotInv' /\ stateTicks' \in Nat
          /\ \A q \in Procs : next[q] <= next'[q]
          /\ \A q \in Procs : q # p => next'[q] = next[q]
          /\ Due(p, b, limit) = next[p]..(next'[p] - 1)
      BY ONLY <1>0, <3>1, <3>2, <3>3, PlanStep, ZenonT(40)
    <3> QED BY <2>1, <3>4 DEF p
  <2>2. CASE ~frozen
    <3>1. U = {} /\ M = {} /\ CM = {}  BY <2>2 DEF Measured
    <3>2. Cardinality(U) = 0 /\ Cardinality(M) = 0 /\ Cardinality(CM) = 0  BY <3>1, FS_EmptySet
    <3> HIDE DEF U, M, CM
    <3>3. next \in [Procs -> Nat \ {0}] /\ stateTicks \in Nat
          /\ counts \in [Procs -> [slots : Nat, submitted : Nat, delivered : Nat]]
      BY <1>0 DEF Types
    <3>4. next' = next /\ stateTicks' = stateTicks  BY <1>1, <1>3, <3>2, <3>3
    <3>5. \A q \in Procs : counts'[q].slots = counts[q].slots
      <4>1. counts[Server].slots \in Nat  BY <1>1, <3>3
      <4> QED BY <1>7, <3>2, <4>1
    <3>6. LookedAt'  BY <1>0, <1>2, <3>4 DEF LookedAt, Sched, Stop
    <3>7. SlotInv'
      <4>1. \A q \in Procs : Accounted(q)' = Accounted(q)  BY <1>2, <3>4, AccountedFrame
      <4> QED BY <1>0, <3>4, <3>5, <4>1, SlotFrame
    <3>8. \A q \in Procs : next[q] <= next'[q]  BY <3>3, <3>4
    <3> QED BY <2>2, <3>3, <3>4, <3>6, <3>7, <3>8
  <2> QED BY <2>1, <2>2
<1>9. stage' \in [Procs -> {"connecting", "waiting", "running", "done", "failed"}]
      /\ stage'[Server] = "done" /\ \A q \in Procs : q # Server => stage'[q] = stage[q]
  BY <1>0, <1>1, <1>3 DEF Types
<1>10. Types'  BY <1>0, <1>2, <1>7, <1>8, <1>9 DEF Types
<1>11. NotBegun'
  <2>1. ~frozen => next'[Server] = 1  BY <1>0, <1>8 DEF NotBegun
  <2>2. \A c \in Clients : stage'[c] \in {"connecting", "waiting"} => next'[c] = 1
    BY <1>0, <1>1, <1>8, <1>9 DEF NotBegun
  <2> QED BY <1>2, <1>9, <2>1, <2>2 DEF NotBegun
<1>12. DoneInv'
  <2>1. ASSUME frozen
        PROVE  \A n \in Nat \ {0} : Sched(Server, begin[Server], n) < Stop(window[Server])
                                      => n < next'[Server]
    <3> HIDE DEF b
    <3>1. next'[Server] \in Nat  BY <1>1, <1>8
    <3>2. /\ limit = Stop(window[Server]) - 1 /\ limit \in Nat
          /\ next' = [next EXCEPT ![Server] = @ + Cardinality(Due(Server, begin[Server], limit))]
          /\ Due(Server, begin[Server], limit) = next[Server]..(next'[Server] - 1)
      BY <1>3, <1>4, <1>8, <2>1 DEF limit, b
    <3>3. window' = window /\ begin' = begin  BY <1>2
    <3> QED BY ONLY <1>0, <1>1, <3>1, <3>2, <3>3, DoneStep
  <2> SUFFICES ASSUME NEW q \in Procs, stage'[q] = "done", q = Server => frozen,
                      NEW n \in Nat \ {0}, Sched(q, begin[q], n) < Stop(window[q])
               PROVE  n < next'[q]
    BY <1>2 DEF DoneInv, Sched, Stop
  <2>2. CASE q = Server  BY <2>1, <2>2
  <2>3. CASE q # Server  BY <1>0, <1>8, <1>9, <2>3 DEF DoneInv
  <2> QED BY <2>2, <2>3
<1>13. MessageInv'
  <2>1. \A p \in Procs : next'[p] \in Nat \ {0} /\ next[p] <= next'[p]  BY <1>8
  <2>2. \A d \in Clients : input'[d] \in Nat /\ input[d] <= input'[d]  BY <1>0, <1>2 DEF Types
  <2> QED BY <1>0, <1>2, <2>1, <2>2, MessageFrame
<1>14. InputInv'
  <2> SUFFICES ASSUME NEW d \in Clients
               PROVE  /\ input[d] < next'[d] /\ applied[d] <= input[d] /\ conn[d].input <= input[d]
                      /\ stateSeq[d] < next'[Server]
                      /\ inputSent[d] # 0 => inputSent[d] = input[d]
                                             /\ window[d] <= Sched(d, begin[d], input[d])
    BY <1>2 DEF InputInv, Sched
  <2>1. d \in Procs /\ d # Server  BY <1>1
  <2>2. next'[d] = next[d] /\ next[Server] <= next'[Server] /\ next'[Server] \in Nat
    BY <1>1, <1>8, <2>1
  <2>3. stateSeq[d] \in Nat  BY <1>0 DEF Types
  <2>4. stateSeq[d] < next'[Server]  BY <1>0, <1>4, <2>2, <2>3 DEF InputInv
  <2> QED BY <1>0, <2>2, <2>4 DEF InputInv
<1>15. SubmittedInv' /\ DeliveredInv'
  <2>1. InputsTaken' = InputsTaken /\ StatesTaken' = StatesTaken /\ \A p : Taken(p)' = Taken(p)
    BY <1>2, TakenFrame
  <2>2. \A p \in Procs : counts'[p].submitted = counts[p].submitted
                         /\ counts'[p].delivered = counts[p].delivered
    <3>1. counts[Server].submitted \in Nat  BY <1>0, <1>1 DEF Types
    <3> HIDE DEF CM
    <3> QED BY <1>7, <3>1
  <2>3. SubmittedInv'  BY <1>0, <2>1, <2>2 DEF SubmittedInv
  <2> QED BY <1>0, <1>2, <2>1, <2>2, <2>3, DeliveredGrows
<1>16. RosterExact' /\ NothingInvalid'  BY <1>0, <1>2, RosterFrame
<1> QED BY <1>8, <1>10, <1>11, <1>12, <1>13, <1>14, <1>15, <1>16 DEF IInv

LEMMA Inductive == IInv /\ [Next]_vars => IInv'
<1> SUFFICES ASSUME IInv, [Next]_vars PROVE IInv'  OBVIOUS
<1>1. CASE UNCHANGED vars
  <2>0. Types  BY DEF IInv
  <2>1. UNCHANGED <<clock, moves, window, begin, next, counts, seen, invalid>>
        /\ UNCHANGED <<input, inputSent, stateSeq, applied, registered, frozen, stateTicks>>
        /\ UNCHANGED <<up, stage, conn, sent>>
    BY <1>1 DEF vars, planVars, metricsVars, clientVars, serverVars
  <2>2. up' \in [Clients -> BOOLEAN]
        /\ stage' \in [Procs -> {"connecting", "waiting", "running", "done", "failed"}]
        /\ conn' \in [Clients -> [up : BOOLEAN, origin : BOOLEAN, roster : BOOLEAN, input : Nat]]
    BY <2>0, <2>1 DEF Types
  <2> QED BY <2>1, <2>2, Quiet
<1>2. CASE Network
  BY <1>2, ClientConnectedKeeps, ClientDisconnectedKeeps, ServerConnectedKeeps,
     ServerDisconnectedKeeps, ClientReceivesKeeps, ServerReceivesKeeps DEF Network
<1>3. CASE Loops
  BY <1>3, ReadyKeeps, ClientSendsKeeps, ClientDoneKeeps, ReadScheduleKeeps, TakeWindowKeeps,
     FreezeKeeps, ServerSendsKeeps, GiveUpKeeps, ServerDoneKeeps DEF Loops
<1>4. CASE Tick  BY <1>4, TickKeeps
<1> QED BY <1>1, <1>2, <1>3, <1>4 DEF Next

LEMMA Invariance == Spec => []IInv
BY InitInv, Inductive, PTL DEF Spec

-----------------------------------------------------------------------------
(* What a client has got of the states of the window                       *)

InPlan(n) == InWindow(window[Server], Sched(Server, begin[Server], n))

(* A slot is told to a client once; what counts as measured lies in the     *)
(* window as it is now; and a client's numbers are those of the newest state *)
(* of the window it has got.                                               *)
GotInv ==
  /\ \A m \in sent, k \in sent :
       m.kind = "state" /\ k.kind = "state" /\ m.peer = k.peer /\ m.seq = k.seq => m = k
  /\ \A m \in sent : m.kind = "state" /\ m.measured => InPlan(m.seq)
  /\ \A c \in Clients : stateSeq[c] # 0 => InPlan(stateSeq[c])
  /\ \A c \in Clients : \A m \in Got(c) : m.seq <= stateSeq[c] /\ m.applied <= applied[c]

(* A slot that was looked at stays in the window, whatever becomes of it.    *)
LEMMA PlanKept ==
  ASSUME IInv, [Next]_vars, NEW n \in 1..(next[Server] - 1), InPlan(n)
  PROVE  InPlan(n)'
<1>0. Types /\ LookedAt /\ NotBegun  BY DEF IInv
<1>1. Server \in Procs /\ next[Server] \in Nat /\ n # 0 /\ next[Server] # 1
      /\ window \in [Procs -> {Start, Early}] /\ begin \in [Procs -> 0..MaxClock]
  BY <1>0, Constants DEF Types
<1>2. CASE window'[Server] = window[Server] /\ begin'[Server] = begin[Server]
  BY <1>2 DEF InPlan, InWindow, Sched, Stop
<1>3. CASE Freeze  BY <1>0, <1>1, <1>3 DEF Freeze, NotBegun
<1>4. CASE \E p \in Procs : ReadSchedule(p)
  <2>1. PICK p \in Procs : ReadSchedule(p)  BY <1>4
  <2>2. p # Server  BY <1>0, <1>1, <2>1 DEF ReadSchedule, NotBegun
  <2>3. begin' = [begin EXCEPT ![p] = clock] /\ window' = window  BY <2>1 DEF ReadSchedule
  <2> QED BY <1>1, <1>2, <2>2, <2>3
<1>5. CASE \E p \in Procs : TakeWindow(p)
  <2>1. PICK p \in Procs : TakeWindow(p)  BY <1>5
  <2>2. /\ window' = [window EXCEPT ![p] = Early] /\ begin' = begin
        /\ window[p] = Start /\ clock < Early
    BY <2>1 DEF TakeWindow
  <2>3. p # Server
    <3> SUFFICES ASSUME p = Server PROVE FALSE  OBVIOUS
    <3>1. Sched(Server, begin[Server], n) <= clock  BY <1>0, <1>1 DEF LookedAt
    <3>2. Sched(Server, begin[Server], n) \in Nat
      <4>1. begin[Server] \in Nat /\ n \in Nat \ {0}  BY <1>1, Constants
      <4> QED BY <4>1, SchedGrows
    <3>3. Start <= Sched(Server, begin[Server], n)  BY <2>2 DEF InPlan, InWindow
    <3>4. clock \in Nat  BY <1>0, Constants DEF Types
    <3> QED BY <2>2, <3>1, <3>2, <3>3, <3>4, Constants
  <2> QED BY <1>1, <1>2, <2>2, <2>3
<1>6. CASE UNCHANGED vars  BY <1>2, <1>6 DEF vars, planVars
<1>7. CASE Network
  <2>1. UNCHANGED <<window, begin>>
    BY <1>7 DEF Network, ClientConnected, ClientDisconnected, ServerConnected,
       ServerDisconnected, ClientReceives, ServerReceives, planVars
  <2> QED BY <1>2, <2>1
<1>8. CASE Tick  BY <1>2, <1>8 DEF Tick, planVars
<1>9. CASE \E c \in Clients : Ready(c) \/ ClientSends(c) \/ ClientDone(c)
  BY <1>2, <1>9 DEF Ready, ClientSends, ClientDone, planVars
<1>10. CASE ServerSends \/ GiveUp \/ ServerDone
  BY <1>2, <1>10 DEF ServerSends, GiveUp, ServerDone, planVars
<1> QED BY <1>3, <1>4, <1>5, <1>6, <1>7, <1>8, <1>9, <1>10 DEF Next, Loops

(* The states that were taken by the transport, and a client's newest one,   *)
(* are of slots that have been looked at.                                    *)
LEMMA StatesPlaced ==
  ASSUME IInv
  PROVE  /\ \A m \in sent : m.kind = "state" =>
              m.peer \in Clients /\ m.seq \in 1..(next[Server] - 1) /\ m.applied \in Nat
         /\ \A c \in Clients : stateSeq[c] # 0 => stateSeq[c] \in 1..(next[Server] - 1)
         /\ \A c \in Clients : stateSeq[c] \in Nat /\ applied[c] \in Nat
<1>0. Types /\ MessageInv /\ InputInv  BY DEF IInv
<1>1. next[Server] \in Nat  BY <1>0, Constants DEF Types
<1>2. \A m \in sent : m.kind = "state" => m.peer \in Clients /\ m.applied \in Nat
  BY <1>0 DEF Types, Message
<1>3. \A m \in sent : m.kind = "state" => m.seq \in 1..(next[Server] - 1)
  BY <1>0 DEF MessageInv, Placed
<1>4. \A c \in Clients : stateSeq[c] \in Nat /\ applied[c] \in Nat /\ stateSeq[c] < next[Server]
  BY <1>0 DEF Types, InputInv
<1> QED BY <1>1, <1>2, <1>3, <1>4

(* Nothing changes for the clients while no state is taken or got.           *)
LEMMA GotFrame ==
  ASSUME IInv, [Next]_vars, GotInv, \A m \in sent' : m \in sent \/ m.kind # "state",
         \A c \in Clients : seen'[c] = seen[c], UNCHANGED <<stateSeq, applied>>
  PROVE  GotInv'
<1>1. \A m \in sent' : m.kind = "state" => m \in sent  OBVIOUS
<1>2. \A c \in Clients : \A m \in Got(c)' : m \in Got(c)  BY <1>1 DEF Got
<1>3. \A m \in sent' : m.kind = "state" /\ m.measured => InPlan(m.seq)'
  BY <1>1, PlanKept, StatesPlaced DEF GotInv
<1>4. \A c \in Clients : stateSeq'[c] # 0 => InPlan(stateSeq[c])'
  BY PlanKept, StatesPlaced DEF GotInv
<1>5. \A m \in sent', k \in sent' :
        m.kind = "state" /\ k.kind = "state" /\ m.peer = k.peer /\ m.seq = k.seq => m = k
  BY <1>1 DEF GotInv
<1>6. \A c \in Clients : \A m \in Got(c)' : m.seq <= stateSeq'[c] /\ m.applied <= applied'[c]
  BY <1>2 DEF GotInv
<1> QED BY <1>3, <1>4, <1>5, <1>6 DEF GotInv

(* A client gets a state that was taken: it is the only one of its slot.     *)
LEMMA GotReceived ==
  ASSUME IInv, GotInv, NEW m \in sent, ClientReceives(m)
  PROVE  GotInv'
<1>0. Types  BY DEF IInv
<1>1. /\ m.kind = "state" /\ m.peer \in Clients /\ m.seq \in Nat /\ m.applied \in Nat
      /\ next[Server] \in Nat /\ m.seq # 0
      /\ stateSeq \in [Clients -> Nat] /\ applied \in [Clients -> Nat]
  BY <1>0, StatesPlaced, Constants DEF ClientReceives, Types
<1> DEFINE c == m.peer
<1>2. /\ sent' = sent /\ window' = window /\ begin' = begin
  BY DEF ClientReceives, planVars
<1>3. [Next]_vars  BY DEF Next, Network
<1> DEFINE newSeq == Max({stateSeq[c], m.seq})
           newApplied == Max({applied[c], m.applied})
<1>4. CASE UNCHANGED <<metricsVars, stateSeq, applied>>
  BY <1>2, <1>3, <1>4, GotFrame DEF metricsVars
<1>5. CASE /\ m.measured /\ Delivered(c, <<Server, m.seq>>)
           /\ stateSeq' = [stateSeq EXCEPT ![c] = Max({@, m.seq})]
           /\ applied' = [applied EXCEPT ![c] = Max({@, m.applied})]
  <2>0. \A i \in Nat, j \in Nat : Max({i, j}) = IF j >= i THEN j ELSE i  BY MaxOfTwo
  <2>1. /\ stateSeq'[c] \in {stateSeq[c], m.seq}
        /\ stateSeq[c] <= stateSeq'[c] /\ m.seq <= stateSeq'[c]
        /\ \A d \in Clients \ {c} : stateSeq'[d] = stateSeq[d]
    <3>1. newSeq \in {stateSeq[c], m.seq} /\ stateSeq[c] <= newSeq /\ m.seq <= newSeq
      BY <1>1, <2>0
    <3>2. stateSeq' = [stateSeq EXCEPT ![c] = newSeq]  BY <1>5
    <3> HIDE DEF newSeq
    <3> QED BY <1>1, <3>1, <3>2
  <2>2. /\ applied[c] <= applied'[c] /\ m.applied <= applied'[c] /\ applied'[c] \in Nat
        /\ \A d \in Clients \ {c} : applied'[d] = applied[d]
    <3>1. newApplied \in Nat /\ applied[c] <= newApplied /\ m.applied <= newApplied
      BY <1>1, <2>0
    <3>2. applied' = [applied EXCEPT ![c] = newApplied]  BY <1>5
    <3> HIDE DEF newApplied
    <3> QED BY <1>1, <3>1, <3>2
  <2>3. /\ c \in Procs /\ seen'[c] = seen[c] \cup {<<Server, m.seq>>}
        /\ \A d \in Clients \ {c} : seen'[d] = seen[d]
    BY <1>0, <1>1, <1>5, Constants DEF Delivered, Types
  <2>4. \A d \in Clients : \A k \in Got(d)' : k \in Got(d) \/ (d = c /\ k = m)
    <3> SUFFICES ASSUME NEW d \in Clients, NEW k \in Got(d)', k \notin Got(d)
                 PROVE  d = c /\ k = m
      OBVIOUS
    <3>1. k \in sent /\ k.kind = "state" /\ k.peer = d /\ <<Server, k.seq>> \in seen'[d]
          /\ <<Server, k.seq>> \notin seen[d]
      BY <1>2 DEF Got
    <3>2. d = c /\ k.seq = m.seq  BY <2>3, <3>1
    <3> QED BY <1>1, <3>1, <3>2 DEF GotInv
  <2>5. \A d \in Clients : \A k \in Got(d)' : k.seq <= stateSeq'[d] /\ k.applied <= applied'[d]
    <3> SUFFICES ASSUME NEW d \in Clients, NEW k \in Got(d)'
                 PROVE  k.seq <= stateSeq'[d] /\ k.applied <= applied'[d]
      OBVIOUS
    <3>1. CASE d = c /\ k = m  BY <2>1, <2>2, <3>1
    <3>2. CASE k \in Got(d)
      <4>1. k.seq <= stateSeq[d] /\ k.applied <= applied[d]  BY <3>2 DEF GotInv
      <4>2. k.seq \in Nat /\ k.applied \in Nat /\ stateSeq[d] \in Nat /\ applied[d] \in Nat
        BY <1>1, <3>2, StatesPlaced DEF Got
      <4>3. stateSeq'[d] \in Nat /\ applied'[d] \in Nat
            /\ stateSeq[d] <= stateSeq'[d] /\ applied[d] <= applied'[d]
        BY <1>1, <2>1, <2>2
      <4> QED BY <4>1, <4>2, <4>3
    <3> QED BY <2>4, <3>1, <3>2
  <2>6. \A k : InPlan(k) => InPlan(k)'  BY <1>2 DEF InPlan, InWindow, Sched, Stop
  <2>7. \A d \in Clients : stateSeq'[d] # 0 => InPlan(stateSeq[d])'
    <3> SUFFICES ASSUME NEW d \in Clients, stateSeq'[d] # 0 PROVE InPlan(stateSeq[d])'
      OBVIOUS
    <3>1. InPlan(m.seq)  BY <1>1, <1>5 DEF GotInv
    <3>2. stateSeq[d] # 0 => InPlan(stateSeq[d])  BY DEF GotInv
    <3>3. stateSeq'[d] = m.seq \/ stateSeq'[d] = stateSeq[d]  BY <2>1
    <3> QED BY <1>2, <3>1, <3>2, <3>3 DEF InPlan, InWindow, Sched, Stop
  <2>8. \A k \in sent' : k.kind = "state" /\ k.measured => InPlan(k.seq)'
    BY <1>2, <2>6 DEF GotInv
  <2>9. \A k \in sent', l \in sent' :
          k.kind = "state" /\ l.kind = "state" /\ k.peer = l.peer /\ k.seq = l.seq => k = l
    BY <1>2 DEF GotInv
  <2> QED BY <2>5, <2>7, <2>8, <2>9 DEF GotInv
<1> QED BY <1>4, <1>5 DEF ClientReceives, metricsVars

(* What is sent anew is of slots that nobody has been told of.               *)
LEMMA GotSent ==
  ASSUME IInv, [Next]_vars, GotInv, NEW b \in Nat, SendStates(b), begin'[Server] = b,
         UNCHANGED <<window, seen, stateSeq, applied>>
  PROVE  GotInv'
<1>0. Types /\ MessageInv /\ DeliveredInv  BY DEF IInv
<1>1. next[Server] \in Nat /\ Server \in Procs  BY <1>0, Constants DEF Types
<1> DEFINE D == Due(Server, b, Cutoff(Server))
           M == Measured(Server, b, D)
<1>2. PICK taken \in SUBSET ({c \in Clients : conn[c].roster /\ conn[c].up} \X D) :
        sent' = sent \cup {State(t[1], t[2], t[2] \in M) : t \in taken}
  BY DEF SendStates
<1>3. \A n \in D : n >= next[Server]  BY <1>1 DEF Due
<1>4. \A n \in M : InPlan(n)'
  BY DEF Measured, InPlan, InWindow, Sched, Stop
<1> HIDE DEF D, M
<1>5. ASSUME NEW m \in sent', m \notin sent
      PROVE  /\ m.seq >= next[Server]
             /\ m = State(m.peer, m.seq, m.seq \in M)
             /\ m.measured => InPlan(m.seq)'
  <2>1. PICK t \in taken : m = State(t[1], t[2], t[2] \in M)  BY <1>2, <1>5
  <2>2. m.peer = t[1] /\ m.seq = t[2] /\ m.measured = (t[2] \in M)  BY <2>1 DEF State
  <2>3. t[2] \in D  BY <1>2
  <2> QED BY <1>3, <1>4, <2>1, <2>2, <2>3
<1>6. \A m \in sent : m.kind = "state" => m.seq \in Nat /\ m.seq < next[Server]
  BY <1>1, StatesPlaced
<1>7. \A m \in sent', k \in sent' :
        m.kind = "state" /\ k.kind = "state" /\ m.peer = k.peer /\ m.seq = k.seq => m = k
  <2> SUFFICES ASSUME NEW m \in sent', NEW k \in sent', m.kind = "state", k.kind = "state",
                      m.peer = k.peer, m.seq = k.seq
               PROVE  m = k
    OBVIOUS
  <2>1. CASE m \in sent /\ k \in sent  BY <2>1 DEF GotInv
  <2>2. CASE m \notin sent /\ k \notin sent  BY <1>5, <2>2
  <2>3. CASE m \in sent /\ k \notin sent  BY <1>1, <1>5, <1>6, <2>3
  <2>4. CASE m \notin sent /\ k \in sent  BY <1>1, <1>5, <1>6, <2>4
  <2> QED BY <2>1, <2>2, <2>3, <2>4
<1>8. \A m \in sent' : m.kind = "state" /\ m.measured => InPlan(m.seq)'
  BY <1>5, PlanKept, StatesPlaced DEF GotInv
<1>9. \A c \in Clients : stateSeq'[c] # 0 => InPlan(stateSeq[c])'
  BY PlanKept, StatesPlaced DEF GotInv
<1>10. \A c \in Clients : \A n : <<Server, n>> \in seen[c] => n \in 1..(next[Server] - 1)
  <2> SUFFICES ASSUME NEW c \in Clients, NEW n, <<Server, n>> \in seen[c]
               PROVE  n \in 1..(next[Server] - 1)
    OBVIOUS
  <2>1. PICK t \in StatesTaken : t[1] = c /\ <<Server, n>> = <<Server, t[2]>>
    BY <1>0 DEF DeliveredInv
  <2> QED BY <1>0, <2>1, TakenWithin
<1>11. \A c \in Clients : \A m \in Got(c)' : m \in Got(c)
  <2> SUFFICES ASSUME NEW c \in Clients, NEW m \in Got(c)' PROVE m \in Got(c)  OBVIOUS
  <2>1. m \in sent' /\ <<Server, m.seq>> \in seen[c]  BY DEF Got
  <2>2. m \in sent  BY <1>1, <1>5, <1>10, <2>1
  <2> QED BY <2>2 DEF Got
<1>12. \A c \in Clients : \A m \in Got(c)' : m.seq <= stateSeq'[c] /\ m.applied <= applied'[c]
  BY <1>11 DEF GotInv
<1> QED BY <1>7, <1>8, <1>9, <1>12 DEF GotInv

LEMMA GotInit == Init => GotInv
BY DEF Init, GotInv, Got

LEMMA GotInductive == IInv /\ GotInv /\ [Next]_vars => GotInv'
<1> SUFFICES ASSUME IInv, GotInv, [Next]_vars PROVE GotInv'  OBVIOUS
<1>0. Types /\ Server \in Procs /\ Server \notin Clients  BY Constants DEF IInv
<1>1. CASE Freeze \/ ServerSends
  <2>1. UNCHANGED <<window, seen, stateSeq, applied>>
    BY <1>1 DEF Freeze, ServerSends, clientVars
  <2>2. CASE Freeze
    <3>1. begin'[Server] = clock /\ SendStates(clock) /\ clock \in Nat
      BY <1>0, <2>2, Constants DEF Freeze, Types
    <3> QED BY <2>1, <3>1, GotSent
  <2>3. CASE ServerSends
    <3>1. begin'[Server] = begin[Server] /\ SendStates(begin[Server]) /\ begin[Server] \in Nat
      BY <1>0, <2>3, Constants DEF ServerSends, Types
    <3> QED BY <2>1, <3>1, GotSent
  <2> QED BY <1>1, <2>2, <2>3
<1>2. CASE \E m \in sent : ClientReceives(m)  BY <1>2, GotReceived
<1>3. CASE \E m \in sent : ServerReceives(m)
  <2>1. PICK m \in sent : ServerReceives(m)  BY <1>3
  <2>2. sent' = sent /\ UNCHANGED <<stateSeq, applied>>
    BY <2>1 DEF ServerReceives, clientVars
  <2>3. \A c \in Clients : seen'[c] = seen[c]
    <3>1. seen' = seen \/ \E key : seen' = [seen EXCEPT ![Server] = @ \cup {key}]
      BY <2>1 DEF ServerReceives, Delivered, metricsVars
    <3>2. Server \notin Clients /\ Clients \subseteq Procs  BY Constants
    <3>3. seen \in [Procs -> SUBSET (Procs \X Nat)]  BY <1>0 DEF Types
    <3> QED BY <3>1, <3>2, <3>3
  <2> QED BY <2>2, <2>3, GotFrame
<1>4. CASE \/ \E c \in Clients : \/ ClientConnected(c) \/ ClientDisconnected(c) \/ Ready(c)
                                 \/ ServerConnected(c) \/ ServerDisconnected(c)
                                 \/ ClientSends(c) \/ ClientDone(c)
           \/ \E p \in Procs : ReadSchedule(p) \/ TakeWindow(p)
           \/ GiveUp \/ ServerDone \/ Tick \/ UNCHANGED vars
  <2>1. UNCHANGED <<seen, stateSeq, applied>>
    BY <1>4 DEF ClientConnected, ClientDisconnected, Ready, ServerConnected, ServerDisconnected,
       ClientSends, ClientDone, ReadSchedule, TakeWindow, GiveUp, ServerDone, Tick, vars,
       metricsVars, clientVars
  <2>2. \A m \in sent' : m \in sent \/ m.kind # "state"
    <3>1. CASE \E c \in Clients : ClientConnected(c)
      BY <3>1 DEF ClientConnected, Registration
    <3>2. CASE \E c \in Clients : ClientSends(c)
      BY <3>2 DEF ClientSends, Input
    <3>3. CASE ~(\E c \in Clients : ClientConnected(c) \/ ClientSends(c))
      <4>1. sent' = sent
        BY <1>4, <3>3 DEF ClientDisconnected, Ready, ServerConnected, ServerDisconnected,
           ClientDone, ReadSchedule, TakeWindow, GiveUp, ServerDone, Tick, vars
      <4> QED BY <4>1
    <3> QED BY <3>1, <3>2, <3>3
  <2> QED BY <2>1, <2>2, GotFrame
<1> QED BY <1>1, <1>2, <1>3, <1>4 DEF Next, Network, Loops

LEMMA GotInvariance == Spec => [](IInv /\ GotInv)
BY InitInv, Inductive, GotInit, GotInductive, PTL DEF Spec

-----------------------------------------------------------------------------
(* What the invariant says of the properties                                *)

(* No plan runs past the window, so every number stays within it.            *)
LEMMA NextInRange ==
  ASSUME IInv, NEW p \in Procs
  PROVE  next[p] - 1 <= Stop(Start) /\ next[p] \in 1..(Stop(Start) + 1) /\ Stop(Start) \in Nat
<1>0. Types /\ LookedAt  BY DEF IInv
<1>1. Stop(Start) \in Nat  BY Constants DEF Stop
<1>2. window[p] \in {Start, Early} /\ next[p] \in Nat \ {0} /\ begin[p] \in Nat
      /\ Stop(window[p]) \in Nat
  BY <1>0, StopType DEF Types
<1>3. Stop(window[p]) <= Stop(Start)  BY <1>2, Constants DEF Stop
<1>4. next[p] - 1 <= Stop(Start)
  <2>1. CASE next[p] = 1  BY <1>1, <2>1
  <2>2. CASE next[p] # 1
    <3> DEFINE n == next[p] - 1
    <3>1. n \in Nat \ {0} /\ n \in 1..(next[p] - 1)  BY <1>2, <2>2
    <3>2. Sched(p, begin[p], n) < Stop(window[p])  BY <1>0, <3>1 DEF LookedAt
    <3>3. n - 1 <= Sched(p, begin[p], n) /\ Sched(p, begin[p], n) \in Nat
      BY <1>2, <3>1, SchedGrows
    <3> HIDE DEF n
    <3>4. n <= Stop(Start)  BY <1>1, <1>2, <1>3, <3>1, <3>2, <3>3
    <3> QED BY <3>4 DEF n
  <2> QED BY <2>1, <2>2
<1> QED BY <1>1, <1>2, <1>4

LEMMA InvImpliesTypeOK == IInv => SutTypeOK
<1> SUFFICES ASSUME IInv PROVE SutTypeOK  OBVIOUS
<1>0. Types /\ MessageInv /\ InputInv /\ DeliveredInv /\ RosterExact  BY DEF IInv
<1> DEFINE top == Stop(Start)
<1>1. \A p \in Procs : next[p] - 1 <= top /\ next[p] \in 1..(top + 1)  BY NextInRange
<1>2. top \in Nat /\ Server \in Procs /\ Clients \subseteq Procs
  BY NextInRange, Constants
<1> HIDE DEF top
<1>3. next \in [Procs -> 1..(top + 1)]  BY <1>0, <1>1 DEF Types
<1>4. \A t \in InputsTaken : t \in Clients \X (1..top)
  <2> SUFFICES ASSUME NEW t \in InputsTaken PROVE t \in Clients \X (1..top)  OBVIOUS
  <2>1. t[1] \in Clients /\ t[2] \in 1..(next[t[1]] - 1)  BY <1>0, TakenWithin
  <2>2. t = <<t[1], t[2]>>  BY DEF InputsTaken
  <2>3. next[t[1]] - 1 <= top /\ next[t[1]] \in Nat  BY <1>1, <1>2, <2>1
  <2>4. t[2] \in 1..top  BY <1>2, <2>1, <2>3
  <2> QED BY <2>1, <2>2, <2>4
<1>5. \A t \in StatesTaken : t \in Clients \X (1..top)
  <2> SUFFICES ASSUME NEW t \in StatesTaken PROVE t \in Clients \X (1..top)  OBVIOUS
  <2>1. t[1] \in Clients /\ t[2] \in 1..(next[Server] - 1)  BY <1>0, TakenWithin
  <2>2. t = <<t[1], t[2]>>  BY DEF StatesTaken
  <2>3. next[Server] - 1 <= top /\ next[Server] \in Nat  BY <1>1, <1>2
  <2>4. t[2] \in 1..top  BY <1>2, <2>1, <2>3
  <2> QED BY <2>1, <2>2, <2>4
<1>6. seen \in [Procs -> SUBSET (Procs \X (1..top))]
  <2>1. seen \in [Procs -> SUBSET (Procs \X Nat)]  BY <1>0 DEF Types
  <2>2. ASSUME NEW p \in Procs PROVE seen[p] \subseteq Procs \X (1..top)
    <3>1. CASE p = Server
      <4>1. seen[Server] \subseteq InputsTaken  BY <1>0 DEF DeliveredInv
      <4> QED BY <1>2, <1>4, <3>1, <4>1
    <3>2. CASE p \in Clients
      <4>1. seen[p] \subseteq {<<Server, t[2]>> : t \in {u \in StatesTaken : u[1] = p}}
        BY <1>0, <3>2 DEF DeliveredInv
      <4>2. \A t \in StatesTaken : t[2] \in 1..top  BY <1>5
      <4> QED BY <1>2, <4>1, <4>2
    <3> QED BY <3>1, <3>2 DEF Procs
  <2> QED BY <2>1, <2>2
<1>7. ASSUME NEW c \in Clients
      PROVE  /\ input[c] \in 0..top /\ inputSent[c] \in 0..top
             /\ stateSeq[c] \in 0..top /\ applied[c] \in 0..top /\ conn[c].input \in 0..top
  <2>1. /\ input[c] \in Nat /\ inputSent[c] \in Nat /\ stateSeq[c] \in Nat
        /\ applied[c] \in Nat /\ conn[c].input \in Nat
    BY <1>0 DEF Types
  <2>2. /\ input[c] < next[c] /\ applied[c] <= input[c] /\ conn[c].input <= input[c]
        /\ stateSeq[c] < next[Server] /\ (inputSent[c] # 0 => inputSent[c] = input[c])
    BY <1>0 DEF InputInv
  <2>3. next[c] \in Nat /\ next[Server] \in Nat /\ next[c] - 1 <= top /\ next[Server] - 1 <= top
    BY <1>1, <1>2
  <2> QED BY <1>2, <2>1, <2>2, <2>3
<1>8. {input, inputSent, stateSeq, applied} \subseteq [Clients -> 0..top]
  <2>1. /\ input \in [Clients -> Nat] /\ inputSent \in [Clients -> Nat]
        /\ stateSeq \in [Clients -> Nat] /\ applied \in [Clients -> Nat]
    BY <1>0 DEF Types
  <2>2. input \in [Clients -> 0..top]  BY <1>7, <2>1
  <2>3. inputSent \in [Clients -> 0..top]  BY <1>7, <2>1
  <2>4. stateSeq \in [Clients -> 0..top]  BY <1>7, <2>1
  <2>5. applied \in [Clients -> 0..top]  BY <1>7, <2>1
  <2> QED BY <2>2, <2>3, <2>4, <2>5
<1>9. conn \in [Clients -> [up : BOOLEAN, origin : BOOLEAN, roster : BOOLEAN, input : 0..top]]
  <2>1. conn \in [Clients -> [up : BOOLEAN, origin : BOOLEAN, roster : BOOLEAN, input : Nat]]
    BY <1>0 DEF Types
  <2> SUFFICES ASSUME NEW c \in Clients
               PROVE  conn[c] \in [up : BOOLEAN, origin : BOOLEAN, roster : BOOLEAN, input : 0..top]
    BY <2>1
  <2> DEFINE r == conn[c]
  <2>2. r \in [up : BOOLEAN, origin : BOOLEAN, roster : BOOLEAN, input : Nat] /\ r.input \in 0..top
    BY <1>7, <2>1
  <2> HIDE DEF r
  <2>3. r \in [up : BOOLEAN, origin : BOOLEAN, roster : BOOLEAN, input : 0..top]  BY <2>2
  <2> QED BY <2>3 DEF r
<1>10. registered \in 0..Cardinality(Clients)
  <2> DEFINE O == {c \in Clients : conn[c].origin}
  <2>1. O \subseteq Clients /\ registered = Cardinality(O) /\ registered \in Nat
    BY <1>0 DEF RosterExact, Types
  <2> HIDE DEF O
  <2>2. Cardinality(O) <= Cardinality(Clients) /\ Cardinality(Clients) \in Nat
    BY <2>1, Constants, FS_Subset, FS_CardinalityType
  <2> QED BY <2>1, <2>2
<1>11. /\ clock \in 0..MaxClock /\ moves \in BOOLEAN
       /\ stage \in [Procs -> {"connecting", "waiting", "running", "done", "failed"}]
       /\ window \in [Procs -> {Start, Early}] /\ begin \in [Procs -> 0..MaxClock]
  BY <1>0 DEF Types
<1>12. /\ counts \in [Procs -> [slots : Nat, submitted : Nat, delivered : Nat]]
       /\ invalid \in [Procs -> BOOLEAN] /\ up \in [Clients -> BOOLEAN]
       /\ frozen \in BOOLEAN /\ stateTicks \in Nat
  BY <1>0 DEF Types
<1> QED BY <1>3, <1>6, <1>8, <1>9, <1>10, <1>11, <1>12 DEF SutTypeOK, top

(* When a process is done, what it has accounted for is all of its window.   *)
LEMMA DoneAccounts ==
  ASSUME IInv, NEW p \in Procs, stage[p] = "done", p = Server => frozen
  PROVE  Planned(p) = Accounted(p)
         /\ \A n \in Nat \ {0} : InWindow(window[p], Sched(p, begin[p], n)) <=> n \in Accounted(p)
<1>0. Types /\ LookedAt /\ DoneInv  BY DEF IInv
<1>1. /\ begin[p] \in Nat /\ next[p] \in Nat \ {0} /\ Stop(window[p]) \in Nat
      /\ Stop(window[p]) <= DrainUntil(window[p]) /\ window[p] \in {Start, Early}
      /\ DrainUntil(window[p]) \in Nat
  BY <1>0, StopType DEF Types
<1>2. DrainUntil(window[p]) <= MaxClock  BY <1>1, Constants DEF DrainUntil, Stop, MaxClock
<1>3. ASSUME NEW n \in Nat \ {0}, InWindow(window[p], Sched(p, begin[p], n))
      PROVE  n \in 1..(next[p] - 1) /\ n \in 1..(MaxClock + 1)
  <2>1. Sched(p, begin[p], n) < Stop(window[p])  BY <1>3 DEF InWindow
  <2>2. n < next[p]  BY <1>0, <2>1 DEF DoneInv
  <2>3. Sched(p, begin[p], n) \in Nat /\ n - 1 <= Sched(p, begin[p], n)  BY <1>1, SchedGrows
  <2>4. n - 1 <= MaxClock  BY <1>1, <1>2, <2>1, <2>3, Constants
  <2> QED BY <1>1, <2>2, <2>4, Constants
<1>4. \A n \in Nat \ {0} : InWindow(window[p], Sched(p, begin[p], n)) <=> n \in Accounted(p)
  BY <1>1, <1>3 DEF Accounted, Measured
<1>5. \A n : n \in Planned(p) <=> n \in Nat \ {0} /\ InWindow(window[p], Sched(p, begin[p], n))
  BY <1>3, Constants DEF Planned, Measured
<1>6. \A n \in Accounted(p) : n \in Nat \ {0}  BY DEF Accounted, Measured
<1> QED BY <1>4, <1>5, <1>6

LEMMA InvImpliesSlotsExact == IInv => SlotsExact
<1> SUFFICES ASSUME IInv, NEW p \in Procs, stage[p] = "done", p = Server => frozen
             PROVE  /\ counts[p].slots = Cardinality(Targets(p) \X Planned(p))
                    /\ p = Server => stateTicks = Cardinality(Planned(p))
  BY DEF SlotsExact
<1>1. Planned(p) = Accounted(p)  BY DoneAccounts
<1>2. SlotInv  BY DEF IInv
<1> QED BY <1>1, <1>2 DEF SlotInv

(* The sums over the clients count what was taken in either direction.       *)
LEMMA InvImpliesDelivered == IInv => DeliveredWasSubmitted
<1> SUFFICES ASSUME IInv PROVE DeliveredWasSubmitted  OBVIOUS
<1>0. Types /\ MessageInv /\ SubmittedInv /\ DeliveredInv  BY DEF IInv
<1>1. Server \in Procs /\ Clients \subseteq Procs /\ IsFiniteSet(Clients) /\ Server \notin Clients
  BY Constants
<1>2. \A c \in Clients : counts[c].submitted \in Nat /\ counts[c].delivered \in Nat
  BY <1>0, <1>1 DEF Types
<1>3. IsFiniteSet(StatesTaken) /\ counts[Server].submitted = Cardinality(StatesTaken)
  BY <1>0, <1>1, TakenWithin DEF SubmittedInv, Taken
<1>4. SumFunction([c \in Clients |-> counts[c].submitted]) = Cardinality(InputsTaken)
      /\ IsFiniteSet(InputsTaken)
  <2> DEFINE G(c) == {n \in Nat : <<c, n>> \in InputsTaken}
             F == [c \in Clients |-> G(c)]
             g == [c \in Clients |-> counts[c].submitted]
  <2>1. ASSUME NEW c \in Clients PROVE IsFiniteSet(G(c)) /\ counts[c].submitted = Cardinality(G(c))
    <3> DEFINE B == 1..(next[c] - 1)
    <3>1. IsFiniteSet(B)
      <4>1. next[c] - 1 \in Int /\ 1 \in Int  BY <1>0, <1>1 DEF Types
      <4> QED BY <4>1, FS_Interval
    <3>2. \A t \in InputsTaken : t[2] \in 1..(next[t[1]] - 1)  BY <1>0, TakenWithin
    <3>3. G(c) \subseteq B
      <4> SUFFICES ASSUME NEW n \in Nat, <<c, n>> \in InputsTaken PROVE n \in B  OBVIOUS
      <4> DEFINE t == <<c, n>>
      <4>1. t[1] = c /\ t[2] = n /\ t \in InputsTaken  OBVIOUS
      <4> HIDE DEF t
      <4> QED BY <3>2, <4>1
    <3> HIDE DEF B
    <3>4. IsFiniteSet(G(c))  BY <3>1, <3>3, FS_Subset
    <3>5. Taken(c) = {c} \X G(c)
      <4>1. Taken(c) = {t \in InputsTaken : t[1] = c}  BY <1>1 DEF Taken
      <4>2. InputsTaken \subseteq Clients \X Nat  BY DEF InputsTaken
      <4> QED BY <4>1, <4>2
    <3>6. Cardinality({c} \X G(c)) = Cardinality(G(c))
      <4> HIDE DEF G
      <4> QED BY <3>4, ProductOfOne
    <3> QED BY <1>0, <1>1, <3>4, <3>5, <3>6 DEF SubmittedInv
  <2>2. F \in [Clients -> SUBSET Nat] /\ g \in [Clients -> Nat]  BY <1>2
  <2>3. \A c \in Clients : IsFiniteSet(F[c]) /\ g[c] = Cardinality(F[c])  BY <2>1
  <2>4. Pairs(Clients, Nat, F) = InputsTaken
    <3>1. InputsTaken \subseteq Clients \X Nat  BY DEF InputsTaken
    <3>2. \A t \in Clients \X Nat : t[2] \in F[t[1]] <=> t \in InputsTaken  OBVIOUS
    <3> HIDE DEF F
    <3> QED BY <3>1, <3>2 DEF Pairs
  <2> HIDE DEF F, g
  <2>5. IsFiniteSet(Pairs(Clients, Nat, F)) /\ SumFunction(g) = Cardinality(Pairs(Clients, Nat, F))
    BY <1>1, <2>2, <2>3, SumOfSizes
  <2>6. SumFunction(g) = Cardinality(InputsTaken) /\ IsFiniteSet(InputsTaken)  BY <2>4, <2>5
  <2> QED BY <2>6 DEF g
<1>5. counts[Server].delivered <= Cardinality(InputsTaken)
  <2>1. seen[Server] \subseteq InputsTaken /\ counts[Server].delivered = Cardinality(seen[Server])
    BY <1>0, <1>1 DEF DeliveredInv
  <2> QED BY <1>4, <2>1, FS_Subset
<1>6. SumFunction([c \in Clients |-> counts[c].delivered]) <= Cardinality(StatesTaken)
  <2> DEFINE G(c) == {n \in Nat : <<Server, n>> \in seen[c]}
             F == [c \in Clients |-> G(c)]
             g == [c \in Clients |-> counts[c].delivered]
  <2>1. ASSUME NEW c \in Clients
        PROVE  /\ IsFiniteSet(G(c)) /\ counts[c].delivered = Cardinality(G(c))
               /\ \A n \in G(c) : <<c, n>> \in StatesTaken
    <3>1. /\ IsFiniteSet(seen[c]) /\ counts[c].delivered = Cardinality(seen[c])
          /\ seen[c] \subseteq {<<Server, t[2]>> : t \in {u \in StatesTaken : u[1] = c}}
      BY <1>0, <1>1 DEF DeliveredInv
    <3>2. StatesTaken \subseteq Clients \X Nat  BY DEF StatesTaken
    <3>3. seen[c] = {Server} \X G(c)
      <4>1. \A x \in seen[c] : \E n \in Nat : x = <<Server, n>>  BY <3>1, <3>2
      <4> QED BY <4>1
    <3>4. \A n \in G(c) : <<c, n>> \in StatesTaken
      <4> SUFFICES ASSUME NEW n \in Nat, <<Server, n>> \in seen[c] PROVE <<c, n>> \in StatesTaken
        OBVIOUS
      <4>1. PICK t \in StatesTaken : t[1] = c /\ <<Server, n>> = <<Server, t[2]>>  BY <3>1
      <4>2. t = <<t[1], t[2]>> /\ t[2] = n  BY <3>2, <4>1
      <4> QED BY <4>1, <4>2
    <3>5. IsFiniteSet(G(c))
      <4> DEFINE B == 1..(next[Server] - 1)
      <4>1. IsFiniteSet(B)
        <5>1. next[Server] - 1 \in Int /\ 1 \in Int  BY <1>0, <1>1 DEF Types
        <5> QED BY <5>1, FS_Interval
      <4>2. \A t \in StatesTaken : t[2] \in B  BY <1>0, TakenWithin
      <4> HIDE DEF B
      <4>3. G(c) \subseteq B
        <5> SUFFICES ASSUME NEW n \in G(c) PROVE n \in B  OBVIOUS
        <5> DEFINE t == <<c, n>>
        <5>1. t \in StatesTaken /\ t[2] = n  BY <3>4
        <5> HIDE DEF t
        <5> QED BY <4>2, <5>1
      <4> HIDE DEF G
      <4> QED BY <4>1, <4>3, FS_Subset
    <3>6. Cardinality({Server} \X G(c)) = Cardinality(G(c))
      <4> HIDE DEF G
      <4> QED BY <3>5, ProductOfOne
    <3> QED BY <3>1, <3>3, <3>4, <3>5, <3>6
  <2>2. F \in [Clients -> SUBSET Nat] /\ g \in [Clients -> Nat]  BY <1>2
  <2>3. \A c \in Clients : IsFiniteSet(F[c]) /\ g[c] = Cardinality(F[c])  BY <2>1
  <2>4. Pairs(Clients, Nat, F) \subseteq StatesTaken
    <3>1. \A c \in Clients : \A n \in F[c] : <<c, n>> \in StatesTaken  BY <2>1
    <3> HIDE DEF F
    <3> QED BY <3>1 DEF Pairs
  <2> HIDE DEF F, g
  <2>5. IsFiniteSet(Pairs(Clients, Nat, F)) /\ SumFunction(g) = Cardinality(Pairs(Clients, Nat, F))
    BY <1>1, <2>2, <2>3, SumOfSizes
  <2>6. SumFunction(g) <= Cardinality(StatesTaken)  BY <1>3, <2>4, <2>5, FS_Subset
  <2> QED BY <2>6 DEF g
<1> QED BY <1>3, <1>4, <1>5, <1>6 DEF DeliveredWasSubmitted

(* Two clients that have got the newest tick of the window are on it.        *)
LEMMA SameTick ==
  ASSUME IInv, GotInv, NEW c \in Clients, NEW d \in Clients, stateSeq[d] # stateSeq[c]
  PROVE  \E e \in Clients, n \in NewestTick : <<Server, n>> \notin seen[e]
<1> DEFINE S == Accounted(Server)
           top == next[Server] - 1
<1>1. \A e \in Clients : stateSeq[e] # 0 => stateSeq[e] \in S
  BY StatesPlaced DEF GotInv, InPlan, Accounted, Measured
<1>2. top \in Nat /\ S \in SUBSET (0..top)
  <2>1. next[Server] \in Nat \ {0}  BY Constants DEF IInv, Types
  <2> QED BY <2>1 DEF Accounted, Measured
<1>3. S # {}  BY <1>1
<1>4. NewestTick = {n \in S : \A k \in S : k <= n}  BY DEF NewestTick, Accounted
<1> HIDE DEF S, top
<1>5. PICK n \in S : \A k \in S : n >= k  BY <1>2, <1>3, GreatestExists
<1>6. n \in NewestTick  BY <1>2, <1>4, <1>5
<1>7. ASSUME NEW e \in Clients, <<Server, n>> \in seen[e] PROVE stateSeq[e] = n
  <2>1. PICK t \in StatesTaken : t[1] = e /\ <<Server, n>> = <<Server, t[2]>>
    BY <1>7 DEF IInv, DeliveredInv
  <2>2. PICK a \in Nat : StateOf(t[1], t[2], TRUE, a) \in sent  BY DEF StatesTaken
  <2> DEFINE m == StateOf(t[1], t[2], TRUE, a)
  <2>3. m \in Got(e) /\ m.seq = n  BY <1>7, <2>1, <2>2 DEF Got, StateOf
  <2>4. n <= stateSeq[e]  BY <2>3 DEF GotInv
  <2>5. stateSeq[e] \in Nat /\ n \in Nat /\ n # 0
    <3>1. n \in 1..(next[Server] - 1)  BY <1>5 DEF S, Accounted, Measured
    <3> QED BY <1>2, <3>1, StatesPlaced DEF top
  <2>6. stateSeq[e] <= n  BY <1>1, <1>5, <2>4, <2>5
  <2> QED BY <2>4, <2>5, <2>6
<1> QED BY <1>6, <1>7

LEMMA InvImpliesGate == IInv /\ GotInv => GateHolds
<1> SUFFICES ASSUME IInv, GotInv PROVE GateHolds  OBVIOUS
<1>0. Types /\ SlotInv /\ InputInv /\ RosterExact /\ NothingInvalid  BY DEF IInv
<1>1. Server \in Procs /\ Clients \subseteq Procs  BY Constants
<1>2. ASSUME NEW c \in Clients, inputSent[c] # 0
      PROVE  ClientFailures(c) \subseteq Deserved(c)
  <2>1. applied[c] \in Nat /\ stateSeq[c] \in Nat /\ inputSent[c] \in Nat /\ input[c] \in Nat
    BY <1>0 DEF Types
  <2>2. applied[c] <= input[c] /\ inputSent[c] = input[c]  BY <1>0, <1>2 DEF InputInv
  <2>3. ~(applied[c] > inputSent[c]) /\ ~invalid[c]  BY <1>0, <1>1, <2>1, <2>2 DEF NothingInvalid
  <2>4. \A m \in Got(c) : /\ m.seq <= stateSeq[c] /\ m.applied <= applied[c]
                          /\ m.seq \in Nat /\ m.seq # 0 /\ m.applied \in Nat
    <3>1. \A m \in Got(c) : m \in sent /\ m.kind = "state"  BY DEF Got
    <3>2. next[Server] \in Nat  BY <1>0, <1>1 DEF Types
    <3> QED BY <3>1, <3>2, StatesPlaced DEF GotInv
  <2>5. stateSeq[c] = 0 => Got(c) = {}  BY <2>1, <2>4
  <2>6. applied[c] = 0 => \A m \in Got(c) : m.applied = 0  BY <2>1, <2>4
  <2>7. applied[c] + 1 < inputSent[c] => \A m \in Got(c) : m.applied + 1 < inputSent[c]
    BY <2>1, <2>4
  <2>8. (\E d \in Clients : stateSeq[d] # stateSeq[c])
        => \E d \in Clients, n \in NewestTick : <<Server, n>> \notin seen[d]
    BY SameTick
  <2>9. ASSUME NEW f \in ClientFailures(c) PROVE f \in Deserved(c)
    <3>1. f \in {"no_input", "no_state", "no_applied_input", "exceeds", "corruption", "behind", "tick"}
      BY DEF ClientFailures
    <3>2. f \notin {"no_input", "exceeds", "corruption"}  BY <1>2, <2>3 DEF ClientFailures
    <3>3. CASE f = "no_state"  BY <2>5, <3>3 DEF ClientFailures, Deserved
    <3>4. CASE f = "no_applied_input"  BY <2>6, <3>4 DEF ClientFailures, Deserved
    <3>5. CASE f = "behind"  BY <2>7, <3>5 DEF ClientFailures, Deserved
    <3>6. CASE f = "tick"  BY <2>8, <3>6 DEF ClientFailures, Deserved
    <3> QED BY <3>1, <3>2, <3>3, <3>4, <3>5, <3>6
  <2> QED BY <2>9
<1>3. ASSUME stage[Server] = "done", frozen, begin[Server] <= window[Server]
      PROVE  ServerFailures = {}
  <2>1. registered = Cardinality(Clients)
    <3>1. {c \in Clients : conn[c].origin} = Clients  BY <1>0, <1>3 DEF RosterExact
    <3> QED BY <1>0, <3>1 DEF RosterExact
  <2>2. ~invalid[Server]  BY <1>0, <1>1 DEF NothingInvalid
  <2>3. stateTicks \in SlotRange(StateInterval, Duration, 1)
    <3>1. begin[Server] \in Nat /\ window[Server] \in Nat  BY <1>0, <1>1, StopType
    <3>2. StateInterval \in Nat /\ StateInterval >= 1 /\ Duration \in Nat /\ Duration >= 1
      BY Constants DEF Interval
    <3>3. Accounted(Server) = SlotsOfWindow(begin[Server], StateInterval, window[Server], Duration)
      <4>1. \A n \in Nat \ {0} :
              InWindow(window[Server], Sched(Server, begin[Server], n)) <=> n \in Accounted(Server)
        BY <1>1, <1>3, DoneAccounts
      <4>2. \A n \in Accounted(Server) : n \in Nat \ {0}  BY DEF Accounted, Measured
      <4>3. \A n : Sched(Server, begin[Server], n) = SlotAt(begin[Server], StateInterval, n)
        BY DEF Sched, SlotAt, Interval
      <4> QED BY <4>1, <4>2, <4>3 DEF SlotsOfWindow, InWindow, Stop
    <3>4. Cardinality(SlotsOfWindow(begin[Server], StateInterval, window[Server], Duration))
            \in SlotRange(StateInterval, Duration, 1)
      BY <1>3, <3>1, <3>2, SlotRangeIsRight
    <3> QED BY <1>0, <3>3, <3>4 DEF SlotInv
  <2> QED BY <2>1, <2>2, <2>3 DEF ServerFailures
<1> QED BY <1>2, <1>3 DEF GateHolds

-----------------------------------------------------------------------------
(* The types of the state hold in every state: in particular the unsigned    *)
(* count of registered clients never leaves 0 to the number of clients, and  *)
(* no plan of bk_plan_next ever hands out a slot past its window.            *)
THEOREM ExchangeType == Spec => []SutTypeOK
BY Invariance, InvImpliesTypeOK, PTL

(* What the processes of a run report is exact: the slots of their window,   *)
(* the deliveries of each end within the submissions of the other, and no    *)
(* message of the other end taken for invalid (metrics.c and sut.c).         *)
THEOREM AccountsAreExact == Spec => []AccountsExact
<1>1. IInv => AccountsExact
  BY InvImpliesSlotsExact, InvImpliesDelivered DEF AccountsExact, IInv
<1> QED BY <1>1, Invariance, PTL

(* The count register_origin keeps is the number of clients with an origin,  *)
(* a frozen roster is complete, and the roster names live connections only.  *)
THEOREM RosterIsExact == Spec => []RosterExact
<1>1. IInv => RosterExact  BY DEF IInv
<1> QED BY <1>1, Invariance, PTL

(* The gate of the runner never fails a run for the bookkeeping of its       *)
(* processes: the server's ticks lie in expectedSlotRange for every interval *)
(* and every length of the window, no client is told of an input it has not  *)
(* counted, and the checks of a lossless run (final catch-up, one final tick *)
(* for all clients) fail only for states that did not reach a client.        *)
THEOREM GateOnlyJudgesTheLoad == Spec => []GateHolds
BY GotInvariance, InvImpliesGate, PTL
=============================================================================
