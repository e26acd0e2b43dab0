-------------------------- MODULE RudpSenderProofs --------------------------
(***************************************************************************)
(* For any numbers of flows, slots and messages, any ring capacities and   *)
(* any order of losses, acknowledgements, timeouts and partly taken        *)
(* batches: the books that the send path of coop_rudp keeps by hand agree  *)
(* with each other, and a message is freed as delivered only if it arrived.*)
(* In the configuration of the benchmark the numbers of the packets in     *)
(* flight stay within the window, and no reliable message is dropped.      *)
(*                                                                         *)
(* The argument: a reliable message is in one place at a time, because the *)
(* places are emptied where it leaves (Apart, with RingsHold, BatchHolds   *)
(* and SlotsHold for the entries of each); the numbers of the packets in   *)
(* the batch are above all the tracked ones and their slots are free       *)
(* (Numbered), so recording a packet overwrites nothing; and a requeue     *)
(* always finds the room its messages left behind (RoomLeft).              *)
(*                                                                         *)
(* For the window: reliable packets get consecutive numbers, since no slot *)
(* they meet is taken and no unreliable packet gets a number in between    *)
(* unless it is later in the flush than all of them (Windowed).  For the   *)
(* rings: a flow takes up new messages only when it has nothing to retry,  *)
(* so what may come back to its retry ring is then in packets, of which    *)
(* there are at most as many as slots, or as numbers in the window         *)
(* (RetryRoom).                                                            *)
(***************************************************************************)
EXTENDS RudpSender, NumberProofs, SequenceTheorems

-----------------------------------------------------------------------------
(* Sequences.                                                               *)

LEMMA Induct ==
  ASSUME NEW T \in SUBSET Nat, 0 \in T, \A n \in T : n + 1 \in T
  PROVE  T = Nat
<1> SUFFICES ASSUME Nat \ T # {} PROVE FALSE  OBVIOUS
<1>1. PICK x \in Nat \ T : \A y \in Nat \ T : x <= y  BY LeastExists
<1>2. x - 1 \in Nat /\ x - 1 \notin Nat \ T  BY <1>1
<1>3. (x - 1) + 1 \in T  BY <1>2
<1> QED BY <1>1, <1>3

(* A recursive function on 0..n is given by its value at 0 and by its steps. *)
IsStepOf(g, n, X) == g \in [(1..n) \X X -> X]
Unrolls(g, n, X, b) ==
  \E h \in [0..n -> X] : h[0] = b /\ \A i \in 1..n : h[i] = g[<<i, h[i - 1]>>]

LEMMA Recursion ==
  ASSUME NEW X, NEW n, NEW b, NEW g, n \in Nat, b \in X, IsStepOf(g, n, X)
  PROVE  Unrolls(g, n, X, b)
<1> USE DEF IsStepOf
<1> DEFINE Good(m, h) == h[0] = b /\ \A i \in 1..m : h[i] = g[<<i, h[i - 1]>>]
           T == {m \in Nat : m <= n => \E h \in [0..m -> X] : Good(m, h)}
<1>1. 0 \in T
  <2> DEFINE h == [i \in 0..0 |-> b]
  <2>1. h \in [0..0 -> X] /\ Good(0, h)  OBVIOUS
  <2> HIDE DEF h, Good
  <2> QED BY <2>1
<1>2. ASSUME NEW m \in T PROVE m + 1 \in T
  <2> SUFFICES ASSUME m + 1 <= n PROVE \E h \in [0..(m + 1) -> X] : Good(m + 1, h)  OBVIOUS
  <2>0. m \in Nat  OBVIOUS
  <2>1. PICK f \in [0..m -> X] : Good(m, f)  OBVIOUS
  <2> DEFINE v == g[<<m + 1, f[m]>>]
             h == [i \in 0..(m + 1) |-> IF i = m + 1 THEN v ELSE f[i]]
  <2>2. v \in X  OBVIOUS
  <2> HIDE DEF v
  <2>3. h \in [0..(m + 1) -> X]  BY <2>2
  <2>4. h[0] = b  BY <2>1
  <2>5. ASSUME NEW i \in 1..(m + 1) PROVE h[i] = g[<<i, h[i - 1]>>]
    <3>0. i \in Int /\ i - 1 \in 0..m /\ i - 1 \in 0..(m + 1) /\ i - 1 # m + 1  BY ONLY <2>0
    <3>1. i - 1 \in 0..m /\ h[i - 1] = f[i - 1]  BY <3>0
    <3>2. CASE i = m + 1
      <4>1. i - 1 = m /\ h[i] = v  BY <2>0, <3>2
      <4> QED BY <3>1, <3>2, <4>1 DEF v
    <3>3. CASE i # m + 1
      <4>1. i \in 1..m /\ h[i] = f[i]  BY <3>3
      <4> QED BY <2>1, <3>1, <4>1
    <3> QED BY <3>2, <3>3
  <2> HIDE DEF h
  <2> QED BY <2>3, <2>4, <2>5
<1> HIDE DEF Good
<1>3. T = Nat  BY <1>1, <1>2, Induct
<1>4. n \in T  BY <1>3
<1>5. \E h \in [0..n -> X] : Good(n, h)  BY <1>4
<1> QED BY <1>5 DEF Good, Unrolls

(* Sequences without repetition, and what the helpers make of them.         *)
Rising(s) == \A i, j \in DOMAIN s : i < j => s[i] < s[j]

LEMMA ToSetOf ==
  ASSUME NEW X, NEW s \in Seq(X)
  PROVE  /\ DOMAIN s = 1..Len(s) /\ Len(s) \in Nat /\ ToSet(s) = {s[i] : i \in 1..Len(s)}
         /\ ToSet(s) \in SUBSET X /\ \A i \in 1..Len(s) : s[i] \in X
         /\ ToSet(s) = {} <=> s = <<>>
BY LenProperties, EmptySeq DEF ToSet

LEMMA EmptyToSet == ToSet(<<>>) = {} /\ IsInjective(<<>>) /\ Len(<<>>) = 0
BY DEF ToSet, IsInjective

LEMMA ConcatFacts ==
  ASSUME NEW X, NEW s \in Seq(X), NEW t \in Seq(X)
  PROVE  /\ s \o t \in Seq(X) /\ Len(s \o t) = Len(s) + Len(t)
         /\ ToSet(s \o t) = ToSet(s) \cup ToSet(t)
         /\ IsInjective(s) /\ IsInjective(t) /\ ToSet(s) \cap ToSet(t) = {} => IsInjective(s \o t)
         /\ X \subseteq Int /\ Rising(s) /\ Rising(t) /\ (\A x \in ToSet(s), y \in ToSet(t) : x < y)
              => Rising(s \o t)
<1> DEFINE u == s \o t
           l == Len(s)
           k == Len(t)
<1>1. /\ u \in Seq(X) /\ Len(u) = l + k /\ DOMAIN u = 1..(l + k)
      /\ \A i \in 1..(l + k) : u[i] = IF i <= l THEN s[i] ELSE t[i - l]
  BY ConcatProperties, ToSetOf
<1>2. l \in Nat /\ k \in Nat /\ DOMAIN s = 1..l /\ DOMAIN t = 1..k
      /\ ToSet(s) = {s[i] : i \in 1..l} /\ ToSet(t) = {t[i] : i \in 1..k}
      /\ ToSet(u) = {u[i] : i \in 1..(l + k)}
  <2>1. l \in Nat /\ DOMAIN s = 1..l /\ ToSet(s) = {s[i] : i \in 1..l}  BY ToSetOf
  <2>2. k \in Nat /\ DOMAIN t = 1..k /\ ToSet(t) = {t[i] : i \in 1..k}  BY ToSetOf
  <2>3. ToSet(u) = {u[i] : i \in 1..(l + k)}  BY <1>1 DEF ToSet
  <2> QED BY <2>1, <2>2, <2>3
<1> HIDE DEF u, l, k
<1>3. \A i \in 1..l : i \in 1..(l + k) /\ u[i] = s[i]  BY <1>1, <1>2
<1>4. \A i \in 1..k : l + i \in 1..(l + k) /\ u[l + i] = t[i]
  <2> SUFFICES ASSUME NEW i \in 1..k PROVE l + i \in 1..(l + k) /\ u[l + i] = t[i]  OBVIOUS
  <2>1. l + i \in 1..(l + k) /\ ~(l + i <= l) /\ (l + i) - l = i  BY <1>2
  <2> QED BY <1>1, <2>1
<1>5. \A i \in 1..(l + k) : i \in 1..l \/ (i - l \in 1..k /\ i = l + (i - l))  BY <1>2
<1>6. ToSet(u) = ToSet(s) \cup ToSet(t)
  <2>1. ASSUME NEW x \in ToSet(u) PROVE x \in ToSet(s) \cup ToSet(t)
    <3>1. PICK i \in 1..(l + k) : x = u[i]  BY <1>2, <2>1
    <3>2. CASE i \in 1..l  BY <1>2, <1>3, <3>1, <3>2
    <3>3. CASE i - l \in 1..k /\ i = l + (i - l)  BY <1>2, <1>4, <3>1, <3>3
    <3> QED BY <1>5, <3>2, <3>3
  <2>2. ToSet(s) \subseteq ToSet(u)  BY <1>2, <1>3
  <2>3. ToSet(t) \subseteq ToSet(u)  BY <1>2, <1>4
  <2> QED BY <2>1, <2>2, <2>3
<1>7. ASSUME IsInjective(s), IsInjective(t), ToSet(s) \cap ToSet(t) = {}
      PROVE  IsInjective(u)
  <2> SUFFICES ASSUME NEW i \in 1..(l + k), NEW j \in 1..(l + k), u[i] = u[j] PROVE i = j
    BY <1>1 DEF IsInjective
  <2>1. CASE i \in 1..l /\ j \in 1..l  BY <1>2, <1>3, <1>7, <2>1 DEF IsInjective
  <2>2. CASE i \in 1..l /\ j - l \in 1..k /\ j = l + (j - l)
    <3>1. u[i] \in ToSet(s) /\ u[j] \in ToSet(t)  BY <1>2, <1>3, <1>4, <2>2
    <3> QED BY <1>7, <3>1
  <2>3. CASE j \in 1..l /\ i - l \in 1..k /\ i = l + (i - l)
    <3>1. u[j] \in ToSet(s) /\ u[i] \in ToSet(t)  BY <1>2, <1>3, <1>4, <2>3
    <3> QED BY <1>7, <3>1
  <2>4. CASE i - l \in 1..k /\ i = l + (i - l) /\ j - l \in 1..k /\ j = l + (j - l)
    <3>1. t[i - l] = t[j - l]  BY <1>4, <2>4
    <3>2. i - l = j - l  BY <1>2, <1>7, <2>4, <3>1 DEF IsInjective
    <3> QED BY <2>4, <3>2
  <2> QED BY <1>5, <2>1, <2>2, <2>3, <2>4
<1>8. ASSUME X \subseteq Int, Rising(s), Rising(t), \A x \in ToSet(s), y \in ToSet(t) : x < y
      PROVE  Rising(u)
  <2> SUFFICES ASSUME NEW i \in 1..(l + k), NEW j \in 1..(l + k), i < j PROVE u[i] < u[j]
    BY <1>1 DEF Rising
  <2>1. CASE i \in 1..l /\ j \in 1..l  BY <1>2, <1>3, <1>8, <2>1 DEF Rising
  <2>2. CASE i \in 1..l /\ j - l \in 1..k /\ j = l + (j - l)
    <3>1. u[i] \in ToSet(s) /\ u[j] \in ToSet(t)  BY <1>2, <1>3, <1>4, <2>2
    <3> QED BY <1>8, <3>1
  <2>3. CASE j \in 1..l /\ i - l \in 1..k  BY <1>2, <2>3
  <2>4. CASE i - l \in 1..k /\ i = l + (i - l) /\ j - l \in 1..k /\ j = l + (j - l)
    <3>1. i - l < j - l /\ u[i] = t[i - l] /\ u[j] = t[j - l]  BY <1>2, <1>4, <2>4
    <3> QED BY <1>2, <1>8, <2>4, <3>1 DEF Rising
  <2> QED BY <1>5, <2>1, <2>2, <2>3, <2>4
<1> QED BY <1>1, <1>6, <1>7, <1>8 DEF u, l, k

LEMMA AppendFacts ==
  ASSUME NEW X, NEW s \in Seq(X), NEW x \in X
  PROVE  /\ Append(s, x) \in Seq(X) /\ Len(Append(s, x)) = Len(s) + 1
         /\ ToSet(Append(s, x)) = ToSet(s) \cup {x}
         /\ IsInjective(s) /\ x \notin ToSet(s) => IsInjective(Append(s, x))
         /\ X \subseteq Int /\ Rising(s) /\ (\A y \in ToSet(s) : y < x) => Rising(Append(s, x))
<1>1. Append(s, x) = s \o <<x>>  BY AppendIsConcat
<1>2. <<x>> \in Seq(X) /\ Len(<<x>>) = 1 /\ ToSet(<<x>>) = {x} /\ IsInjective(<<x>>)
  BY DEF ToSet, IsInjective
<1>3. X \subseteq Int => Rising(<<x>>)  BY DEF Rising
<1> DEFINE t == <<x>>
<1> HIDE DEF t
<1>4. t \in Seq(X) /\ Append(s, x) = s \o t /\ Len(t) = 1 /\ ToSet(t) = {x} /\ IsInjective(t)
      /\ (X \subseteq Int => Rising(t))
  BY <1>1, <1>2, <1>3 DEF t
<1>5. /\ Append(s, x) \in Seq(X) /\ Len(Append(s, x)) = Len(s) + 1
      /\ ToSet(Append(s, x)) = ToSet(s) \cup {x}
  BY <1>4, ConcatFacts
<1>6. IsInjective(s) /\ x \notin ToSet(s) => IsInjective(Append(s, x))  BY <1>4, ConcatFacts
<1>7. X \subseteq Int /\ Rising(s) /\ (\A y \in ToSet(s) : y < x) => Rising(Append(s, x))
  <2> SUFFICES ASSUME X \subseteq Int, Rising(s), \A y \in ToSet(s) : y < x PROVE Rising(s \o t)
    BY <1>4
  <2>1. Rising(t) /\ \A y \in ToSet(s), z \in ToSet(t) : y < z  BY <1>4
  <2> QED BY <1>4, <2>1, ConcatFacts
<1> QED BY <1>5, <1>6, <1>7

(* A sequence is cut in two.                                                *)
LEMMA CutFacts ==
  ASSUME NEW X, NEW s \in Seq(X), NEW n \in 0..Len(s)
  PROVE  LET a == SubSeq(s, 1, n)
             b == SubSeq(s, n + 1, Len(s))
         IN /\ a \in Seq(X) /\ b \in Seq(X) /\ Len(a) = n /\ Len(b) = Len(s) - n
            /\ \A i \in 1..n : a[i] = s[i]
            /\ \A i \in 1..(Len(s) - n) : b[i] = s[n + i]
            /\ ToSet(s) = ToSet(a) \cup ToSet(b)
            /\ IsInjective(s) => IsInjective(a) /\ IsInjective(b) /\ ToSet(a) \cap ToSet(b) = {}
            /\ Rising(s) => Rising(a) /\ Rising(b) /\ \A x \in ToSet(a), y \in ToSet(b) : x < y
<1> DEFINE a == SubSeq(s, 1, n)
           b == SubSeq(s, n + 1, Len(s))
           l == Len(s)
<1>1. l \in Nat /\ DOMAIN s = 1..l /\ (\A i \in 1..l : s[i] \in X) /\ ToSet(s) = {s[i] : i \in 1..l}
  BY ToSetOf
<1>2. n \in Nat /\ n <= l  BY <1>1
<1> HIDE DEF l
<1>3. a \in Seq(X) /\ Len(a) = n /\ \A i \in 1..n : a[i] = s[i]
  <2>1. \A i \in 1..n : s[i] \in X /\ 1 + i - 1 = i  BY <1>1, <1>2
  <2>2. a \in Seq(X) /\ Len(a) = (IF 1 <= n THEN n - 1 + 1 ELSE 0) /\ \A i \in 1..(n - 1 + 1) : a[i] = s[1 + i - 1]
    BY <1>2, <2>1, SubSeqProperties
  <2> HIDE DEF a
  <2>3. (IF 1 <= n THEN n - 1 + 1 ELSE 0) = n /\ n - 1 + 1 = n  BY <1>2
  <2> QED BY <2>1, <2>2, <2>3
<1>4. b \in Seq(X) /\ Len(b) = l - n /\ \A i \in 1..(l - n) : b[i] = s[n + i]
  <2>1. \A i \in (n + 1)..l : s[i] \in X  BY <1>1, <1>2
  <2>0. b = SubSeq(s, n + 1, l)  BY DEF l
  <2> HIDE DEF b
  <2>2. b \in Seq(X) /\ Len(b) = (IF n + 1 <= l THEN l - (n + 1) + 1 ELSE 0)
        /\ \A i \in 1..(l - (n + 1) + 1) : b[i] = s[n + 1 + i - 1]
    BY <1>1, <1>2, <2>0, <2>1, SubSeqProperties
  <2>3. (IF n + 1 <= l THEN l - (n + 1) + 1 ELSE 0) = l - n /\ l - (n + 1) + 1 = l - n  BY <1>1, <1>2
  <2>4. \A i \in 1..(l - n) : n + 1 + i - 1 = n + i  BY <1>1, <1>2
  <2> QED BY <2>2, <2>3, <2>4
<1> HIDE DEF a, b
<1>5. DOMAIN a = 1..n /\ ToSet(a) = {a[i] : i \in 1..n}  BY <1>3, ToSetOf
<1>6. DOMAIN b = 1..(l - n) /\ ToSet(b) = {b[i] : i \in 1..(l - n)}  BY <1>4, ToSetOf
<1>7. \A i \in 1..n : i \in 1..l  BY <1>1, <1>2
<1>8. \A i \in 1..(l - n) : n + i \in 1..l  BY <1>1, <1>2
<1>9. \A i \in 1..l : i \in 1..n \/ (i - n \in 1..(l - n) /\ i = n + (i - n))  BY <1>1, <1>2
<1>10. ToSet(s) = ToSet(a) \cup ToSet(b)
  <2>1. ASSUME NEW x \in ToSet(s) PROVE x \in ToSet(a) \cup ToSet(b)
    <3>1. PICK i \in 1..l : x = s[i]  BY <1>1
    <3>2. CASE i \in 1..n  BY <1>3, <1>5, <3>1, <3>2
    <3>3. CASE i - n \in 1..(l - n) /\ i = n + (i - n)  BY <1>4, <1>6, <3>1, <3>3
    <3> QED BY <1>9, <3>2, <3>3
  <2>2. ToSet(a) \subseteq ToSet(s)  BY <1>1, <1>3, <1>5, <1>7
  <2>3. ToSet(b) \subseteq ToSet(s)  BY <1>1, <1>4, <1>6, <1>8
  <2> QED BY <2>1, <2>2, <2>3
<1>11. ASSUME IsInjective(s)
       PROVE  IsInjective(a) /\ IsInjective(b) /\ ToSet(a) \cap ToSet(b) = {}
  <2>0. \A i, j \in 1..l : s[i] = s[j] => i = j  BY <1>1, <1>11 DEF IsInjective
  <2>1. IsInjective(a)
    <3> SUFFICES ASSUME NEW i \in 1..n, NEW j \in 1..n, a[i] = a[j] PROVE i = j
      BY <1>5 DEF IsInjective
    <3> QED BY <1>3, <1>7, <2>0
  <2>2. IsInjective(b)
    <3> SUFFICES ASSUME NEW i \in 1..(l - n), NEW j \in 1..(l - n), b[i] = b[j] PROVE i = j
      BY <1>6 DEF IsInjective
    <3>1. n + i = n + j  BY <1>4, <1>8, <2>0
    <3> QED BY <1>2, <3>1
  <2>3. ToSet(a) \cap ToSet(b) = {}
    <3> SUFFICES ASSUME NEW i \in 1..n, NEW j \in 1..(l - n), a[i] = b[j] PROVE FALSE
      BY <1>5, <1>6
    <3>1. i = n + j  BY <1>3, <1>4, <1>7, <1>8, <2>0
    <3> QED BY <1>2, <3>1
  <2> QED BY <2>1, <2>2, <2>3
<1>12. ASSUME Rising(s)
       PROVE  Rising(a) /\ Rising(b) /\ \A x \in ToSet(a), y \in ToSet(b) : x < y
  <2>0. \A i, j \in 1..l : i < j => s[i] < s[j]  BY <1>1, <1>12 DEF Rising
  <2>1. Rising(a)
    <3> SUFFICES ASSUME NEW i \in 1..n, NEW j \in 1..n, i < j PROVE a[i] < a[j]
      BY <1>5 DEF Rising
    <3> QED BY <1>3, <1>7, <2>0
  <2>2. Rising(b)
    <3> SUFFICES ASSUME NEW i \in 1..(l - n), NEW j \in 1..(l - n), i < j PROVE b[i] < b[j]
      BY <1>6 DEF Rising
    <3>1. n + i < n + j  BY <1>2
    <3> QED BY <1>4, <1>8, <2>0, <3>1
  <2>3. ASSUME NEW x \in ToSet(a), NEW y \in ToSet(b) PROVE x < y
    <3>1. PICK i \in 1..n : x = a[i]  BY <1>5
    <3>2. PICK j \in 1..(l - n) : y = b[j]  BY <1>6
    <3>3. i < n + j  BY <1>2
    <3> QED BY <1>3, <1>4, <1>7, <1>8, <2>0, <3>1, <3>2, <3>3
  <2> QED BY <2>1, <2>2, <2>3
<1> QED BY <1>3, <1>4, <1>10, <1>11, <1>12 DEF a, b, l

LEMMA SizeOfInjective ==
  ASSUME NEW X, NEW s \in Seq(X), IsInjective(s)
  PROVE  IsFiniteSet(ToSet(s)) /\ Cardinality(ToSet(s)) = Len(s)
<1>1. Len(s) \in Nat /\ DOMAIN s = 1..Len(s) /\ ToSet(s) = {s[i] : i \in 1..Len(s)}
      /\ s \in [1..Len(s) -> X]
  BY ToSetOf, LenProperties
<1> DEFINE n == Len(s)
           T == ToSet(s)
<1>2. IsFiniteSet(1..n) /\ Cardinality(1..n) = n
  <2>1. 1 \in Int /\ n \in Int /\ n \in Nat  BY <1>1
  <2>2. IsFiniteSet(1..n) /\ Cardinality(1..n) = IF 1 > n THEN 0 ELSE n - 1 + 1
    <3> HIDE DEF n
    <3> QED BY <2>1, FS_Interval
  <2> HIDE DEF n
  <2> QED BY <2>1, <2>2
<1>3. s \in Bijection(1..n, T)
  <2>1. s \in [1..n -> T]  BY <1>1
  <2>2. \A t \in T : \E i \in 1..n : s[i] = t  BY <1>1
  <2>3. \A i, j \in 1..n : s[i] = s[j] => i = j  BY <1>1 DEF IsInjective
  <2> HIDE DEF T, n
  <2> QED BY <1>1, <2>1, <2>2, <2>3 DEF Bijection, Injection, Surjection, IsInjective, n
<1> HIDE DEF n, T
<1>4. ExistsBijection(1..n, T)  BY <1>3 DEF ExistsBijection
<1> QED BY <1>2, <1>4, FS_Bijection DEF n, T

LEMMA HeadTailFacts ==
  ASSUME NEW X, NEW s \in Seq(X), s # <<>>
  PROVE  /\ Head(s) \in X /\ Head(s) = s[1] /\ Tail(s) \in Seq(X) /\ Len(s) >= 1 /\ Len(Tail(s)) = Len(s) - 1
         /\ ToSet(s) = {Head(s)} \cup ToSet(Tail(s))
         /\ IsInjective(s) => IsInjective(Tail(s)) /\ Head(s) \notin ToSet(Tail(s))
         /\ Rising(s) /\ X \subseteq Int => \A x \in ToSet(s) : Head(s) <= x
<1>1. Len(s) \in Nat /\ Len(s) >= 1 /\ DOMAIN s = 1..Len(s) /\ ToSet(s) = {s[i] : i \in 1..Len(s)}
  BY ToSetOf, EmptySeq
<1>2. 1 \in 0..Len(s)  BY <1>1
<1> DEFINE a == SubSeq(s, 1, 1)
           b == SubSeq(s, 1 + 1, Len(s))
<1>3. Tail(s) = SubSeq(s, 2, Len(s))  BY TailIsSubSeq
<1>4. b = Tail(s)  BY <1>3
<1>5. a \in Seq(X) /\ Len(a) = 1 /\ a[1] = s[1]
      /\ ToSet(s) = ToSet(a) \cup ToSet(b)
      /\ (IsInjective(s) => IsInjective(a) /\ IsInjective(b) /\ ToSet(a) \cap ToSet(b) = {})
      /\ (Rising(s) => Rising(a) /\ Rising(b) /\ \A x \in ToSet(a), y \in ToSet(b) : x < y)
  BY <1>2, CutFacts
<1> HIDE DEF a, b
<1>6. Head(s) \in X /\ Tail(s) \in Seq(X) /\ Len(Tail(s)) = Len(s) - 1  BY HeadTailProperties
<1>7. Head(s) = s[1]  BY <1>1
<1>8. ToSet(a) = {s[1]}
  <2>1. ToSet(a) = {a[i] : i \in 1..1}  BY <1>5, ToSetOf
  <2> QED BY <1>5, <2>1
<1>9. ToSet(s) = {Head(s)} \cup ToSet(Tail(s))  BY <1>4, <1>5, <1>7, <1>8
<1>10. IsInjective(s) => IsInjective(Tail(s)) /\ Head(s) \notin ToSet(Tail(s))  BY <1>4, <1>5, <1>7, <1>8
<1>11. ASSUME Rising(s), X \subseteq Int, NEW x \in ToSet(s) PROVE Head(s) <= x
  <2>0. Head(s) \in Int /\ x \in Int  BY <1>6, <1>11, ToSetOf
  <2>1. CASE x = Head(s)  BY <2>0, <2>1
  <2>2. CASE x \in ToSet(b)
    <3>1. Head(s) < x  BY <1>5, <1>7, <1>8, <1>11, <2>2
    <3> QED BY <2>0, <3>1
  <2> QED BY <1>4, <1>9, <2>1, <2>2
<1> QED BY <1>1, <1>6, <1>7, <1>9, <1>10, <1>11

(* Only                                                                     *)
LEMMA OnlySteps ==
  ASSUME NEW X, NEW s \in Seq(X), NEW S
  PROVE  \E k : /\ Only(s, S) = k[Len(s)] /\ k[0] = <<>>
               /\ \A i \in 1..Len(s) : k[i] = IF s[i] \in S THEN Append(k[i - 1], s[i]) ELSE k[i - 1]
<1> DEFINE n == Len(s)
           g == [p \in (1..n) \X Seq(X) |-> IF s[p[1]] \in S THEN Append(p[2], s[p[1]]) ELSE p[2]]
           F(h) == [i \in 0..n |-> IF i = 0 THEN <<>>
                                   ELSE IF s[i] \in S THEN Append(h[i - 1], s[i]) ELSE h[i - 1]]
           kept == CHOOSE h : h = F(h)
<1>1. n \in Nat /\ DOMAIN s = 1..n /\ (\A i \in 1..n : s[i] \in X) /\ ToSet(s) = {s[i] : i \in 1..n}
  BY ToSetOf
<1>2. Only(s, S) = kept[n]  BY DEF Only
<1> HIDE DEF n
<1>3. g \in [(1..n) \X Seq(X) -> Seq(X)]
  <2>1. \A p \in (1..n) \X Seq(X) : g[p] \in Seq(X)
    <3> SUFFICES ASSUME NEW i \in 1..n, NEW t \in Seq(X) PROVE g[<<i, t>>] \in Seq(X)  OBVIOUS
    <3>1. s[i] \in X /\ Append(t, s[i]) \in Seq(X)  BY <1>1, AppendFacts
    <3> QED BY <3>1
  <2> QED BY <2>1
<1>4. PICK h \in [0..n -> Seq(X)] : h[0] = <<>> /\ \A i \in 1..n : h[i] = g[<<i, h[i - 1]>>]
  <2>1. IsStepOf(g, n, Seq(X)) /\ <<>> \in Seq(X)  BY <1>3 DEF IsStepOf
  <2>2. Unrolls(g, n, Seq(X), <<>>)
    <3> HIDE DEF g
    <3> QED BY <1>1, <2>1, Recursion
  <2> QED BY <2>2 DEF Unrolls
<1>5. ASSUME NEW i \in 1..n
      PROVE  i - 1 \in 0..n /\ h[i - 1] \in Seq(X)
             /\ h[i] = IF s[i] \in S THEN Append(h[i - 1], s[i]) ELSE h[i - 1]
  <2>1. i - 1 \in 0..n  BY <1>1
  <2>2. h[i - 1] \in Seq(X)  BY <2>1
  <2>3. <<i, h[i - 1]>> \in (1..n) \X Seq(X)  BY <2>2
  <2> QED BY <1>4, <2>1, <2>2, <2>3
<1>6. h = F(h)
  <2>1. h = [i \in 0..n |-> h[i]]  OBVIOUS
  <2>2. ASSUME NEW i \in 0..n
        PROVE  h[i] = IF i = 0 THEN <<>>
                      ELSE IF s[i] \in S THEN Append(h[i - 1], s[i]) ELSE h[i - 1]
    <3>1. CASE i = 0  BY <1>4, <3>1
    <3>2. CASE i # 0
      <4>1. i \in 1..n  BY <1>1, <3>2
      <4> QED BY <1>5, <3>2, <4>1
    <3> QED BY <3>1, <3>2
  <2> QED BY <2>1, <2>2
<1> HIDE DEF F, g
<1>7. kept = F(kept)  BY <1>6
<1>8. DOMAIN kept = 0..n /\ kept[0] = <<>>
      /\ \A i \in 1..n : kept[i] = IF s[i] \in S THEN Append(kept[i - 1], s[i]) ELSE kept[i - 1]
  <2> HIDE DEF kept
  <2>1. DOMAIN kept = 0..n  BY <1>7 DEF F
  <2>2. ASSUME NEW i \in 0..n
        PROVE  kept[i] = IF i = 0 THEN <<>>
                         ELSE IF s[i] \in S THEN Append(kept[i - 1], s[i]) ELSE kept[i - 1]
    <3>1. F(kept)[i] = IF i = 0 THEN <<>>
                       ELSE IF s[i] \in S THEN Append(kept[i - 1], s[i]) ELSE kept[i - 1]
      BY DEF F
    <3> QED BY <1>7, <3>1
  <2>3. kept[0] = <<>>  BY <1>1, <2>2
  <2>4. ASSUME NEW i \in 1..n
        PROVE  kept[i] = IF s[i] \in S THEN Append(kept[i - 1], s[i]) ELSE kept[i - 1]
    <3>1. i \in 0..n /\ i # 0  BY <1>1
    <3> QED BY <2>2, <3>1
  <2> QED BY <2>1, <2>3, <2>4
<1> HIDE DEF kept
<1> QED BY <1>2, <1>8 DEF n

LEMMA OnlyFacts ==
  ASSUME NEW X, NEW s \in Seq(X), NEW S
  PROVE  /\ Only(s, S) \in Seq(X) /\ Len(Only(s, S)) <= Len(s)
         /\ ToSet(Only(s, S)) = ToSet(s) \cap S
         /\ IsInjective(s) => IsInjective(Only(s, S))
         /\ X \subseteq Int /\ Rising(s) => Rising(Only(s, S))
<1> DEFINE n == Len(s)
<1>1. n \in Nat /\ DOMAIN s = 1..n /\ (\A i \in 1..n : s[i] \in X) /\ ToSet(s) = {s[i] : i \in 1..n}
  BY ToSetOf
<1>2. PICK kept :
        /\ Only(s, S) = kept[n] /\ kept[0] = <<>>
        /\ \A i \in 1..n : kept[i] = IF s[i] \in S THEN Append(kept[i - 1], s[i]) ELSE kept[i - 1]
  BY OnlySteps
<1> HIDE DEF n
<1>8. /\ kept[0] = <<>>
      /\ \A i \in 1..n : kept[i] = IF s[i] \in S THEN Append(kept[i - 1], s[i]) ELSE kept[i - 1]
  BY <1>2
<1> DEFINE Before(m) == {s[i] : i \in 1..m}
           Good(m) == /\ kept[m] \in Seq(X) /\ Len(kept[m]) <= m
                      /\ ToSet(kept[m]) = Before(m) \cap S
                      /\ IsInjective(s) => IsInjective(kept[m])
                      /\ X \subseteq Int /\ Rising(s) => Rising(kept[m])
           T == {m \in Nat : m <= n => Good(m)}
<1>9. 0 \in T
  <2>1. Before(0) = {}  OBVIOUS
  <2>2. Rising(<<>>)  BY DEF Rising
  <2>3. <<>> \in Seq(X)  OBVIOUS
  <2> HIDE DEF Before
  <2>4. Good(0)  BY <1>8, <2>1, <2>2, <2>3, EmptyToSet
  <2> HIDE DEF Good
  <2> QED BY <2>4
<1>10. ASSUME NEW m \in T PROVE m + 1 \in T
  <2>0. m \in Nat /\ (m <= n => Good(m))  BY <1>10
  <2> HIDE DEF Good
  <2> SUFFICES ASSUME m + 1 <= n PROVE Good(m + 1)  BY <2>0
  <2>2. m + 1 \in 1..n /\ (m + 1) - 1 = m /\ m <= n  BY <1>1, <2>0
  <2>1. Good(m)  BY <2>0, <2>2
  <2> USE DEF Good
  <2> DEFINE x == s[m + 1]
             k == kept[m]
  <2>3. x \in X /\ k \in Seq(X)  BY <1>1, <2>1, <2>2
  <2>4. kept[m + 1] = IF x \in S THEN Append(k, x) ELSE k  BY <1>8, <2>2
  <2>5. Before(m + 1) = Before(m) \cup {x}
    <3>1. \A i : i \in 1..(m + 1) <=> i \in 1..m \/ i = m + 1  BY <2>0
    <3> QED BY <3>1
  <2>6. \A y \in Before(m) : \E i \in 1..n : y = s[i] /\ i < m + 1
    <3>1. \A i \in 1..m : i \in 1..n /\ i < m + 1  BY <1>1, <2>0, <2>2
    <3> QED BY <3>1
  <2>7. IsInjective(s) => x \notin Before(m)
    <3> HIDE DEF Before
    <3>1. IsInjective(s) => \A i \in 1..n : s[i] = x => i = m + 1  BY <1>1, <2>2 DEF IsInjective
    <3> QED BY <2>0, <2>6, <3>1
  <2>8. Rising(s) => \A y \in Before(m) : y < x
    <3> HIDE DEF Before
    <3>1. Rising(s) => \A i \in 1..n : i < m + 1 => s[i] < x  BY <1>1, <2>2 DEF Rising
    <3> QED BY <2>6, <3>1
  <2> HIDE DEF Before
  <2>9. /\ Len(k) <= m /\ ToSet(k) = Before(m) \cap S /\ Len(k) \in Nat
        /\ IsInjective(s) => IsInjective(k)
        /\ X \subseteq Int /\ Rising(s) => Rising(k)
    BY <2>1, <2>3, ToSetOf
  <2> HIDE DEF x, k
  <2>10. CASE x \in S
    <3>1. /\ Append(k, x) \in Seq(X) /\ Len(Append(k, x)) = Len(k) + 1
          /\ ToSet(Append(k, x)) = ToSet(k) \cup {x}
          /\ IsInjective(k) /\ x \notin ToSet(k) => IsInjective(Append(k, x))
          /\ X \subseteq Int /\ Rising(k) /\ (\A y \in ToSet(k) : y < x) => Rising(Append(k, x))
      BY <2>3, AppendFacts
    <3>2. kept[m + 1] = Append(k, x)  BY <2>4, <2>10
    <3>3. Len(Append(k, x)) <= m + 1  BY <2>0, <2>9, <3>1
    <3>4. ToSet(Append(k, x)) = Before(m + 1) \cap S  BY <2>5, <2>9, <2>10, <3>1
    <3>5. IsInjective(s) => IsInjective(Append(k, x))  BY <2>7, <2>9, <3>1
    <3>6. X \subseteq Int /\ Rising(s) => Rising(Append(k, x))  BY <2>8, <2>9, <3>1
    <3> QED BY <3>1, <3>2, <3>3, <3>4, <3>5, <3>6
  <2>11. CASE x \notin S
    <3>1. kept[m + 1] = k  BY <2>4, <2>11
    <3>2. Before(m + 1) \cap S = Before(m) \cap S  BY <2>5, <2>11
    <3>3. Len(k) <= m + 1  BY <2>0, <2>9
    <3> QED BY <2>3, <2>9, <3>1, <3>2, <3>3
  <2> QED BY <2>10, <2>11
<1>11. Good(n)
  <2> HIDE DEF Good
  <2>1. T = Nat  BY <1>9, <1>10, Induct
  <2>2. n \in T  BY <1>1, <2>1
  <2> QED BY <1>1, <2>2
<1> QED BY <1>1, <1>2, <1>11 DEF n

(* The entries that are kept stay in their order.                           *)
LEMMA OnlyOrder ==
  ASSUME NEW X, NEW s \in Seq(X), NEW S, NEW Q,
         \A i, j \in 1..Len(s) : i < j /\ s[i] \in S /\ s[j] \in S => <<s[i], s[j]>> \in Q
  PROVE  \A i, j \in 1..Len(Only(s, S)) : i < j => <<Only(s, S)[i], Only(s, S)[j]>> \in Q
<1> DEFINE n == Len(s)
<1>1. n \in Nat /\ DOMAIN s = 1..n /\ (\A i \in 1..n : s[i] \in X)  BY ToSetOf
<1>2. PICK kept :
        /\ Only(s, S) = kept[n] /\ kept[0] = <<>>
        /\ \A i \in 1..n : kept[i] = IF s[i] \in S THEN Append(kept[i - 1], s[i]) ELSE kept[i - 1]
  BY OnlySteps
<1>3. \A i, j \in 1..n : i < j /\ s[i] \in S /\ s[j] \in S => <<s[i], s[j]>> \in Q  OBVIOUS
<1> HIDE DEF n
<1> DEFINE Good(m) == /\ kept[m] \in Seq(X)
                      /\ \A a \in 1..Len(kept[m]) : \E i \in 1..m : s[i] = kept[m][a] /\ s[i] \in S
                      /\ \A a, b \in 1..Len(kept[m]) : a < b => <<kept[m][a], kept[m][b]>> \in Q
           T == {m \in Nat : m <= n => Good(m)}
<1>4. 0 \in T
  <2>1. <<>> \in Seq(X) /\ Len(<<>>) = 0  OBVIOUS
  <2>2. Good(0)  BY <1>2, <2>1
  <2> HIDE DEF Good
  <2> QED BY <2>2
<1>5. ASSUME NEW m \in T PROVE m + 1 \in T
  <2>0. m \in Nat /\ (m <= n => Good(m))  BY <1>5
  <2> HIDE DEF Good
  <2> SUFFICES ASSUME m + 1 <= n PROVE Good(m + 1)  BY <2>0
  <2>1. m + 1 \in 1..n /\ (m + 1) - 1 = m /\ m <= n  BY <1>1, <2>0
  <2>2. Good(m)  BY <2>0, <2>1
  <2> USE DEF Good
  <2> DEFINE x == s[m + 1]
             k == kept[m]
  <2>3. /\ x \in X /\ k \in Seq(X)
        /\ \A a \in 1..Len(k) : \E i \in 1..m : s[i] = k[a] /\ s[i] \in S
        /\ \A a, b \in 1..Len(k) : a < b => <<k[a], k[b]>> \in Q
    BY <1>1, <2>1, <2>2
  <2>4. kept[m + 1] = IF x \in S THEN Append(k, x) ELSE k  BY <1>2, <2>1
  <2>5. \A i \in 1..m : i \in 1..n /\ i \in 1..(m + 1) /\ i < m + 1  BY <1>1, <2>0, <2>1
  <2>6. \A i \in 1..m : s[i] \in S /\ x \in S => <<s[i], x>> \in Q  BY <1>3, <2>1, <2>5
  <2>7. m + 1 \in 1..(m + 1) /\ x = s[m + 1]  BY <2>0
  <2> HIDE DEF x, k
  <2>8. CASE x \in S
    <3> DEFINE t == Append(k, x)
    <3>1. /\ t \in Seq(X) /\ Len(t) = Len(k) + 1 /\ Len(k) \in Nat
          /\ (\A a \in 1..Len(k) : t[a] = k[a]) /\ t[Len(k) + 1] = x
      BY <2>3
    <3>2. kept[m + 1] = t  BY <2>4, <2>8
    <3> HIDE DEF t
    <3>3. \A a \in 1..Len(t) : a \in 1..Len(k) \/ a = Len(k) + 1  BY <3>1
    <3>4. \A a \in 1..Len(t) : \E i \in 1..(m + 1) : s[i] = t[a] /\ s[i] \in S
      BY <2>3, <2>5, <2>7, <2>8, <3>1, <3>3
    <3>5. ASSUME NEW a \in 1..Len(t), NEW b \in 1..Len(t), a < b PROVE <<t[a], t[b]>> \in Q
      <4>1. a \in 1..Len(k)  BY <3>1, <3>5
      <4>2. CASE b \in 1..Len(k)  BY <2>3, <3>1, <3>5, <4>1, <4>2
      <4>3. CASE b = Len(k) + 1
        <5>1. PICK i \in 1..m : s[i] = k[a] /\ s[i] \in S  BY <2>3, <4>1
        <5>2. <<s[i], x>> \in Q  BY <2>6, <2>8, <5>1
        <5> QED BY <3>1, <4>1, <4>3, <5>1, <5>2
      <4> QED BY <3>3, <4>2, <4>3
    <3> QED BY <3>1, <3>2, <3>4, <3>5
  <2>9. CASE x \notin S
    <3>1. kept[m + 1] = k  BY <2>4, <2>9
    <3> QED BY <2>3, <2>5, <3>1
  <2> QED BY <2>8, <2>9
<1>6. Good(n)
  <2> HIDE DEF Good
  <2>1. T = Nat  BY <1>4, <1>5, Induct
  <2>2. n \in T  BY <1>1, <2>1
  <2> QED BY <1>1, <2>2
<1> QED BY <1>2, <1>6

(* FlattenSeq                                                               *)
LEMMA FlattenFacts ==
  ASSUME NEW X, NEW ss \in Seq(Seq(X))
  PROVE  /\ FlattenSeq(ss) \in Seq(X)
         /\ ToSet(FlattenSeq(ss)) = UNION {ToSet(ss[i]) : i \in 1..Len(ss)}
         /\ (\A i \in 1..Len(ss) : IsInjective(ss[i]))
            /\ (\A i, j \in 1..Len(ss) : i # j => ToSet(ss[i]) \cap ToSet(ss[j]) = {})
              => IsInjective(FlattenSeq(ss))
<1> DEFINE n == Len(ss)
           g == [p \in (1..n) \X Seq(X) |-> p[2] \o ss[p[1]]]
           F(h) == [i \in 1..n |-> IF i = 1 THEN ss[i] ELSE h[i - 1] \o ss[i]]
           flat == CHOOSE h : h = F(h)
<1>1. n \in Nat /\ (\A i \in 1..n : ss[i] \in Seq(X)) /\ (n = 0 <=> ss = <<>>)
  BY ToSetOf, EmptySeq
<1>2. FlattenSeq(ss) = IF n = 0 THEN ss ELSE flat[n]  BY DEF FlattenSeq
<1> HIDE DEF n
<1>3. g \in [(1..n) \X Seq(X) -> Seq(X)]
  <2>1. \A p \in (1..n) \X Seq(X) : g[p] \in Seq(X)
    <3> SUFFICES ASSUME NEW i \in 1..n, NEW t \in Seq(X) PROVE g[<<i, t>>] \in Seq(X)  OBVIOUS
    <3>1. ss[i] \in Seq(X)  BY <1>1
    <3>2. t \o ss[i] \in Seq(X)  BY <3>1, ConcatFacts
    <3> QED BY <3>2
  <2> QED BY <2>1
<1>4. PICK k \in [0..n -> Seq(X)] : k[0] = <<>> /\ \A i \in 1..n : k[i] = g[<<i, k[i - 1]>>]
  <2>1. IsStepOf(g, n, Seq(X)) /\ <<>> \in Seq(X)  BY <1>3 DEF IsStepOf
  <2>2. Unrolls(g, n, Seq(X), <<>>)
    <3> HIDE DEF g
    <3> QED BY <1>1, <2>1, Recursion
  <2> QED BY <2>2 DEF Unrolls
<1>5. ASSUME NEW i \in 1..n
      PROVE  i - 1 \in 0..n /\ k[i - 1] \in Seq(X) /\ k[i] = k[i - 1] \o ss[i]
  <2>1. i - 1 \in 0..n  BY <1>1
  <2>2. k[i - 1] \in Seq(X)  BY <2>1
  <2>3. <<i, k[i - 1]>> \in (1..n) \X Seq(X)  BY <2>2
  <2> QED BY <1>4, <2>1, <2>2, <2>3
<1> HIDE DEF g
<1>6. \E h : h = F(h)
  <2> DEFINE h == [i \in 1..n |-> k[i]]
  <2>1. ASSUME NEW i \in 1..n
        PROVE  h[i] = IF i = 1 THEN ss[i] ELSE h[i - 1] \o ss[i]
    <3>1. CASE i = 1
      <4>1. k[0] = <<>> /\ k[1] = k[0] \o ss[1] /\ ss[1] \in Seq(X)
        <5>1. i - 1 = 0  BY <3>1
        <5> QED BY <1>1, <1>4, <1>5, <3>1, <5>1
      <4>2. <<>> \o ss[1] = ss[1]  BY <4>1
      <4> QED BY <3>1, <4>1, <4>2
    <3>2. CASE i # 1
      <4>1. i - 1 \in 1..n  BY <1>1, <3>2
      <4> QED BY <1>5, <3>2, <4>1
    <3> QED BY <3>1, <3>2
  <2>2. h = F(h)
    <3>1. h = [i \in 1..n |-> h[i]]  OBVIOUS
    <3> HIDE DEF h
    <3>2. h = [i \in 1..n |-> IF i = 1 THEN ss[i] ELSE h[i - 1] \o ss[i]]  BY <2>1, <3>1
    <3> QED BY <3>2
  <2> HIDE DEF h, F
  <2> QED BY <2>2
<1> HIDE DEF F
<1>7. flat = F(flat)  BY <1>6
<1>8. \A i \in 1..n : flat[i] = IF i = 1 THEN ss[i] ELSE flat[i - 1] \o ss[i]
  <2> HIDE DEF flat
  <2>2. ASSUME NEW i \in 1..n
        PROVE  flat[i] = IF i = 1 THEN ss[i] ELSE flat[i - 1] \o ss[i]
    <3>1. F(flat)[i] = IF i = 1 THEN ss[i] ELSE flat[i - 1] \o ss[i]  BY DEF F
    <3> QED BY <1>7, <3>1
  <2> QED BY <2>2
<1> HIDE DEF flat
<1> DEFINE Parts(m) == UNION {ToSet(ss[i]) : i \in 1..m}
           Apart == /\ \A i \in 1..n : IsInjective(ss[i])
                    /\ \A i, j \in 1..n : i # j => ToSet(ss[i]) \cap ToSet(ss[j]) = {}
           Good(m) == /\ flat[m] \in Seq(X) /\ ToSet(flat[m]) = Parts(m)
                      /\ Apart => IsInjective(flat[m])
           T == {m \in Nat : m + 1 <= n => Good(m + 1)}
<1>9. 0 \in T
  <2> HIDE DEF Good
  <2>0. 0 + 1 = 1 /\ 0 \in Nat  OBVIOUS
  <2> SUFFICES ASSUME 1 <= n PROVE Good(1)  BY <2>0
  <2> USE DEF Good
  <2>1. 1 \in 1..n  BY <1>1
  <2>2. flat[1] = ss[1] /\ ss[1] \in Seq(X)  BY <1>1, <1>8, <2>1
  <2>3. Parts(1) = ToSet(ss[1])
    <3>1. \A i : i \in 1..1 <=> i = 1  OBVIOUS
    <3> QED BY <3>1
  <2> HIDE DEF Parts
  <2> QED BY <2>1, <2>2, <2>3
<1>10. ASSUME NEW l \in T PROVE l + 1 \in T
  <2> DEFINE m == l + 1
  <2> HIDE DEF Good
  <2>0. m \in Nat /\ l \in Nat /\ m >= 1 /\ (m <= n => Good(m))  BY <1>10
  <2> HIDE DEF m
  <2>1. (m + 1 <= n => Good(m + 1)) => l + 1 \in T  BY <2>0 DEF m
  <2> SUFFICES ASSUME m + 1 <= n PROVE Good(m + 1)  BY <2>1
  <2>2. m + 1 \in 1..n /\ (m + 1) - 1 = m /\ m <= n /\ m + 1 # 1  BY <1>1, <2>0
  <2>3. Good(m)  BY <2>0, <2>2
  <2>4. flat[m + 1] = flat[m] \o ss[m + 1]  BY <1>8, <2>2
  <2>5. Parts(m + 1) = Parts(m) \cup ToSet(ss[m + 1])
    <3>1. \A i : i \in 1..(m + 1) <=> i \in 1..m \/ i = m + 1  BY <2>0
    <3> QED BY <3>1
  <2>6. Apart => Parts(m) \cap ToSet(ss[m + 1]) = {}
    <3>1. \A i \in 1..m : i \in 1..n /\ i # m + 1  BY <1>1, <2>0, <2>2
    <3> QED BY <2>2, <3>1
  <2>7. Apart => IsInjective(ss[m + 1])  BY <2>2
  <2> HIDE DEF Parts, Apart
  <2>8. flat[m] \in Seq(X) /\ ToSet(flat[m]) = Parts(m) /\ (Apart => IsInjective(flat[m]))
    BY <2>3 DEF Good
  <2>9. ss[m + 1] \in Seq(X)  BY <1>1, <2>2
  <2> DEFINE u == flat[m]
             v == ss[m + 1]
  <2>10. u \in Seq(X) /\ v \in Seq(X)  BY <2>8, <2>9
  <2>11. /\ u \o v \in Seq(X) /\ ToSet(u \o v) = ToSet(u) \cup ToSet(v)
         /\ IsInjective(u) /\ IsInjective(v) /\ ToSet(u) \cap ToSet(v) = {} => IsInjective(u \o v)
    <3> HIDE DEF u, v
    <3> QED BY <2>10, ConcatFacts
  <2> QED BY <2>4, <2>5, <2>6, <2>7, <2>8, <2>11 DEF Good
<1>11. 1 <= n => Good(n)
  <2> HIDE DEF Good
  <2>1. T = Nat  BY <1>9, <1>10, Induct
  <2>2. ASSUME 1 <= n PROVE Good(n)
    <3>1. n - 1 \in Nat /\ (n - 1) + 1 = n  BY <1>1, <2>2
    <3>2. n - 1 \in T  BY <2>1, <3>1
    <3>3. (n - 1) + 1 <= n => Good((n - 1) + 1)  BY <3>2
    <3> QED BY <1>1, <3>1, <3>3
  <2> QED BY <2>2
<1>12. CASE n = 0
  <2>1. FlattenSeq(ss) = <<>> /\ 1..n = {}  BY <1>1, <1>2, <1>12
  <2> QED BY <1>12, <2>1, EmptyToSet DEF n
<1>13. CASE n # 0
  <2>1. Good(n) /\ FlattenSeq(ss) = flat[n]
    <3> HIDE DEF Good
    <3> QED BY <1>1, <1>2, <1>11, <1>13
  <2> QED BY <2>1 DEF n
<1> QED BY <1>12, <1>13

LEMMA LastOfFacts ==
  ASSUME NEW X, NEW s \in Seq(X), NEW n \in Nat
  PROVE  /\ LastOf(n, s) \in Seq(X) /\ Len(LastOf(n, s)) <= n
         /\ ToSet(LastOf(n, s)) \subseteq ToSet(s)
         /\ Len(s) <= n => LastOf(n, s) = s
         /\ n >= 1 => (LastOf(n, s) = <<>> <=> s = <<>>)
<1>0. Len(s) \in Nat  BY ToSetOf
<1> DEFINE c == IF Len(s) > n THEN Len(s) - n ELSE 0
           b == SubSeq(s, c + 1, Len(s))
<1>1. c \in 0..Len(s) /\ Len(s) - c <= n /\ (Len(s) <= n => c = 0)
      /\ (n >= 1 /\ Len(s) >= 1 => Len(s) - c >= 1)
  BY <1>0
<1>2. LastOf(n, s) = b
  <2>1. 1 + c = c + 1  BY <1>1, <1>0
  <2> QED BY <2>1 DEF LastOf
<1> HIDE DEF c
<1>3. b \in Seq(X) /\ Len(b) = Len(s) - c /\ ToSet(b) \subseteq ToSet(s)  BY <1>1, CutFacts
<1>4. ASSUME Len(s) <= n PROVE b = s
  <2>1. c = 0 /\ c + 1 = 1  BY <1>0, <1>1, <1>4
  <2>2. SubSeq(s, 1, Len(s)) = s  BY SubSeqFull
  <2> QED BY <2>1, <2>2
<1>5. ASSUME n >= 1 PROVE b = <<>> <=> s = <<>>
  <2>1. s = <<>> <=> Len(s) = 0  BY EmptySeq
  <2>2. b = <<>> <=> Len(b) = 0  BY <1>3, EmptySeq
  <2> QED BY <1>0, <1>1, <1>3, <1>5, <2>1, <2>2
<1> HIDE DEF b
<1> QED BY <1>0, <1>1, <1>2, <1>3, <1>4, <1>5

LEMMA FirstOfFacts ==
  ASSUME NEW X, NEW s \in Seq(X), NEW n \in Nat
  PROVE  /\ FirstOf(n, s) \in Seq(X) /\ Len(FirstOf(n, s)) <= n
         /\ ToSet(FirstOf(n, s)) \subseteq ToSet(s)
         /\ IsInjective(s) => IsInjective(FirstOf(n, s))
         /\ Len(s) <= n => FirstOf(n, s) = s
<1>0. Len(s) \in Nat  BY ToSetOf
<1> DEFINE c == IF Len(s) > n THEN n ELSE Len(s)
           a == SubSeq(s, 1, c)
<1>1. c \in 0..Len(s) /\ c <= n /\ (Len(s) <= n => c = Len(s))
  BY <1>0
<1>2. FirstOf(n, s) = a  BY DEF FirstOf
<1> HIDE DEF c
<1>3. a \in Seq(X) /\ Len(a) = c /\ ToSet(a) \subseteq ToSet(s) /\ (IsInjective(s) => IsInjective(a))
  <2>1. a \in Seq(X) /\ Len(a) = c  BY <1>1, CutFacts
  <2>2. ToSet(a) \subseteq ToSet(s)  BY <1>1, CutFacts
  <2>3. IsInjective(s) => IsInjective(a)  BY <1>1, CutFacts
  <2> QED BY <2>1, <2>2, <2>3
<1>4. ASSUME Len(s) <= n PROVE a = s
  <2>1. c = Len(s)  BY <1>1, <1>4
  <2>2. SubSeq(s, 1, Len(s)) = s  BY SubSeqFull
  <2> QED BY <2>1, <2>2
<1> HIDE DEF a
<1> QED BY <1>1, <1>2, <1>3, <1>4

(* What stands first stays.                                                 *)
LEMMA FirstOfConcat ==
  ASSUME NEW X, NEW s \in Seq(X), NEW t \in Seq(X), NEW n \in Nat, Len(s) <= n
  PROVE  ToSet(s) \subseteq ToSet(FirstOf(n, s \o t))
<1> DEFINE u == s \o t
           l == Len(s)
<1>1. l \in Nat /\ DOMAIN s = 1..l /\ ToSet(s) = {s[i] : i \in 1..l} /\ Len(t) \in Nat  BY ToSetOf
<1>2. u \in Seq(X) /\ Len(u) = l + Len(t) /\ \A i \in 1..l : u[i] = s[i]
  <2>1. /\ u \in Seq(X) /\ Len(u) = l + Len(t)
        /\ \A i \in 1..(l + Len(t)) : u[i] = IF i <= l THEN s[i] ELSE t[i - l]
    BY ConcatProperties
  <2>2. \A i \in 1..l : i \in 1..(l + Len(t)) /\ i <= l  BY <1>1
  <2> HIDE DEF u, l
  <2> QED BY <2>1, <2>2
<1> DEFINE c == IF Len(u) > n THEN n ELSE Len(u)
<1>3. c \in 0..Len(u) /\ l <= c /\ c \in Nat
  <2> HIDE DEF u
  <2> QED BY <1>1, <1>2
<1> DEFINE a == SubSeq(u, 1, c)
<1>4. FirstOf(n, u) = a  BY DEF FirstOf
<1> HIDE DEF u, c, l
<1>5. a \in Seq(X) /\ Len(a) = c /\ \A i \in 1..c : a[i] = u[i]  BY <1>2, <1>3, CutFacts
<1> HIDE DEF a
<1>6. ToSet(a) = {a[i] : i \in 1..c}  BY <1>5, ToSetOf
<1>7. \A i \in 1..l : i \in 1..c  BY <1>1, <1>3
<1>8. \A i \in 1..l : s[i] \in ToSet(a)  BY <1>2, <1>5, <1>6, <1>7
<1>9. ToSet(s) \subseteq ToSet(a)  BY <1>1, <1>8
<1> QED BY <1>4, <1>9 DEF u

LEMMA RisingIsInjective ==
  ASSUME NEW X \in SUBSET Int, NEW s \in Seq(X), Rising(s) PROVE IsInjective(s)
<1>1. DOMAIN s = 1..Len(s) /\ Len(s) \in Nat /\ \A i \in 1..Len(s) : s[i] \in Int  BY ToSetOf
<1> SUFFICES ASSUME NEW i \in 1..Len(s), NEW j \in 1..Len(s), s[i] = s[j] PROVE i = j
  BY <1>1 DEF IsInjective
<1>2. ~(i < j) /\ ~(j < i)  BY <1>1 DEF Rising
<1> QED BY <1>1, <1>2

-----------------------------------------------------------------------------
(* The invariant.                                                           *)

Packet == [seq : 0..MaxSeq, items : Seq([msg : Msgs, src : Sources])]
Packed == UNION {ToSet(batch[i].items) : i \in DOMAIN batch}
TakenFrom(f, src) == {x.msg : x \in {y \in Packed : y.src = src /\ info[y.msg].flow = f}}

Typed ==
  /\ info \in Seq([flow : Flows, kind : Kinds]) /\ Len(info) <= MaxSent
  /\ queue \in [Flows -> [Sources -> Seq(Msgs)]]
  /\ cursor \in Flows /\ filling \in BOOLEAN /\ blocked \in BOOLEAN /\ armed \in BOOLEAN
  /\ firstSeq \in 0..MaxSeq /\ nextSeq \in 1..(MaxSeq + 1)
  /\ batch \in Seq(Packet) /\ Len(batch) <= BatchSize /\ (~filling => batch = <<>>)
  /\ sent \in [SlotIds -> [seq : 0..MaxSeq, refs : Seq(Msgs)]]
  /\ tracked \in Seq(Seqs)
  /\ lost \in [Msgs -> Seq(Seqs)] /\ \A m \in Msgs : Len(lost[m]) <= MaxLostSeqs
  /\ wire \in [Seqs -> SUBSET Msgs] /\ heard \subseteq Seqs
  /\ done \cup expired \cup dropped \subseteq DOMAIN info

RingsHold ==
  \A f \in Flows, src \in Sources :
    /\ IsInjective(queue[f][src]) /\ Len(queue[f][src]) <= RingCap
    /\ \A m \in InRing(f, src) :
         m \in DOMAIN info /\ info[m].flow = f /\ (src = "unreliable" <=> ~Reliable(m))
    /\ \A t \in Sources : t # src => InRing(f, src) \cap InRing(f, t) = {}

BatchHolds ==
  /\ \A i \in DOMAIN batch :
       IsInjective(batch[i].items) /\ batch[i].items # <<>> /\ Len(batch[i].items) <= RefsPerPacket
  /\ \A x \in Packed : x.msg \in DOMAIN info /\ (x.src = "unreliable" <=> ~Reliable(x.msg))
  /\ \A i, j \in DOMAIN batch :
       \A x \in ToSet(batch[i].items), y \in ToSet(batch[j].items) :
         x.msg = y.msg => x = y /\ i = j

SlotsHold ==
  /\ \A s \in SlotIds :
       /\ IsInjective(sent[s].refs) /\ Len(sent[s].refs) <= RefsPerPacket
       /\ \A m \in ToSet(sent[s].refs) : m \in DOMAIN info /\ Reliable(m)
       /\ sent[s].seq = 0 <=> sent[s].refs = <<>>
       /\ sent[s].seq # 0 => Slot(sent[s].seq) = s
  /\ \A s, t \in SlotIds : s # t => ToSet(sent[s].refs) \cap ToSet(sent[t].refs) = {}

Apart ==
  /\ Queued \cap InBatch = {} /\ Queued \cap InFlight = {} /\ InBatch \cap InFlight = {}

RoomLeft ==
  /\ \A f \in Flows, src \in Sources : Cardinality(InRing(f, src) \cup TakenFrom(f, src)) <= RingCap
  /\ Cardinality(Alive) <= MaxMessages

UsedSeqs == {sent[s].seq : s \in {t \in SlotIds : sent[t].seq # 0}}
Carries(i) == \E x \in ToSet(batch[i].items) : Reliable(x.msg)
Numbered ==
  /\ \A i \in DOMAIN batch : Carries(i) =>
       /\ batch[i].seq # 0 /\ sent[Slot(batch[i].seq)].seq = 0
       /\ \A j \in DOMAIN batch : j # i /\ Carries(j) => Slot(batch[j].seq) # Slot(batch[i].seq)
  /\ \A i, j \in DOMAIN batch :
       i < j /\ batch[i].seq # 0 /\ batch[j].seq # 0 => batch[i].seq < batch[j].seq
  /\ \A i \in DOMAIN batch :
       batch[i].seq < nextSeq /\ (batch[i].seq # 0 => \A q \in ToSet(tracked) : q < batch[i].seq)
  /\ \A q \in ToSet(tracked) : q < nextSeq
  /\ Rising(tracked) /\ Len(tracked) <= SlotCount
  /\ \A s \in SlotIds : sent[s].seq # 0 => sent[s].seq \in ToSet(tracked) /\ armed

Lossy ==
  InFlight \cup {x.msg : x \in {y \in Packed : y.src = "retry"}}
    \cup UNION {InRing(f, "retry") : f \in Flows}
Gone == done \cup expired \cup dropped
Late == {m \in Msgs : lost[m] # <<>>}
Booked ==
  /\ \A m \in DOMAIN info : Reliable(m) => (m \in Alive <=> m \notin Gone)
  /\ Late \subseteq Lossy
  /\ lateCount = Cardinality(Late)

Traced ==
  /\ \A s \in SlotIds : \A m \in ToSet(sent[s].refs) : m \in wire[sent[s].seq]
  /\ \A m \in Msgs : \A q \in ToSet(lost[m]) : m \in wire[q]
  /\ DoneArrived

Numbers == UsedSeqs \cup {batch[i].seq : i \in {j \in DOMAIN batch : Carries(j)}}
Windowed ==
  /\ \A x, y \in Numbers : x - y < AckWindow
  /\ \A i \in DOMAIN batch : Carries(i) /\ (\A s \in SlotIds : sent[s].seq = 0) =>
       firstSeq # 0 /\ firstSeq <= batch[i].seq
  /\ firstSeq < nextSeq
  /\ \A i \in DOMAIN batch : ~Carries(i) =>
       \/ batch[i].seq = 0 \/ blocked
       \/ \A f \in Flows : queue[f]["retry"] = <<>> /\ queue[f]["reliable"] = <<>>

MayRetry(f) ==
  {m \in InBatch \cup InFlight \cup UNION {InRing(g, "retry") : g \in Flows} :
     info[m].flow = f /\ Reliable(m)}
RetryRoom == \A f \in Flows : Cardinality(MayRetry(f)) <= RingCap

-----------------------------------------------------------------------------
(* The parts of a state.                                                    *)

LEMMA Consts ==
  /\ NumFlows \in Nat \ {0} /\ AckWindow \in Nat \ {0} /\ RefsPerPacket \in Nat \ {0}
  /\ LossThreshold \in Nat \ {0} /\ MaxLostSeqs \in Nat \ {0} /\ RingCap \in Nat \ {0}
  /\ SlotCount \in Nat \ {0} /\ BatchSize \in Nat \ {0} /\ MaxMessages \in Nat \ {0}
  /\ MaxSent \in Nat \ {0} /\ MaxSeq \in Nat \ {0}
BY SenderAssumption

LEMMA SlotIsSlot == ASSUME NEW q \in Nat PROVE Slot(q) \in SlotIds
<1>1. SlotCount \in Nat \ {0} /\ q \in Int  BY Consts
<1>2. q % SlotCount \in 0..(SlotCount - 1)  BY <1>1, DivMod
<1> QED BY <1>2 DEF Slot, SlotIds

(* A field of the entries.                                                  *)
MsgSeq(s) == [i \in DOMAIN s |-> s[i].msg]
LEMMA MsgsOf ==
  ASSUME NEW X, NEW M, NEW s \in Seq(X), \A x \in X : x.msg \in M
  PROVE  /\ MsgSeq(s) \in Seq(M) /\ Len(MsgSeq(s)) = Len(s)
         /\ ToSet(MsgSeq(s)) = {x.msg : x \in ToSet(s)}
         /\ IsInjective(s) /\ (\A x, y \in ToSet(s) : x.msg = y.msg => x = y)
              => IsInjective(MsgSeq(s))
<1> DEFINE t == [i \in DOMAIN s |-> s[i].msg]
           n == Len(s)
<1>1. n \in Nat /\ DOMAIN s = 1..n /\ ToSet(s) = {s[i] : i \in 1..n} /\ \A i \in 1..n : s[i] \in X
  BY ToSetOf
<1> HIDE DEF n
<1>2. t \in Seq(M) /\ Len(t) = n /\ DOMAIN t = 1..n /\ \A i \in 1..n : t[i] = s[i].msg
  BY <1>1
<1> HIDE DEF t
<1>3. ToSet(t) = {x.msg : x \in ToSet(s)}
  <2>1. ToSet(t) = {t[i] : i \in 1..n}  BY <1>2, ToSetOf
  <2>2. ASSUME NEW m PROVE m \in ToSet(t) <=> m \in {x.msg : x \in ToSet(s)}
    <3>1. m \in ToSet(t) <=> \E i \in 1..n : m = s[i].msg  BY <1>2, <2>1
    <3>2. (\E i \in 1..n : m = s[i].msg) <=> \E x \in ToSet(s) : m = x.msg  BY <1>1
    <3> QED BY <3>1, <3>2
  <2> QED BY <2>2
<1>4. ASSUME IsInjective(s), \A x, y \in ToSet(s) : x.msg = y.msg => x = y
      PROVE  IsInjective(t)
  <2> SUFFICES ASSUME NEW i \in 1..n, NEW j \in 1..n, t[i] = t[j] PROVE i = j
    BY <1>2 DEF IsInjective
  <2>1. s[i] = s[j]  BY <1>1, <1>2, <1>4
  <2> QED BY <1>1, <1>4, <2>1 DEF IsInjective
<1> QED BY <1>2, <1>3, <1>4 DEF t, n, MsgSeq

Entry == [msg : Msgs, src : Sources]
ItemsApart(p) ==
  /\ IsInjective(p.items) /\ \A x \in ToSet(p.items) : x.msg \in DOMAIN info
  /\ \A x, y \in ToSet(p.items) : x.msg = y.msg => x = y

(* PacketRefs                                                               *)
LEMMA RefsOfPacket ==
  ASSUME NEW p \in Packet, ItemsApart(p)
  PROVE  /\ p.items \in Seq(Entry) /\ Items(p) = {x.msg : x \in ToSet(p.items)}
         /\ Items(p) \in SUBSET Msgs
         /\ PacketRefs(p) \in Seq(Msgs) /\ IsInjective(PacketRefs(p))
         /\ ToSet(PacketRefs(p)) = {m \in Items(p) : Reliable(m)}
         /\ Len(PacketRefs(p)) <= Len(p.items)
         /\ PacketRefs(p) # <<>> <=> \E x \in ToSet(p.items) : Reliable(x.msg)
<1>1. p.items \in Seq(Entry)  BY DEF Packet, Entry
<1> DEFINE e == p.items
           t == MsgSeq(e)
           S == {m \in DOMAIN info : Reliable(m)}
<1>2. \A x \in Entry : x.msg \in Msgs  BY DEF Entry
<1>3. /\ t \in Seq(Msgs) /\ Len(t) = Len(p.items) /\ ToSet(t) = {x.msg : x \in ToSet(p.items)}
      /\ IsInjective(t)
  <2>1. /\ e \in Seq(Entry) /\ IsInjective(e)
        /\ \A x, y \in ToSet(e) : x.msg = y.msg => x = y
    BY <1>1 DEF ItemsApart
  <2> HIDE DEF e
  <2>2. /\ t \in Seq(Msgs) /\ Len(t) = Len(e) /\ ToSet(t) = {x.msg : x \in ToSet(e)}
        /\ IsInjective(t)
    BY <1>2, <2>1, MsgsOf
  <2> QED BY <2>2 DEF e
<1>4. Items(p) = {x.msg : x \in ToSet(p.items)}
  BY DEF Items, ToSet
<1>5. PacketRefs(p) = Only(t, S)  BY DEF PacketRefs, MsgSeq
<1> HIDE DEF t, S
<1>6. /\ PacketRefs(p) \in Seq(Msgs) /\ Len(PacketRefs(p)) <= Len(t)
      /\ ToSet(PacketRefs(p)) = ToSet(t) \cap S /\ IsInjective(PacketRefs(p))
  BY <1>3, <1>5, OnlyFacts
<1>7. ToSet(t) \cap S = {m \in Items(p) : Reliable(m)}
  <2>1. \A m \in ToSet(t) : m \in DOMAIN info  BY <1>3 DEF ItemsApart
  <2> QED BY <1>3, <1>4, <2>1 DEF S
<1>8. PacketRefs(p) # <<>> <=> ToSet(PacketRefs(p)) # {}  BY <1>6, ToSetOf
<1>9. ToSet(PacketRefs(p)) # {} <=> \E x \in ToSet(p.items) : Reliable(x.msg)
  BY <1>4, <1>6, <1>7
<1>10. Items(p) \in SUBSET Msgs
  BY <1>1, <1>2, <1>4, ToSetOf
<1> QED BY <1>1, <1>3, <1>4, <1>6, <1>7, <1>8, <1>9, <1>10

(* sent_seq_queue holds the packets in flight.                              *)
LEMMA LiveFacts ==
  ASSUME Typed, SlotsHold, Numbered
  PROVE  /\ LiveTracked \in Seq(Seqs) /\ Rising(LiveTracked) /\ IsInjective(LiveTracked)
         /\ ToSet(LiveTracked) = UsedSeqs /\ UsedSeqs \subseteq ToSet(tracked)
         /\ Len(LiveTracked) <= SlotCount /\ Len(LiveTracked) \in Nat
         /\ \A q \in UsedSeqs : q \in Seqs /\ Slot(q) \in SlotIds /\ sent[Slot(q)].seq = q
<1> DEFINE S == {seq \in Seqs : IsUsed(seq)}
<1>1. tracked \in Seq(Seqs) /\ Rising(tracked) /\ Len(tracked) <= SlotCount  BY DEF Typed, Numbered
<1>2. LiveTracked = Only(tracked, S)  BY DEF LiveTracked
<1>3. Seqs \subseteq Int /\ Seqs \subseteq Nat /\ 0 \notin Seqs  BY Consts DEF Seqs
<1>4. \A s \in SlotIds : sent[s].seq \in 0..MaxSeq  BY DEF Typed
<1>5. ASSUME NEW q \in UsedSeqs
      PROVE  q \in Seqs /\ Slot(q) \in SlotIds /\ sent[Slot(q)].seq = q /\ q \in ToSet(tracked)
  <2>1. PICK s \in SlotIds : sent[s].seq # 0 /\ q = sent[s].seq  BY DEF UsedSeqs
  <2>2. q \in Seqs  BY <1>4, <2>1, Consts DEF Seqs
  <2>3. Slot(q) = s /\ q \in ToSet(tracked)  BY <2>1 DEF SlotsHold, Numbered
  <2> QED BY <2>1, <2>2, <2>3
<1>6. ToSet(tracked) \cap S = UsedSeqs
  <2>1. ASSUME NEW q \in ToSet(tracked), q \in S PROVE q \in UsedSeqs
    <3>1. q \in Seqs /\ q \in Nat /\ q # 0 /\ sent[Slot(q)].seq = q  BY <1>3, <2>1 DEF IsUsed
    <3>2. Slot(q) \in SlotIds  BY <3>1, SlotIsSlot
    <3> QED BY <3>1, <3>2 DEF UsedSeqs
  <2>2. ASSUME NEW q \in UsedSeqs PROVE q \in ToSet(tracked) \cap S  BY <1>5 DEF IsUsed
  <2> QED BY <2>1, <2>2
<1> HIDE DEF S
<1>7. /\ LiveTracked \in Seq(Seqs) /\ Rising(LiveTracked) /\ Len(LiveTracked) <= Len(tracked)
      /\ ToSet(LiveTracked) = ToSet(tracked) \cap S
  BY <1>1, <1>2, <1>3, OnlyFacts
<1>8. IsInjective(LiveTracked)  BY <1>3, <1>7, RisingIsInjective
<1>9. Len(LiveTracked) \in Nat /\ Len(tracked) \in Nat  BY <1>1, <1>7, ToSetOf
<1>10. Len(LiveTracked) <= SlotCount  BY <1>1, <1>7, <1>9, Consts
<1> QED BY <1>5, <1>6, <1>7, <1>8, <1>9, <1>10

(* mark_packet_lost on the packets of gone.                                 *)
Losable(gone) == gone \in Seq(Seqs) /\ IsInjective(gone) /\ ToSet(gone) \subseteq UsedSeqs
LM(gone) == UNION {ToSet(Refs(q)) : q \in ToSet(gone)}

LEMMA LostMsgsFacts ==
  ASSUME Typed, SlotsHold, Numbered, NEW gone, Losable(gone)
  PROVE  /\ LostMsgs(gone) \in Seq(Msgs) /\ IsInjective(LostMsgs(gone))
         /\ ToSet(LostMsgs(gone)) = LM(gone)
         /\ \A m \in LM(gone) : /\ m \in InFlight /\ m \in DOMAIN info /\ m \in Msgs /\ Reliable(m)
                                /\ \E s \in SlotIds : sent[s].seq \in ToSet(gone) /\ m \in ToSet(sent[s].refs)
<1> DEFINE n == Len(gone)
           ss == [i \in DOMAIN gone |-> Refs(gone[i])]
<1>1. n \in Nat /\ DOMAIN gone = 1..n /\ ToSet(gone) = {gone[i] : i \in 1..n} /\ gone \in Seq(Seqs)
  BY ToSetOf DEF Losable
<1>2. ASSUME NEW q \in ToSet(gone)
      PROVE  Slot(q) \in SlotIds /\ sent[Slot(q)].seq = q /\ Refs(q) = sent[Slot(q)].refs
             /\ Refs(q) \in Seq(Msgs) /\ IsInjective(Refs(q))
  <2>1. q \in UsedSeqs  BY DEF Losable
  <2>2. Slot(q) \in SlotIds /\ sent[Slot(q)].seq = q  BY <2>1, LiveFacts
  <2>3. sent[Slot(q)].refs \in Seq(Msgs) /\ IsInjective(sent[Slot(q)].refs)
    BY <2>2 DEF Typed, SlotsHold
  <2> QED BY <2>2, <2>3 DEF Refs
<1> HIDE DEF n
<1>3. ss \in Seq(Seq(Msgs)) /\ Len(ss) = n /\ \A i \in 1..n : ss[i] = Refs(gone[i])
  BY <1>1, <1>2
<1> HIDE DEF ss
<1>4. \A i \in 1..n : gone[i] \in ToSet(gone) /\ IsInjective(ss[i])  BY <1>1, <1>2, <1>3
<1>5. ASSUME NEW i \in 1..n, NEW j \in 1..n, i # j PROVE ToSet(ss[i]) \cap ToSet(ss[j]) = {}
  <2>1. gone[i] # gone[j]  BY <1>1, <1>5 DEF Losable, IsInjective
  <2>2. Slot(gone[i]) # Slot(gone[j])  BY <1>2, <1>4, <2>1
  <2>3. ss[i] = sent[Slot(gone[i])].refs /\ ss[j] = sent[Slot(gone[j])].refs  BY <1>2, <1>3, <1>4
  <2> QED BY <1>2, <1>4, <2>2, <2>3 DEF SlotsHold
<1>6. LostMsgs(gone) = FlattenSeq(ss)  BY DEF LostMsgs, ss
<1>7. /\ LostMsgs(gone) \in Seq(Msgs) /\ IsInjective(LostMsgs(gone))
      /\ ToSet(LostMsgs(gone)) = UNION {ToSet(ss[i]) : i \in 1..n}
  BY <1>3, <1>4, <1>5, <1>6, FlattenFacts
<1>8. UNION {ToSet(ss[i]) : i \in 1..n} = LM(gone)
  <2>1. {ToSet(ss[i]) : i \in 1..n} = {ToSet(Refs(q)) : q \in ToSet(gone)}
    <3>1. \A i \in 1..n : ToSet(ss[i]) = ToSet(Refs(gone[i]))  BY <1>3
    <3> QED BY <1>1, <3>1
  <2> QED BY <2>1 DEF LM
<1>9. ASSUME NEW m \in LM(gone)
      PROVE  /\ m \in InFlight /\ m \in DOMAIN info /\ m \in Msgs /\ Reliable(m)
             /\ \E s \in SlotIds : sent[s].seq \in ToSet(gone) /\ m \in ToSet(sent[s].refs)
  <2>1. PICK q \in ToSet(gone) : m \in ToSet(Refs(q))  BY DEF LM
  <2>2. Slot(q) \in SlotIds /\ m \in ToSet(sent[Slot(q)].refs) /\ sent[Slot(q)].seq \in ToSet(gone)
    BY <1>2, <2>1
  <2>3. m \in DOMAIN info /\ Reliable(m)  BY <2>2 DEF SlotsHold
  <2>4. m \in Msgs  BY <1>2, <2>1, ToSetOf
  <2>5. m \in InFlight  BY <2>2 DEF InFlight
  <2> QED BY <2>2, <2>3, <2>4, <2>5
<1> QED BY <1>7, <1>8, <1>9

(* queue_retransmit                                                         *)
LEMMA RetryAfterFacts ==
  ASSUME Typed, RingsHold, SlotsHold, Apart, Numbered, NEW gone, Losable(gone), NEW f \in Flows
  PROVE  /\ RetryAfter(gone, f) \in Seq(Msgs) /\ IsInjective(RetryAfter(gone, f))
         /\ Len(RetryAfter(gone, f)) <= RingCap
         /\ ToSet(RetryAfter(gone, f)) =
              InRing(f, "retry") \cup {m \in LM(gone) \ NoRoom(gone) : info[m].flow = f}
         /\ IsFiniteSet(LM(gone))
         /\ \A R : /\ IsFiniteSet(R) /\ Cardinality(R) <= RingCap
                   /\ InRing(f, "retry") \cup {m \in LM(gone) : info[m].flow = f} \subseteq R
                => {m \in LM(gone) : info[m].flow = f} \subseteq ToSet(RetryAfter(gone, f))
<1> DEFINE r(g) == queue[g]["retry"]
           l(g) == LostOfFlow(gone, g)
           F(g) == {m \in LM(gone) : info[m].flow = g}
<1>1. /\ LostMsgs(gone) \in Seq(Msgs) /\ IsInjective(LostMsgs(gone))
      /\ ToSet(LostMsgs(gone)) = LM(gone)
      /\ \A m \in LM(gone) : m \in InFlight /\ m \in DOMAIN info /\ m \in Msgs /\ Reliable(m)
  BY LostMsgsFacts
<1>2. RingCap \in Nat /\ "retry" \in Sources  BY Consts DEF Sources
<1>3. ASSUME NEW g \in Flows
      PROVE  /\ r(g) \in Seq(Msgs) /\ IsInjective(r(g)) /\ Len(r(g)) <= RingCap
             /\ ToSet(r(g)) = InRing(g, "retry")
             /\ l(g) \in Seq(Msgs) /\ IsInjective(l(g)) /\ ToSet(l(g)) = F(g)
             /\ ToSet(r(g)) \cap ToSet(l(g)) = {}
  <2>1. r(g) \in Seq(Msgs) /\ IsInjective(r(g)) /\ Len(r(g)) <= RingCap /\ ToSet(r(g)) = InRing(g, "retry")
    BY <1>2 DEF Typed, RingsHold, InRing
  <2> DEFINE S == {m \in DOMAIN info : info[m].flow = g}
  <2>2. l(g) = Only(LostMsgs(gone), S)  BY DEF LostOfFlow
  <2>3. F(g) = LM(gone) \cap S  BY <1>1
  <2> HIDE DEF S
  <2>4. l(g) \in Seq(Msgs) /\ IsInjective(l(g)) /\ ToSet(l(g)) = F(g)  BY <1>1, <2>2, <2>3, OnlyFacts
  <2>5. ToSet(r(g)) \subseteq Queued  BY <1>2, <2>1 DEF Queued
  <2>6. ToSet(l(g)) \subseteq InFlight  BY <1>1, <2>4
  <2> QED BY <2>1, <2>4, <2>5, <2>6 DEF Apart
<1>4. ASSUME NEW g \in Flows
      PROVE  /\ RetryAfter(gone, g) = FirstOf(RingCap, r(g) \o l(g))
             /\ r(g) \o l(g) \in Seq(Msgs) /\ IsInjective(r(g) \o l(g))
             /\ ToSet(r(g) \o l(g)) = InRing(g, "retry") \cup F(g)
  <2>1. RetryAfter(gone, g) = FirstOf(RingCap, r(g) \o l(g))  BY DEF RetryAfter
  <2> HIDE DEF r, l, F
  <2>2. /\ r(g) \o l(g) \in Seq(Msgs) /\ IsInjective(r(g) \o l(g))
        /\ ToSet(r(g) \o l(g)) = ToSet(r(g)) \cup ToSet(l(g))
    BY <1>3, ConcatFacts
  <2> QED BY <1>3, <2>1, <2>2
<1>5. ASSUME NEW g \in Flows
      PROVE  /\ RetryAfter(gone, g) \in Seq(Msgs) /\ IsInjective(RetryAfter(gone, g))
             /\ Len(RetryAfter(gone, g)) <= RingCap
             /\ ToSet(RetryAfter(gone, g)) \subseteq InRing(g, "retry") \cup F(g)
             /\ InRing(g, "retry") \subseteq ToSet(RetryAfter(gone, g))
  <2> HIDE DEF r, l, F
  <2> DEFINE u == r(g) \o l(g)
  <2>1. /\ FirstOf(RingCap, u) \in Seq(Msgs) /\ IsInjective(FirstOf(RingCap, u))
        /\ Len(FirstOf(RingCap, u)) <= RingCap /\ ToSet(FirstOf(RingCap, u)) \subseteq ToSet(u)
    <3>1. u \in Seq(Msgs) /\ IsInjective(u)  BY <1>4
    <3> HIDE DEF u
    <3> QED BY <1>2, <3>1, FirstOfFacts
  <2>2. ToSet(r(g)) \subseteq ToSet(FirstOf(RingCap, r(g) \o l(g)))
    BY <1>2, <1>3, FirstOfConcat
  <2> QED BY <1>3, <1>4, <2>1, <2>2
<1>6. NoRoom(gone) = LM(gone) \ UNION {ToSet(RetryAfter(gone, g)) : g \in Flows}
  BY <1>1 DEF NoRoom
<1>7. ToSet(RetryAfter(gone, f)) = InRing(f, "retry") \cup {m \in LM(gone) \ NoRoom(gone) : info[m].flow = f}
  <2>1. ASSUME NEW m \in ToSet(RetryAfter(gone, f)), m \notin InRing(f, "retry")
        PROVE  m \in LM(gone) \ NoRoom(gone) /\ info[m].flow = f
    BY <1>5, <1>6, <2>1
  <2>2. ASSUME NEW m \in LM(gone) \ NoRoom(gone), info[m].flow = f
        PROVE  m \in ToSet(RetryAfter(gone, f))
    <3>1. PICK g \in Flows : m \in ToSet(RetryAfter(gone, g))  BY <1>6
    <3>2. m \notin InRing(g, "retry")
      <4>1. InRing(g, "retry") \subseteq Queued  BY <1>2 DEF Queued
      <4> QED BY <1>1, <4>1 DEF Apart
    <3>3. info[m].flow = g  BY <1>5, <3>1, <3>2
    <3> QED BY <2>2, <3>1, <3>3
  <2> QED BY <1>5, <2>1, <2>2
<1>8. IsFiniteSet(LM(gone))  BY <1>1, SizeOfInjective
<1>9. ASSUME NEW R, IsFiniteSet(R), Cardinality(R) <= RingCap, InRing(f, "retry") \cup F(f) \subseteq R
      PROVE  F(f) \subseteq ToSet(RetryAfter(gone, f))
  <2> HIDE DEF r, l, F
  <2> DEFINE u == r(f) \o l(f)
  <2>1. u \in Seq(Msgs) /\ IsInjective(u) /\ ToSet(u) = InRing(f, "retry") \cup F(f)
        /\ RetryAfter(gone, f) = FirstOf(RingCap, u)
    BY <1>4
  <2> HIDE DEF u
  <2>2. Cardinality(ToSet(u)) = Len(u)  BY <2>1, SizeOfInjective
  <2>3. Cardinality(ToSet(u)) <= Cardinality(R) /\ Cardinality(R) \in Nat  BY <1>9, <2>1, FS_Subset, FS_CardinalityType
  <2>4. Len(u) <= RingCap
    <3>1. Len(u) \in Nat  BY <2>1, ToSetOf
    <3> QED BY <1>2, <1>9, <2>2, <2>3, <3>1
  <2>5. FirstOf(RingCap, u) = u  BY <1>2, <2>1, <2>4, FirstOfFacts
  <2> QED BY <2>1, <2>5
<1> QED BY <1>5, <1>7, <1>8, <1>9

Inv == /\ Typed /\ RingsHold /\ BatchHolds /\ SlotsHold /\ Apart /\ RoomLeft
       /\ Numbered /\ Booked /\ Traced

(* note_msg_lost_seq                                                        *)
LEMMA LostAfterFacts ==
  ASSUME Typed, SlotsHold, Numbered, NEW gone, Losable(gone), NEW m \in Msgs
  PROVE  /\ LostAfter(gone, m) \in Seq(Seqs) /\ Len(LostAfter(gone, m)) <= MaxLostSeqs
         /\ LostAfter(gone, m) # <<>> <=> m \in Late \cup LM(gone)
         /\ \A q \in ToSet(LostAfter(gone, m)) :
              q \in ToSet(lost[m]) \/ (q \in ToSet(gone) /\ m \in ToSet(Refs(q)))
<1> DEFINE S == {seq \in Seqs : m \in ToSet(Refs(seq))}
           l == lost[m]
           k == LostIn(gone, m)
           u == l \o k
<1>1. gone \in Seq(Seqs) /\ l \in Seq(Seqs) /\ MaxLostSeqs \in Nat /\ MaxLostSeqs >= 1
  BY Consts DEF Losable, Typed
<1>2. k \in Seq(Seqs) /\ ToSet(k) = ToSet(gone) \cap S
  <2>1. k = Only(gone, S)  BY DEF LostIn
  <2> HIDE DEF S, k
  <2> QED BY <1>1, <2>1, OnlyFacts
<1>3. ToSet(k) # {} <=> m \in LM(gone)
  <2>1. ToSet(gone) \subseteq Seqs  BY <1>1, ToSetOf
  <2>2. m \in LM(gone) <=> \E q \in ToSet(gone) : m \in ToSet(Refs(q))  BY DEF LM
  <2> QED BY <1>2, <2>1, <2>2
<1>4. LostAfter(gone, m) = LastOf(MaxLostSeqs, u)  BY DEF LostAfter
<1>5. \A q \in ToSet(k) : q \in ToSet(gone) /\ m \in ToSet(Refs(q))  BY <1>2
<1>6. l # <<>> <=> m \in Late  BY DEF Late
<1> HIDE DEF k, l, S
<1>7. u \in Seq(Seqs) /\ ToSet(u) = ToSet(l) \cup ToSet(k)  BY <1>1, <1>2, ConcatFacts
<1>8. u = <<>> <=> l = <<>> /\ ToSet(k) = {}
  <2>1. u = <<>> <=> ToSet(u) = {}  BY <1>7, ToSetOf
  <2>2. l = <<>> <=> ToSet(l) = {}  BY <1>1, ToSetOf
  <2> QED BY <1>7, <2>1, <2>2
<1> HIDE DEF u
<1>9. /\ LastOf(MaxLostSeqs, u) \in Seq(Seqs) /\ Len(LastOf(MaxLostSeqs, u)) <= MaxLostSeqs
      /\ ToSet(LastOf(MaxLostSeqs, u)) \subseteq ToSet(u)
      /\ LastOf(MaxLostSeqs, u) = <<>> <=> u = <<>>
  BY <1>1, <1>7, LastOfFacts
<1>10. LostAfter(gone, m) # <<>> <=> m \in Late \cup LM(gone)  BY <1>3, <1>4, <1>6, <1>8, <1>9
<1>11. \A q \in ToSet(LostAfter(gone, m)) :
         q \in ToSet(lost[m]) \/ (q \in ToSet(gone) /\ m \in ToSet(Refs(q)))
  BY <1>4, <1>5, <1>7, <1>9 DEF l
<1> QED BY <1>4, <1>9, <1>10, <1>11

LEMMA MsgsAreFinite ==
  /\ IsFiniteSet(Msgs) /\ Cardinality(Msgs) = MaxSent
  /\ \A S \in SUBSET Msgs : IsFiniteSet(S) /\ Cardinality(S) \in Nat /\ Cardinality(S) <= MaxSent
<1>1. MaxSent \in Nat /\ MaxSent >= 1 /\ 1 \in Int /\ MaxSent \in Int  BY Consts
<1>2. IsFiniteSet(1..MaxSent) /\ Cardinality(1..MaxSent) = IF 1 > MaxSent THEN 0 ELSE MaxSent - 1 + 1
  BY <1>1, FS_Interval
<1>3. IsFiniteSet(Msgs) /\ Cardinality(Msgs) = MaxSent  BY <1>1, <1>2 DEF Msgs
<1> QED BY <1>3, FS_Subset, FS_CardinalityType

LEMMA LateGrows ==
  ASSUME Typed, SlotsHold, Numbered, Booked, NEW gone, Losable(gone)
  PROVE  lateCount + Cardinality(NewlyLost(gone)) = Cardinality(Late \cup LM(gone))
<1>1. LM(gone) \in SUBSET Msgs /\ ToSet(LostMsgs(gone)) = LM(gone)  BY LostMsgsFacts
<1>2. Late \in SUBSET Msgs  BY DEF Late
<1>3. NewlyLost(gone) = LM(gone) \ Late  BY <1>1 DEF NewlyLost, Late
<1> DEFINE A == Late
           B == LM(gone) \ Late
<1>4. IsFiniteSet(A) /\ IsFiniteSet(B) /\ A \cap B = {} /\ A \cup B = Late \cup LM(gone)
  BY <1>1, <1>2, MsgsAreFinite
<1>5. Cardinality(A \cup B) = Cardinality(A) + Cardinality(B)
  <2> HIDE DEF A, B
  <2>1. Cardinality(A \cup B) = Cardinality(A) + Cardinality(B) - Cardinality(A \cap B)
    BY <1>4, FS_Union
  <2>2. Cardinality(A \cap B) = 0  BY <1>4, FS_EmptySet
  <2>3. Cardinality(A) \in Nat /\ Cardinality(B) \in Nat  BY <1>4, FS_CardinalityType
  <2> QED BY <2>1, <2>2, <2>3
<1> QED BY <1>3, <1>4, <1>5 DEF Booked

LEMMA SizeWithout ==
  ASSUME NEW A, IsFiniteSet(A), NEW B
  PROVE  Cardinality(A) - Cardinality(A \cap B) = Cardinality(A \ B)
BY FS_Difference

(* What the losses of a round do: the packets of gone are given up, those   *)
(* of cleared leave the list, and the messages of freed their places.       *)
Settles(gone, cleared, freed) ==
  /\ Losable(gone) /\ ToSet(gone) \subseteq cleared /\ cleared \subseteq UsedSeqs
  /\ freed \subseteq Lossy /\ NoRoom(gone) \subseteq freed
  /\ \A s \in SlotIds : sent[s].seq \in cleared \ ToSet(gone) => ToSet(sent[s].refs) \subseteq freed
  /\ batch = <<>> /\ batch' = <<>> /\ info' = info /\ nextSeq' = nextSeq
  /\ cursor' = cursor /\ filling' \in BOOLEAN /\ blocked' \in BOOLEAN /\ firstSeq' \in 0..MaxSeq
  /\ queue' \in [Flows -> [Sources -> Seq(Msgs)]]
  /\ \A f \in Flows :
       /\ IsInjective(queue'[f]["retry"]) /\ Len(queue'[f]["retry"]) <= RingCap
       /\ ToSet(queue'[f]["retry"]) =
            (InRing(f, "retry") \cup {m \in LM(gone) : info[m].flow = f}) \ freed
       /\ \A t \in Sources \ {"retry"} : queue'[f][t] = queue[f][t]
  /\ sent' \in [SlotIds -> [seq : 0..MaxSeq, refs : Seq(Msgs)]]
  /\ \A s \in SlotIds :
       \/ sent'[s] = Unused /\ (sent[s].seq \in cleared \/ ToSet(sent[s].refs) \subseteq freed)
       \/ /\ sent[s].seq \notin cleared /\ sent'[s].seq = sent[s].seq /\ sent'[s].refs # <<>>
          /\ IsInjective(sent'[s].refs) /\ Len(sent'[s].refs) <= RefsPerPacket
          /\ ToSet(sent'[s].refs) = ToSet(sent[s].refs) \ freed
  /\ lost' \in [Msgs -> Seq(Seqs)]
  /\ \A m \in Msgs :
       /\ Len(lost'[m]) <= MaxLostSeqs
       /\ lost'[m] # <<>> <=> m \in (Late \cup LM(gone)) \ freed
       /\ \A q \in ToSet(lost'[m]) :
            q \in ToSet(lost[m]) \/ (q \in ToSet(gone) /\ m \in ToSet(Refs(q)))
  /\ lateCount' = Cardinality((Late \cup LM(gone)) \ freed)
  /\ done' \cup expired' \cup dropped' = Gone \cup freed
  /\ wire' = wire /\ heard' = heard /\ DoneArrived'
  /\ tracked' \in Seq(Seqs) /\ Rising(tracked') /\ Len(tracked') <= SlotCount
  /\ ToSet(tracked') \subseteq ToSet(tracked) /\ UsedSeqs \ cleared \subseteq ToSet(tracked')
  /\ armed' \in BOOLEAN /\ (UsedSeqs \ cleared # {} => armed')

LEMMA InfoIsTyped ==
  ASSUME Typed
  PROVE  /\ DOMAIN info = 1..Len(info) /\ Len(info) \in Nat /\ DOMAIN info \subseteq Msgs
         /\ \A m \in DOMAIN info : info[m].flow \in Flows /\ info[m].kind \in Kinds
<1> DEFINE X == [flow : Flows, kind : Kinds]
<1>1. info \in Seq(X) /\ Len(info) <= MaxSent  BY DEF Typed
<1> HIDE DEF X
<1>2. DOMAIN info = 1..Len(info) /\ Len(info) \in Nat /\ \A m \in 1..Len(info) : info[m] \in X
  BY <1>1, ToSetOf
<1>3. DOMAIN info \subseteq Msgs  BY <1>1, <1>2, Consts DEF Msgs
<1> QED BY <1>2, <1>3 DEF X

LEMMA LossyIsKnown ==
  ASSUME Typed, RingsHold, BatchHolds, SlotsHold
  PROVE  /\ \A m \in Alive : m \in DOMAIN info /\ m \in Msgs
         /\ Lossy \subseteq Alive /\ \A m \in Lossy : Reliable(m)
<1>1. ASSUME NEW m \in Queued PROVE m \in DOMAIN info
  BY DEF Queued, RingsHold
<1>2. InBatch = {x.msg : x \in Packed}
  <2>1. ASSUME NEW i \in DOMAIN batch PROVE Items(batch[i]) = {x.msg : x \in ToSet(batch[i].items)}
    BY DEF Items, ToSet
  <2> QED BY <2>1 DEF InBatch, Packed
<1>3. \A m \in InBatch : m \in DOMAIN info  BY <1>2 DEF BatchHolds
<1>4. \A m \in InFlight : m \in DOMAIN info /\ Reliable(m)  BY DEF InFlight, SlotsHold
<1>5. \A m \in DOMAIN info : m \in Msgs  BY InfoIsTyped
<1>6. \A f \in Flows : InRing(f, "retry") \subseteq Queued /\ \A m \in InRing(f, "retry") : Reliable(m)
  <2>1. "retry" \in Sources  BY DEF Sources
  <2> QED BY <2>1 DEF Queued, RingsHold
<1>7. \A x \in Packed : x.src = "retry" => Reliable(x.msg)  BY DEF BatchHolds
<1>8. Lossy \subseteq Alive /\ \A m \in Lossy : Reliable(m)
  <2>1. ASSUME NEW m \in Lossy PROVE m \in Alive /\ Reliable(m)
    <3>1. CASE m \in InFlight  BY <1>4, <3>1 DEF Alive
    <3>2. CASE \E f \in Flows : m \in InRing(f, "retry")  BY <1>6, <3>2 DEF Alive
    <3>3. CASE \E x \in Packed : x.src = "retry" /\ m = x.msg  BY <1>2, <1>7, <3>3 DEF Alive
    <3> QED BY <3>1, <3>2, <3>3 DEF Lossy
  <2> QED BY <2>1
<1> QED BY <1>1, <1>3, <1>4, <1>5, <1>8 DEF Alive

LEMMA SettleKeeps ==
  ASSUME Inv, NEW gone, NEW cleared, NEW freed, Settles(gone, cleared, freed)
  PROVE  Inv'
<1> USE DEF Inv
<1>1. /\ \A m \in LM(gone) : /\ m \in InFlight /\ m \in DOMAIN info /\ m \in Msgs /\ Reliable(m)
                             /\ \E s \in SlotIds : sent[s].seq \in ToSet(gone) /\ m \in ToSet(sent[s].refs)
      /\ IsFiniteSet(LM(gone))
  BY LostMsgsFacts, SizeOfInjective DEF Settles
<1>2. /\ \A m \in Alive : m \in DOMAIN info /\ m \in Msgs
      /\ Lossy \subseteq Alive /\ \A m \in Lossy : Reliable(m)
  BY LossyIsKnown
<1>3. batch' = <<>> /\ batch = <<>> /\ InBatch = {} /\ InBatch' = {} /\ Packed = {} /\ Packed' = {}
  BY DEF Settles, InBatch, Packed
<1>4. \A m : Reliable(m)' <=> Reliable(m)  BY DEF Settles, Reliable
<1>5. DOMAIN info' = DOMAIN info /\ \A m : info'[m] = info[m]  BY DEF Settles
<1>6. Typed'
  <2>1. done' \cup expired' \cup dropped' \subseteq DOMAIN info'
    BY <1>2, <1>5 DEF Settles, Typed, Gone
  <2>2. batch' \in Seq(Packet) /\ Len(batch') <= BatchSize  BY <1>3, Consts
  <2> QED BY <2>1, <2>2, <1>3 DEF Settles, Typed, Packet, Entry
<1>7. ASSUME NEW f \in Flows, NEW t \in Sources
      PROVE  InRing(f, t)' = IF t = "retry"
                             THEN (InRing(f, "retry") \cup {m \in LM(gone) : info[m].flow = f}) \ freed
                             ELSE InRing(f, t)
  BY DEF Settles, InRing
<1>8. ASSUME NEW s \in SlotIds
      PROVE  /\ ToSet(sent'[s].refs) = (ToSet(sent[s].refs) \ LM(gone)) \ freed
             /\ sent'[s].seq # 0 => sent'[s].seq = sent[s].seq /\ sent[s].seq \in UsedSeqs \ cleared
             /\ sent'[s].seq = 0 <=> sent'[s].refs = <<>>
  <2>1. CASE sent'[s] = Unused /\ (sent[s].seq \in cleared \/ ToSet(sent[s].refs) \subseteq freed)
    <3>1. sent'[s].refs = <<>> /\ sent'[s].seq = 0  BY <2>1 DEF Unused
    <3>2. ASSUME sent[s].seq \in cleared PROVE ToSet(sent[s].refs) \subseteq LM(gone) \cup freed
      <4>1. CASE sent[s].seq \in ToSet(gone)
        <5>1. sent[s].seq # 0
          <6>1. sent[s].seq \in UsedSeqs  BY <4>1 DEF Settles, Losable
          <6> QED BY <6>1 DEF UsedSeqs
        <5>2. Slot(sent[s].seq) = s  BY <5>1 DEF SlotsHold
        <5> QED BY <4>1, <5>2 DEF LM, Refs
      <4>2. CASE sent[s].seq \notin ToSet(gone)  BY <3>2, <4>2 DEF Settles
      <4> QED BY <4>1, <4>2
    <3>3. ToSet(sent[s].refs) \subseteq LM(gone) \cup freed  BY <2>1, <3>2
    <3>4. ToSet(<<>>) = {}  BY EmptyToSet
    <3> QED BY <3>1, <3>3, <3>4
  <2>2. CASE /\ sent[s].seq \notin cleared /\ sent'[s].seq = sent[s].seq /\ sent'[s].refs # <<>>
             /\ ToSet(sent'[s].refs) = ToSet(sent[s].refs) \ freed
    <3>1. ToSet(sent[s].refs) \cap LM(gone) = {}
      <4> SUFFICES ASSUME NEW m \in ToSet(sent[s].refs), m \in LM(gone) PROVE FALSE  OBVIOUS
      <4>1. PICK z \in SlotIds : sent[z].seq \in ToSet(gone) /\ m \in ToSet(sent[z].refs)  BY <1>1
      <4>2. z = s  BY <4>1 DEF SlotsHold
      <4> QED BY <2>2, <4>1, <4>2 DEF Settles
    <3>2. sent[s].seq # 0
      <4>1. ToSet(sent[s].refs) # {}
        <5>1. sent'[s].refs \in Seq(Msgs)  BY DEF Settles
        <5>2. ToSet(sent'[s].refs) # {}  BY <2>2, <5>1, ToSetOf
        <5> QED BY <2>2, <5>2
      <4>2. sent[s].refs # <<>>  BY <4>1, EmptyToSet
      <4> QED BY <4>2 DEF SlotsHold
    <3>3. sent[s].seq \in UsedSeqs  BY <3>2 DEF UsedSeqs
    <3> QED BY <2>2, <3>1, <3>2, <3>3
  <2> QED BY <2>1, <2>2 DEF Settles
<1>9. InFlight' = (InFlight \ LM(gone)) \ freed
  <2>1. ASSUME NEW m PROVE m \in InFlight' <=> m \in (InFlight \ LM(gone)) \ freed
    <3>1. m \in InFlight' <=> \E s \in SlotIds : m \in ToSet(sent'[s].refs)  BY DEF InFlight
    <3>2. m \in InFlight <=> \E s \in SlotIds : m \in ToSet(sent[s].refs)  BY DEF InFlight
    <3> QED BY <1>8, <3>1, <3>2
  <2> QED BY <2>1
<1>10. ASSUME NEW f \in Flows, NEW t \in Sources, NEW m \in InRing(f, t)
       PROVE  m \in Queued /\ m \notin InFlight /\ m \notin LM(gone) /\ info[m].flow = f
              /\ (m \in freed => t = "retry")
  <2>1. m \in Queued  BY <1>10 DEF Queued
  <2>2. m \notin InFlight /\ m \notin LM(gone)  BY <1>1, <2>1 DEF Apart
  <2>3. info[m].flow = f  BY <1>10 DEF RingsHold
  <2>4. ASSUME m \in freed PROVE t = "retry"
    <3>1. PICK g \in Flows : m \in InRing(g, "retry")  BY <1>3, <2>2, <2>4 DEF Settles, Lossy
    <3>2. "retry" \in Sources  BY DEF Sources
    <3>3. g = f  BY <2>3, <3>1, <3>2 DEF RingsHold
    <3> QED BY <1>10, <3>1, <3>2, <3>3 DEF RingsHold
  <2> QED BY <2>1, <2>2, <2>3, <2>4
<1>11. ASSUME NEW m PROVE m \in Queued' <=> m \in (Queued \cup LM(gone)) \ freed
  <2>1. m \in Queued' <=> \E f \in Flows, t \in Sources : m \in InRing(f, t)'  BY DEF Queued
  <2>2. m \in Queued <=> \E f \in Flows, t \in Sources : m \in InRing(f, t)  BY DEF Queued
  <2>3. "retry" \in Sources  BY DEF Sources
  <2>4. ASSUME m \in Queued' PROVE m \in (Queued \cup LM(gone)) \ freed
    <3>1. PICK f \in Flows, t \in Sources : m \in InRing(f, t)'  BY <2>1, <2>4
    <3>2. CASE t = "retry"  BY <1>7, <2>2, <2>3, <3>1, <3>2
    <3>3. CASE t # "retry"  BY <1>7, <1>10, <3>1, <3>3
    <3> QED BY <3>2, <3>3
  <2>5. ASSUME m \in Queued, m \notin freed PROVE m \in Queued'
    <3>1. PICK f \in Flows, t \in Sources : m \in InRing(f, t)  BY <2>2, <2>5
    <3>2. m \in InRing(f, t)'  BY <1>7, <2>5, <3>1
    <3> QED BY <2>1, <3>2
  <2>6. ASSUME m \in LM(gone), m \notin freed PROVE m \in Queued'
    <3>1. PICK g \in Flows : info[m].flow = g
      <4>1. m \in DOMAIN info  BY <1>1, <2>6
      <4> QED BY <4>1, InfoIsTyped
    <3>2. m \in InRing(g, "retry")'  BY <1>7, <2>3, <2>6, <3>1
    <3> QED BY <2>1, <2>3, <3>1, <3>2
  <2> QED BY <2>4, <2>5, <2>6
<1>12. Alive' = Alive \ freed
  <2>1. ASSUME NEW m PROVE m \in Alive' <=> m \in Alive \ freed
    <3>1. m \in Alive' <=> m \in Queued' \/ m \in InFlight'  BY <1>3 DEF Alive
    <3>2. m \in Alive <=> m \in Queued \/ m \in InFlight  BY <1>3 DEF Alive
    <3> QED BY <1>1, <1>9, <1>11, <3>1, <3>2
  <2> QED BY <2>1
<1>13. RingsHold'
  <2>1. "retry" \in Sources  BY DEF Sources
  <2> SUFFICES ASSUME NEW f \in Flows, NEW t \in Sources
      PROVE /\ IsInjective(queue'[f][t]) /\ Len(queue'[f][t]) <= RingCap
            /\ \A m \in InRing(f, t)' :
                 m \in DOMAIN info /\ info[m].flow = f /\ (t = "unreliable" <=> ~Reliable(m))
            /\ \A u \in Sources : u # t => InRing(f, t)' \cap InRing(f, u)' = {}
    BY <1>4, <1>5 DEF RingsHold
  <2>2. IsInjective(queue'[f][t]) /\ Len(queue'[f][t]) <= RingCap
    <3>1. CASE t = "retry"  BY <3>1 DEF Settles
    <3>2. CASE t # "retry"
      <4>1. queue'[f][t] = queue[f][t]  BY <3>2 DEF Settles
      <4> QED BY <4>1 DEF RingsHold
    <3> QED BY <3>1, <3>2
  <2>3. ASSUME NEW m \in InRing(f, t)'
        PROVE  m \in DOMAIN info /\ info[m].flow = f /\ (t = "unreliable" <=> ~Reliable(m))
    <3>1. CASE m \in InRing(f, t)  BY <3>1 DEF RingsHold
    <3>2. CASE m \notin InRing(f, t)
      <4>1. t = "retry" /\ m \in LM(gone) /\ info[m].flow = f  BY <1>7, <2>3, <3>2
      <4> QED BY <1>1, <4>1
    <3> QED BY <3>1, <3>2
  <2>4. ASSUME NEW u \in Sources, u # t PROVE InRing(f, t)' \cap InRing(f, u)' = {}
    <3>1. InRing(f, t) \cap InRing(f, u) = {}  BY <2>4 DEF RingsHold
    <3> QED BY <1>7, <1>10, <2>4, <3>1
  <2> QED BY <2>2, <2>3, <2>4
<1>14. BatchHolds'  BY <1>3 DEF BatchHolds
<1>15. SlotsHold'
  <2>1. ASSUME NEW s \in SlotIds
        PROVE  /\ IsInjective(sent'[s].refs) /\ Len(sent'[s].refs) <= RefsPerPacket
               /\ \A m \in ToSet(sent'[s].refs) : m \in DOMAIN info /\ Reliable(m)
               /\ sent'[s].seq = 0 <=> sent'[s].refs = <<>>
               /\ sent'[s].seq # 0 => Slot(sent'[s].seq) = s
    <3>1. IsInjective(sent'[s].refs) /\ Len(sent'[s].refs) <= RefsPerPacket
      <4>1. IsInjective(<<>>) /\ Len(<<>>) <= RefsPerPacket  BY EmptyToSet, Consts
      <4> QED BY <4>1 DEF Settles, Unused
    <3>2. \A m \in ToSet(sent'[s].refs) : m \in DOMAIN info /\ Reliable(m)  BY <1>8 DEF SlotsHold
    <3>3. sent'[s].seq # 0 => Slot(sent'[s].seq) = s  BY <1>8 DEF SlotsHold
    <3> QED BY <1>8, <3>1, <3>2, <3>3
  <2>2. \A s, z \in SlotIds : s # z => ToSet(sent'[s].refs) \cap ToSet(sent'[z].refs) = {}
    <3>1. \A s, z \in SlotIds : s # z => ToSet(sent[s].refs) \cap ToSet(sent[z].refs) = {}  BY DEF SlotsHold
    <3> QED BY <1>8, <3>1
  <2>3. \A q : Slot(q)' = Slot(q)  BY DEF Slot
  <2> QED BY <1>4, <1>5, <2>1, <2>2, <2>3 DEF SlotsHold
<1>16. Apart'
  <2>1. Queued' \cap InFlight' = {}  BY <1>9, <1>11 DEF Apart
  <2> QED BY <1>3, <2>1 DEF Apart
<1>17. RoomLeft'
  <2>1. ASSUME NEW f \in Flows, NEW t \in Sources
        PROVE  Cardinality(InRing(f, t)' \cup TakenFrom(f, t)') <= RingCap
    <3>1. TakenFrom(f, t)' = {}  BY <1>3 DEF TakenFrom
    <3>2. queue'[f][t] \in Seq(Msgs) /\ IsInjective(queue'[f][t]) /\ Len(queue'[f][t]) <= RingCap
      BY <1>6, <1>13 DEF Typed, RingsHold
    <3>3. Cardinality(InRing(f, t)') = Len(queue'[f][t])  BY <3>2, SizeOfInjective DEF InRing
    <3>4. InRing(f, t)' \cup TakenFrom(f, t)' = InRing(f, t)'  BY <3>1
    <3> QED BY <3>2, <3>3, <3>4
  <2>2. Cardinality(Alive') <= MaxMessages
    <3>1. Alive \in SUBSET Msgs /\ Alive' \in SUBSET Alive  BY <1>2, <1>12
    <3>2. Cardinality(Alive') <= Cardinality(Alive) /\ Cardinality(Alive) \in Nat /\ Cardinality(Alive') \in Nat
      BY <3>1, MsgsAreFinite, FS_Subset, FS_CardinalityType
    <3> QED BY <3>2, Consts DEF RoomLeft
  <2> QED BY <2>1, <2>2 DEF RoomLeft
<1>18. Numbered'
  <2>1. ToSet(tracked') \subseteq ToSet(tracked) /\ nextSeq' = nextSeq  BY DEF Settles
  <2>2. \A q \in ToSet(tracked') : q < nextSeq'  BY <2>1 DEF Numbered
  <2>3. ASSUME NEW s \in SlotIds, sent'[s].seq # 0 PROVE sent'[s].seq \in ToSet(tracked') /\ armed'
    <3>1. sent'[s].seq \in UsedSeqs \ cleared  BY <1>8, <2>3
    <3> QED BY <3>1 DEF Settles
  <2>4. Rising(tracked') /\ Len(tracked') <= SlotCount  BY DEF Settles
  <2> QED BY <1>3, <2>2, <2>3, <2>4 DEF Numbered
<1>19. Booked'
  <2>1. Gone' = Gone \cup freed  BY DEF Settles, Gone
  <2>2. \A m \in DOMAIN info' : Reliable(m)' => (m \in Alive' <=> m \notin Gone')
    <3>1. freed \subseteq Alive  BY <1>2 DEF Settles
    <3> QED BY <1>4, <1>5, <1>12, <2>1, <3>1 DEF Booked
  <2>3. Late' = (Late \cup LM(gone)) \ freed
    <3>1. Late' = {m \in Msgs : lost'[m] # <<>>}  BY DEF Late
    <3>2. \A m \in Msgs : lost'[m] # <<>> <=> m \in (Late \cup LM(gone)) \ freed  BY DEF Settles
    <3>3. Late \subseteq Msgs /\ LM(gone) \subseteq Msgs  BY <1>1 DEF Late
    <3> QED BY <3>1, <3>2, <3>3
  <2>4. Late' \subseteq Lossy'
    <3> SUFFICES ASSUME NEW m \in (Late \cup LM(gone)) \ freed PROVE m \in Lossy'  BY <2>3
    <3>0. "retry" \in Sources  BY DEF Sources
    <3>1. CASE m \in LM(gone)
      <4>1. PICK g \in Flows : info[m].flow = g
        <5>1. m \in DOMAIN info  BY <1>1, <3>1
        <5> QED BY <5>1, InfoIsTyped
      <4>2. m \in InRing(g, "retry")'  BY <1>7, <3>0, <3>1, <4>1
      <4> QED BY <4>1, <4>2 DEF Lossy
    <3>2. CASE m \in Late /\ m \notin LM(gone)
      <4>1. m \in InFlight \/ \E f \in Flows : m \in InRing(f, "retry")
        BY <1>3, <3>2 DEF Booked, Lossy
      <4>2. CASE m \in InFlight
        <5>1. m \in InFlight'  BY <1>9, <3>2, <4>2
        <5> QED BY <5>1 DEF Lossy
      <4>3. CASE \E f \in Flows : m \in InRing(f, "retry")
        <5>1. PICK f \in Flows : m \in InRing(f, "retry")  BY <4>3
        <5>2. m \in InRing(f, "retry")'  BY <1>7, <3>0, <5>1
        <5> QED BY <5>2 DEF Lossy
      <4> QED BY <4>1, <4>2, <4>3
    <3> QED BY <3>1, <3>2
  <2>5. lateCount' = Cardinality(Late')  BY <2>3 DEF Settles
  <2> QED BY <2>2, <2>4, <2>5 DEF Booked
<1>20. Traced'
  <2>1. wire' = wire /\ heard' = heard /\ DoneArrived'  BY DEF Settles
  <2>2. \A s \in SlotIds : \A m \in ToSet(sent'[s].refs) : m \in wire'[sent'[s].seq]
    <3> SUFFICES ASSUME NEW s \in SlotIds, NEW m \in ToSet(sent'[s].refs) PROVE m \in wire[sent'[s].seq]
      BY <2>1
    <3>1. sent'[s].refs # <<>>  BY EmptyToSet
    <3>2. sent'[s].seq = sent[s].seq /\ m \in ToSet(sent[s].refs)  BY <1>8, <3>1
    <3> QED BY <3>2 DEF Traced
  <2>3. \A m \in Msgs : \A q \in ToSet(lost'[m]) : m \in wire'[q]
    <3> SUFFICES ASSUME NEW m \in Msgs, NEW q \in ToSet(lost'[m]) PROVE m \in wire[q]  BY <2>1
    <3>1. CASE q \in ToSet(lost[m])  BY <3>1 DEF Traced
    <3>2. CASE q \in ToSet(gone) /\ m \in ToSet(Refs(q))
      <4>1. q \in UsedSeqs  BY <3>2 DEF Settles, Losable
      <4>2. Slot(q) \in SlotIds /\ sent[Slot(q)].seq = q  BY <4>1, LiveFacts
      <4> QED BY <3>2, <4>2 DEF Traced, Refs
    <3> QED BY <3>1, <3>2 DEF Settles
  <2> QED BY <2>1, <2>2, <2>3 DEF Traced
<1> QED BY <1>6, <1>13, <1>14, <1>15, <1>16, <1>17, <1>18, <1>19, <1>20

LEMMA StartFlushKeeps == ASSUME Inv, NEW n \in 0..SlotCount, StartFlush(n) PROVE Inv'
<1> DEFINE gone == SubSeq(LiveTracked, 1, n)
           left == SubSeq(LiveTracked, n + 1, Len(LiveTracked))
           freed == NoRoom(gone)
<1> USE DEF Inv
<1>1. /\ LiveTracked \in Seq(Seqs) /\ Rising(LiveTracked) /\ IsInjective(LiveTracked)
      /\ ToSet(LiveTracked) = UsedSeqs /\ UsedSeqs \subseteq ToSet(tracked)
      /\ Len(LiveTracked) <= SlotCount /\ Len(LiveTracked) \in Nat
  BY LiveFacts
<1>2. n \in 0..Len(LiveTracked)  BY <1>1 DEF StartFlush
<1>3. /\ gone \in Seq(Seqs) /\ left \in Seq(Seqs) /\ Len(left) = Len(LiveTracked) - n
      /\ UsedSeqs = ToSet(gone) \cup ToSet(left)
      /\ IsInjective(gone) /\ Rising(left) /\ ToSet(gone) \cap ToSet(left) = {}
  BY <1>1, <1>2, CutFacts
<1>4. /\ ~filling /\ tracked' = left /\ armed' = (left # <<>>)
      /\ sent' = [s \in SlotIds |-> IF sent[s].seq \in ToSet(gone) THEN Unused ELSE sent[s]]
      /\ queue' = [f \in Flows |-> [queue[f] EXCEPT !["retry"] = RetryAfter(gone, f)]]
      /\ dropped' = dropped \cup freed
      /\ lost' = [m \in Msgs |-> IF m \in freed THEN <<>> ELSE LostAfter(gone, m)]
      /\ lateCount' = lateCount + Cardinality(NewlyLost(gone)) - Cardinality(freed)
      /\ filling' = TRUE /\ blocked' = FALSE /\ firstSeq' = 0
      /\ info' = info /\ cursor' = cursor /\ batch' = batch /\ nextSeq' = nextSeq
      /\ wire' = wire /\ heard' = heard /\ done' = done /\ expired' = expired
  BY DEF StartFlush, Rearmed
<1> HIDE DEF gone, left
<1>5. Losable(gone)  BY <1>3 DEF Losable
<1>6. /\ ToSet(LostMsgs(gone)) = LM(gone)
      /\ \A m \in LM(gone) : /\ m \in InFlight /\ m \in Msgs
                             /\ \E s \in SlotIds : sent[s].seq \in ToSet(gone) /\ m \in ToSet(sent[s].refs)
  BY <1>5, LostMsgsFacts
<1>7. freed \subseteq LM(gone)  BY <1>6 DEF NoRoom
<1>8. ASSUME NEW f \in Flows
      PROVE  /\ RetryAfter(gone, f) \in Seq(Msgs) /\ IsInjective(RetryAfter(gone, f))
             /\ Len(RetryAfter(gone, f)) <= RingCap
             /\ ToSet(RetryAfter(gone, f)) =
                  (InRing(f, "retry") \cup {m \in LM(gone) : info[m].flow = f}) \ freed
  <2>1. /\ RetryAfter(gone, f) \in Seq(Msgs) /\ IsInjective(RetryAfter(gone, f))
        /\ Len(RetryAfter(gone, f)) <= RingCap
        /\ ToSet(RetryAfter(gone, f)) =
              InRing(f, "retry") \cup {m \in LM(gone) \ NoRoom(gone) : info[m].flow = f}
    BY <1>5, RetryAfterFacts
  <2>2. InRing(f, "retry") \cap LM(gone) = {}
    <3>1. InRing(f, "retry") \subseteq Queued
      <4>1. "retry" \in Sources  BY DEF Sources
      <4> QED BY <4>1 DEF Queued
    <3> QED BY <1>6, <3>1 DEF Apart
  <2> QED BY <1>7, <2>1, <2>2
<1>9. ASSUME NEW m \in Msgs
      PROVE  /\ LostAfter(gone, m) \in Seq(Seqs) /\ Len(LostAfter(gone, m)) <= MaxLostSeqs
             /\ LostAfter(gone, m) # <<>> <=> m \in Late \cup LM(gone)
             /\ \A q \in ToSet(LostAfter(gone, m)) :
                  q \in ToSet(lost[m]) \/ (q \in ToSet(gone) /\ m \in ToSet(Refs(q)))
  BY <1>5, LostAfterFacts
<1> HIDE DEF freed
<1>10. ToSet(gone) \subseteq UsedSeqs /\ UsedSeqs \ ToSet(gone) = ToSet(left)  BY <1>3
<1>11. queue' \in [Flows -> [Sources -> Seq(Msgs)]]
       /\ \A f \in Flows : /\ queue'[f]["retry"] = RetryAfter(gone, f)
                           /\ \A t \in Sources \ {"retry"} : queue'[f][t] = queue[f][t]
  <2>1. queue \in [Flows -> [Sources -> Seq(Msgs)]] /\ "retry" \in Sources  BY DEF Typed, Sources
  <2> QED BY <1>4, <1>8, <2>1
<1>12. sent' \in [SlotIds -> [seq : 0..MaxSeq, refs : Seq(Msgs)]]
  <2>1. Unused \in [seq : 0..MaxSeq, refs : Seq(Msgs)]  BY Consts DEF Unused
  <2> QED BY <1>4, <2>1 DEF Typed
<1>13. ASSUME NEW s \in SlotIds
       PROVE  \/ sent'[s] = Unused /\ (sent[s].seq \in ToSet(gone) \/ ToSet(sent[s].refs) \subseteq freed)
              \/ /\ sent[s].seq \notin ToSet(gone) /\ sent'[s].seq = sent[s].seq /\ sent'[s].refs # <<>>
                 /\ IsInjective(sent'[s].refs) /\ Len(sent'[s].refs) <= RefsPerPacket
                 /\ ToSet(sent'[s].refs) = ToSet(sent[s].refs) \ freed
  <2>1. CASE sent[s].seq \in ToSet(gone)  BY <1>4, <2>1
  <2>2. CASE sent[s].seq \notin ToSet(gone) /\ sent[s].seq = 0
    <3>1. sent[s].refs = <<>>  BY <2>2 DEF SlotsHold
    <3>2. sent[s] \in [seq : 0..MaxSeq, refs : Seq(Msgs)]  BY DEF Typed
    <3>3. sent[s] = Unused  BY <2>2, <3>1, <3>2 DEF Unused
    <3> QED BY <1>4, <2>2, <3>1, <3>3, EmptyToSet
  <2>3. CASE sent[s].seq \notin ToSet(gone) /\ sent[s].seq # 0
    <3>1. sent'[s] = sent[s] /\ sent[s].refs # <<>>  BY <1>4, <2>3 DEF SlotsHold
    <3>2. ToSet(sent[s].refs) \cap freed = {}
      <4> SUFFICES ASSUME NEW m \in ToSet(sent[s].refs), m \in freed PROVE FALSE  OBVIOUS
      <4>1. PICK z \in SlotIds : sent[z].seq \in ToSet(gone) /\ m \in ToSet(sent[z].refs)
        BY <1>6, <1>7
      <4>2. z = s  BY <4>1 DEF SlotsHold
      <4> QED BY <2>3, <4>1, <4>2
    <3> QED BY <2>3, <3>1, <3>2 DEF SlotsHold
  <2> QED BY <2>1, <2>2, <2>3
<1>14. lateCount' = Cardinality((Late \cup LM(gone)) \ freed)
  <2> DEFINE A == Late \cup LM(gone)
  <2>1. lateCount + Cardinality(NewlyLost(gone)) = Cardinality(A)  BY <1>5, LateGrows
  <2>2. A \cap freed = freed /\ A \in SUBSET Msgs  BY <1>6, <1>7 DEF Late
  <2> HIDE DEF A
  <2>3. Cardinality(A) - Cardinality(A \cap freed) = Cardinality(A \ freed)
    BY <2>2, SizeWithout, MsgsAreFinite
  <2>4. lateCount' = Cardinality(A) - Cardinality(freed)
    <3>1. lateCount' = lateCount + Cardinality(NewlyLost(gone)) - Cardinality(freed)  BY <1>4
    <3>2. lateCount \in Int /\ Cardinality(NewlyLost(gone)) \in Int /\ Cardinality(freed) \in Int
      <4>1. freed \in SUBSET Msgs /\ NewlyLost(gone) \in SUBSET Msgs /\ Late \in SUBSET Msgs
        BY <1>6, <1>7 DEF NewlyLost, Late
      <4>2. Cardinality(freed) \in Nat /\ Cardinality(NewlyLost(gone)) \in Nat /\ Cardinality(Late) \in Nat
        BY <4>1, MsgsAreFinite
      <4> QED BY <4>2 DEF Booked
    <3> QED BY ONLY <2>1, <3>1, <3>2
  <2>5. Cardinality(A \cap freed) = Cardinality(freed)  BY <2>2
  <2>6. lateCount' = Cardinality(A \ freed)  BY <2>3, <2>4, <2>5
  <2> QED BY <2>6 DEF A
<1>15. Settles(gone, ToSet(gone), freed)
  <2>1. freed \subseteq Lossy /\ NoRoom(gone) \subseteq freed  BY <1>6, <1>7 DEF Lossy, freed
  <2>2. batch = <<>> /\ batch' = <<>>  BY <1>4 DEF Typed
  <2>3. \A f \in Flows :
       /\ IsInjective(queue'[f]["retry"]) /\ Len(queue'[f]["retry"]) <= RingCap
       /\ ToSet(queue'[f]["retry"]) =
            (InRing(f, "retry") \cup {m \in LM(gone) : info[m].flow = f}) \ freed
       /\ \A t \in Sources \ {"retry"} : queue'[f][t] = queue[f][t]
    BY <1>8, <1>11 DEF freed
  <2>4. lost' \in [Msgs -> Seq(Seqs)]
    <3>1. <<>> \in Seq(Seqs)  OBVIOUS
    <3> QED BY <1>4, <1>9, <3>1
  <2>5. ASSUME NEW m \in Msgs
        PROVE  /\ Len(lost'[m]) <= MaxLostSeqs
               /\ lost'[m] # <<>> <=> m \in (Late \cup LM(gone)) \ freed
               /\ \A q \in ToSet(lost'[m]) :
                    q \in ToSet(lost[m]) \/ (q \in ToSet(gone) /\ m \in ToSet(Refs(q)))
    <3>1. CASE m \in freed
      <4>1. lost'[m] = <<>>  BY <1>4, <3>1
      <4> QED BY <3>1, <4>1, EmptyToSet, Consts
    <3>2. CASE m \notin freed
      <4>1. lost'[m] = LostAfter(gone, m)  BY <1>4, <3>2
      <4> QED BY <1>9, <3>2, <4>1
    <3> QED BY <3>1, <3>2
  <2>6. done' \cup expired' \cup dropped' = Gone \cup freed  BY <1>4 DEF Gone
  <2>7. DoneArrived'  BY <1>4 DEF DoneArrived, Traced
  <2>8. Len(tracked') <= SlotCount  BY <1>1, <1>2, <1>3, <1>4, Consts
  <2>9. ToSet(tracked') \subseteq ToSet(tracked) /\ UsedSeqs \ ToSet(gone) \subseteq ToSet(tracked')
    BY <1>1, <1>4, <1>10
  <2>10. UsedSeqs \ ToSet(gone) # {} => armed'
    <3>1. UsedSeqs \ ToSet(gone) # {} => left # <<>>  BY <1>10, EmptyToSet
    <3> QED BY <1>4, <3>1
  <2>11. firstSeq' \in 0..MaxSeq /\ filling' \in BOOLEAN /\ blocked' \in BOOLEAN /\ armed' \in BOOLEAN
    <3>1. firstSeq' \in 0..MaxSeq  BY <1>4, Consts
    <3>2. filling' \in BOOLEAN /\ blocked' \in BOOLEAN  BY <1>4
    <3>3. armed' \in BOOLEAN
      <4>1. (left # <<>>) \in BOOLEAN  OBVIOUS
      <4> QED BY ONLY <1>4, <4>1
    <3> QED BY <3>1, <3>2, <3>3
  <2>12. tracked' \in Seq(Seqs) /\ Rising(tracked')  BY <1>3, <1>4
  <2> QED BY <1>4, <1>5, <1>10, <1>11, <1>12, <1>13, <1>14, <2>1, <2>2, <2>3, <2>4, <2>5, <2>6, <2>7,
            <2>8, <2>9, <2>10, <2>11, <2>12 DEF Settles
<1> QED BY <1>15, SettleKeeps

LEMMA ReceiveAckKeeps == ASSUME Inv, NEW a \in Acks, ReceiveAck(a) PROVE Inv'
<1> DEFINE Covered == {s \in Seqs : Covers(a, s)}
           Behind == {s \in Seqs : a.ack - s >= LossThreshold}
           covered == Only(LiveTracked, Covered)
           gone == Only(LiveTracked, Behind \ Covered)
           left == Only(LiveTracked, Seqs \ (Behind \cup Covered))
           acked == ToSet(LostMsgs(covered))
           full == NoRoom(gone)
           counted == lateCount + Cardinality(NewlyLost(gone))
                      - Cardinality({m \in acked \cup full : LostAfter(gone, m) # <<>>})
           CoveredLate(m) == \E i \in DOMAIN LostAfter(gone, m) : Covers(a, LostAfter(gone, m)[i])
           late == IF counted = 0 THEN {} ELSE {m \in Alive \ (acked \cup full) : CoveredLate(m)}
           freed == acked \cup full \cup late
           Kept(refs) == Only(refs, Msgs \ freed)
           A == Late \cup LM(gone)
<1> USE DEF Inv
<1>1. /\ LiveTracked \in Seq(Seqs) /\ Rising(LiveTracked) /\ IsInjective(LiveTracked)
      /\ ToSet(LiveTracked) = UsedSeqs /\ UsedSeqs \subseteq ToSet(tracked)
      /\ Len(LiveTracked) <= SlotCount /\ Len(LiveTracked) \in Nat
      /\ \A q \in UsedSeqs : q \in Seqs /\ Slot(q) \in SlotIds /\ sent[Slot(q)].seq = q
  BY LiveFacts
<1>2. /\ ~filling /\ tracked' = left
      /\ sent' = [s \in SlotIds |->
                   IF sent[s].seq \in ToSet(covered \o gone) \/ Kept(sent[s].refs) = <<>>
                   THEN Unused ELSE [sent[s] EXCEPT !.refs = Kept(@)]]
      /\ queue' = [f \in Flows |->
                    [queue[f] EXCEPT !["retry"] = Kept(RetryAfter(gone, f))]]
      /\ lost' = [m \in Msgs |-> IF m \in freed THEN <<>> ELSE LostAfter(gone, m)]
      /\ lateCount' = counted - Cardinality(late)
      /\ done' = done \cup acked \cup late /\ dropped' = dropped \cup full
      /\ info' = info /\ cursor' = cursor /\ filling' = filling /\ blocked' = blocked
      /\ firstSeq' = firstSeq /\ batch' = batch /\ nextSeq' = nextSeq /\ armed' = armed
      /\ wire' = wire /\ heard' = heard /\ expired' = expired
  BY DEF ReceiveAck, flush
<1>3. /\ covered \in Seq(Seqs) /\ gone \in Seq(Seqs) /\ left \in Seq(Seqs)
      /\ ToSet(covered) = UsedSeqs \cap Covered /\ ToSet(gone) = UsedSeqs \cap (Behind \ Covered)
      /\ ToSet(left) = UsedSeqs \cap (Seqs \ (Behind \cup Covered))
      /\ IsInjective(covered) /\ IsInjective(gone) /\ Rising(left)
      /\ Len(left) <= Len(LiveTracked) /\ Len(left) \in Nat
  <2> HIDE DEF Covered, Behind
  <2> DEFINE P == Behind \ Covered
             Q == Seqs \ (Behind \cup Covered)
  <2>0. Seqs \subseteq Int  BY DEF Seqs
  <2>1. covered \in Seq(Seqs) /\ ToSet(covered) = UsedSeqs \cap Covered /\ IsInjective(covered)
    BY <1>1, OnlyFacts
  <2>2. gone \in Seq(Seqs) /\ ToSet(gone) = UsedSeqs \cap P /\ IsInjective(gone)
    <3> HIDE DEF P
    <3>1. gone = Only(LiveTracked, P)  BY DEF P
    <3> HIDE DEF gone
    <3> QED BY <1>1, <3>1, OnlyFacts
  <2>3. left \in Seq(Seqs) /\ ToSet(left) = UsedSeqs \cap Q /\ Rising(left) /\ Len(left) <= Len(LiveTracked)
    <3> HIDE DEF Q
    <3>1. left = Only(LiveTracked, Q)  BY DEF Q
    <3> HIDE DEF left
    <3> QED BY <1>1, <2>0, <3>1, OnlyFacts
  <2>4. Len(left) \in Nat  BY <2>3, ToSetOf
  <2> HIDE DEF covered, gone, left
  <2> QED BY <2>1, <2>2, <2>3, <2>4
<1>4. \A q \in UsedSeqs \cap Covered : Covers(a, q)  OBVIOUS
<1> HIDE DEF covered, gone, left, Covered, Behind
<1>5. Losable(gone) /\ Losable(covered)  BY <1>3 DEF Losable
<1>6. /\ acked = LM(covered)
      /\ \A m \in acked : m \in InFlight /\ m \in Msgs
                          /\ \E s \in SlotIds : sent[s].seq \in ToSet(covered) /\ m \in ToSet(sent[s].refs)
      /\ \A s \in SlotIds : sent[s].seq \in ToSet(covered) => ToSet(sent[s].refs) \subseteq acked
  <2>1. acked = LM(covered)  BY <1>5, LostMsgsFacts
  <2>2. ASSUME NEW s \in SlotIds, sent[s].seq \in ToSet(covered) PROVE ToSet(sent[s].refs) \subseteq LM(covered)
    <3>1. sent[s].seq # 0 /\ sent[s].seq \in UsedSeqs  BY <1>3, <2>2 DEF UsedSeqs
    <3>2. Slot(sent[s].seq) = s  BY <3>1 DEF SlotsHold
    <3> QED BY <2>2, <3>2 DEF LM, Refs
  <2>3. \A m \in LM(covered) : m \in InFlight /\ m \in Msgs
                          /\ \E s \in SlotIds : sent[s].seq \in ToSet(covered) /\ m \in ToSet(sent[s].refs)
    BY <1>5, LostMsgsFacts
  <2> HIDE DEF acked
  <2> QED BY <2>1, <2>2, <2>3
<1>7. /\ \A m \in LM(gone) : m \in InFlight /\ m \in Msgs
      /\ full \subseteq LM(gone)
  <2>1. ToSet(LostMsgs(gone)) = LM(gone) /\ \A m \in LM(gone) : m \in InFlight /\ m \in Msgs
    BY <1>5, LostMsgsFacts
  <2> QED BY <2>1 DEF NoRoom
<1>8. ASSUME NEW m \in Msgs
      PROVE  /\ LostAfter(gone, m) \in Seq(Seqs) /\ Len(LostAfter(gone, m)) <= MaxLostSeqs
             /\ LostAfter(gone, m) # <<>> <=> m \in A
             /\ \A q \in ToSet(LostAfter(gone, m)) :
                  q \in ToSet(lost[m]) \/ (q \in ToSet(gone) /\ m \in ToSet(Refs(q)))
  BY <1>5, LostAfterFacts
<1>9. ASSUME NEW m \in late
      PROVE  m \in A /\ m \notin acked \cup full /\ m \in Msgs
             /\ \E q \in ToSet(LostAfter(gone, m)) : Covers(a, q)
  <2>1. m \in Alive /\ m \notin acked \cup full /\ CoveredLate(m)
    <3> HIDE DEF counted, acked, full, CoveredLate
    <3> QED BY <1>9
  <2>2. m \in Msgs  BY <2>1, LossyIsKnown
  <2>3. PICK i \in DOMAIN LostAfter(gone, m) : Covers(a, LostAfter(gone, m)[i])  BY <2>1
  <2>4. LostAfter(gone, m)[i] \in ToSet(LostAfter(gone, m))  BY DEF ToSet
  <2>5. LostAfter(gone, m) # <<>>  BY <2>4, EmptyToSet
  <2> QED BY <1>8, <2>1, <2>2, <2>3, <2>4, <2>5
<1>10. A \in SUBSET Msgs /\ A \subseteq Lossy
  <2>1. Late \subseteq Lossy /\ Late \subseteq Msgs  BY DEF Booked, Late
  <2>2. InFlight \subseteq Lossy  BY DEF Lossy
  <2> QED BY <1>7, <2>1, <2>2
<1>11. counted = Cardinality(A \ (acked \cup full)) /\ counted \in Nat
  <2> DEFINE B == acked \cup full
  <2>1. lateCount + Cardinality(NewlyLost(gone)) = Cardinality(A)  BY <1>5, LateGrows
  <2>2. {m \in B : LostAfter(gone, m) # <<>>} = A \cap B
    <3>1. \A m \in B : m \in Msgs  BY <1>6, <1>7
    <3> HIDE DEF A, acked, full
    <3> QED BY <1>8, <3>1
  <2>3. lateCount \in Int /\ Cardinality(NewlyLost(gone)) \in Int
    <3>1. Late \in SUBSET Msgs  BY DEF Late
    <3>2. NewlyLost(gone) \in SUBSET Msgs
      <4>1. ToSet(LostMsgs(gone)) = LM(gone)  BY <1>5, LostMsgsFacts
      <4> QED BY <1>7, <4>1 DEF NewlyLost
    <3>3. Cardinality(NewlyLost(gone)) \in Nat /\ Cardinality(Late) \in Nat
      BY <3>1, <3>2, MsgsAreFinite
    <3> QED BY <3>3 DEF Booked
  <2> HIDE DEF acked, full
  <2>4. counted = lateCount + Cardinality(NewlyLost(gone)) - Cardinality(A \cap B)  BY <2>2
  <2> HIDE DEF counted, A, B
  <2>5. IsFiniteSet(A) /\ Cardinality(A) \in Nat /\ Cardinality(A \cap B) \in Nat
        /\ Cardinality(A \ B) \in Nat
    <3>1. A \cap B \in SUBSET Msgs /\ A \ B \in SUBSET Msgs  BY <1>10
    <3> QED BY <1>10, <3>1, MsgsAreFinite
  <2>6. Cardinality(A) - Cardinality(A \cap B) = Cardinality(A \ B)  BY <2>5, SizeWithout
  <2> QED BY ONLY <2>1, <2>3, <2>4, <2>5, <2>6 DEF B
<1>12. lateCount' = Cardinality(A \ freed)
  <2> DEFINE B == A \ (acked \cup full)
  <2>1. A \ freed = B \ late /\ B \cap late = late  BY <1>9
  <2> HIDE DEF counted, acked, full, late, A, freed
  <2>2. B \in SUBSET Msgs  BY <1>10
  <2>3. Cardinality(B) - Cardinality(B \cap late) = Cardinality(B \ late)
    <3> HIDE DEF B
    <3> QED BY <2>2, SizeWithout, MsgsAreFinite
  <2>4. lateCount' = Cardinality(B) - Cardinality(late)  BY <1>2, <1>11
  <2>5. Cardinality(B \cap late) = Cardinality(late) /\ Cardinality(B \ late) = Cardinality(A \ freed)  BY <2>1
  <2> QED BY ONLY <2>3, <2>4, <2>5
<1>13. freed \subseteq Lossy /\ full \subseteq freed /\ acked \subseteq freed /\ freed \in SUBSET Msgs
       /\ freed = acked \cup full \cup late
  <2>1. InFlight \subseteq Lossy  BY DEF Lossy
  <2>2. freed = acked \cup full \cup late  OBVIOUS
  <2>3. late \subseteq A  BY <1>9
  <2> HIDE DEF freed, late, acked, full, A
  <2> QED BY <1>6, <1>7, <1>10, <2>1, <2>2, <2>3
<1>14. \A q \in Seqs : Covers(a, q) => q \in heard
  BY DEF Acks, Covers
<1>15. DoneArrived'
  <2> SUFFICES ASSUME NEW m \in done' PROVE \E q \in heard : m \in wire[q]
    BY <1>2 DEF DoneArrived
  <2>1. CASE m \in done  BY <2>1 DEF Traced, DoneArrived
  <2>2. CASE m \in acked
    <3>1. PICK s \in SlotIds : sent[s].seq \in ToSet(covered) /\ m \in ToSet(sent[s].refs)  BY <1>6, <2>2
    <3>2. sent[s].seq \in heard  BY <1>1, <1>3, <1>4, <1>14, <3>1
    <3> QED BY <3>1, <3>2 DEF Traced
  <2>3. CASE m \in late
    <3>1. PICK q \in ToSet(LostAfter(gone, m)) : Covers(a, q)  BY <1>9, <2>3
    <3>2. m \in Msgs  BY <1>9, <2>3
    <3>3. q \in Seqs  BY <1>8, <3>1, <3>2, ToSetOf
    <3>4. q \in heard  BY <1>14, <3>1, <3>3
    <3>5. m \in wire[q]
      <4>1. CASE q \in ToSet(lost[m])  BY <3>2, <4>1 DEF Traced
      <4>2. CASE q \in ToSet(gone) /\ m \in ToSet(Refs(q))
        <5>1. Slot(q) \in SlotIds /\ sent[Slot(q)].seq = q  BY <1>1, <1>3, <4>2
        <5> QED BY <4>2, <5>1 DEF Traced, Refs
      <4> QED BY <1>8, <3>1, <3>2, <4>1, <4>2
    <3> QED BY <3>4, <3>5
  <2> HIDE DEF acked, late
  <2> QED BY <1>2, <2>1, <2>2, <2>3
<1> HIDE DEF freed, late, acked, counted, CoveredLate
<1>16. ASSUME NEW f \in Flows
       PROVE  /\ Kept(RetryAfter(gone, f)) \in Seq(Msgs) /\ IsInjective(Kept(RetryAfter(gone, f)))
              /\ Len(Kept(RetryAfter(gone, f))) <= RingCap
              /\ ToSet(Kept(RetryAfter(gone, f))) =
                   (InRing(f, "retry") \cup {m \in LM(gone) : info[m].flow = f}) \ freed
  <2> DEFINE r == RetryAfter(gone, f)
             S == Msgs \ freed
  <2>1. /\ r \in Seq(Msgs) /\ IsInjective(r) /\ Len(r) <= RingCap
        /\ ToSet(r) = InRing(f, "retry") \cup {m \in LM(gone) \ full : info[m].flow = f}
    BY <1>5, RetryAfterFacts
  <2> HIDE DEF r, full, S
  <2>2. /\ Only(r, S) \in Seq(Msgs) /\ IsInjective(Only(r, S)) /\ Len(Only(r, S)) <= Len(r)
        /\ ToSet(Only(r, S)) = ToSet(r) \cap S
    BY <2>1, OnlyFacts
  <2>3. Len(r) \in Nat /\ Len(Only(r, S)) \in Nat /\ ToSet(r) \subseteq Msgs  BY <2>1, <2>2, ToSetOf
  <2>4. Len(Only(r, S)) <= RingCap  BY <2>1, <2>2, <2>3, Consts
  <2>5. ToSet(r) \cap S = (InRing(f, "retry") \cup {m \in LM(gone) : info[m].flow = f}) \ freed
    <3>1. ToSet(r) \cap S = ToSet(r) \ freed  BY <2>3 DEF S
    <3> QED BY <1>13, <2>1, <3>1
  <2> QED BY <2>2, <2>4, <2>5 DEF r, S
<1>17. ASSUME NEW s \in SlotIds
       PROVE  LET r == sent[s].refs
              IN /\ Kept(r) \in Seq(Msgs) /\ IsInjective(Kept(r)) /\ Len(Kept(r)) <= RefsPerPacket
                 /\ ToSet(Kept(r)) = ToSet(r) \ freed /\ (Kept(r) = <<>> => ToSet(r) \subseteq freed)
  <2> DEFINE r == sent[s].refs
             S == Msgs \ freed
  <2>1. r \in Seq(Msgs) /\ IsInjective(r) /\ Len(r) <= RefsPerPacket  BY DEF Typed, SlotsHold
  <2> HIDE DEF r, S
  <2>2. /\ Only(r, S) \in Seq(Msgs) /\ IsInjective(Only(r, S)) /\ Len(Only(r, S)) <= Len(r)
        /\ ToSet(Only(r, S)) = ToSet(r) \cap S
    BY <2>1, OnlyFacts
  <2>3. Len(r) \in Nat /\ Len(Only(r, S)) \in Nat /\ ToSet(r) \subseteq Msgs  BY <2>1, <2>2, ToSetOf
  <2>4. Len(Only(r, S)) <= RefsPerPacket  BY <2>1, <2>2, <2>3, Consts
  <2>5. ToSet(r) \cap S = ToSet(r) \ freed  BY <2>3 DEF S
  <2>6. Only(r, S) = <<>> => ToSet(r) \subseteq freed  BY <2>2, <2>5, EmptyToSet
  <2> QED BY <2>2, <2>4, <2>5, <2>6 DEF r, S
<1> DEFINE cleared == ToSet(covered) \cup ToSet(gone)
<1>18. ToSet(covered \o gone) = cleared  BY <1>3, ConcatFacts
<1>19. cleared \subseteq UsedSeqs /\ UsedSeqs \ cleared = ToSet(left)
  <2>1. UsedSeqs \subseteq Seqs  BY <1>1
  <2> QED BY <1>3, <2>1
<1> HIDE DEF Kept
<1>20. queue' \in [Flows -> [Sources -> Seq(Msgs)]]
       /\ \A f \in Flows : /\ queue'[f]["retry"] = Kept(RetryAfter(gone, f))
                           /\ \A t \in Sources \ {"retry"} : queue'[f][t] = queue[f][t]
  <2>1. queue \in [Flows -> [Sources -> Seq(Msgs)]] /\ "retry" \in Sources  BY DEF Typed, Sources
  <2> QED BY <1>2, <1>16, <2>1
<1>21. sent' \in [SlotIds -> [seq : 0..MaxSeq, refs : Seq(Msgs)]]
  <2>1. Unused \in [seq : 0..MaxSeq, refs : Seq(Msgs)]  BY Consts DEF Unused
  <2> QED BY <1>2, <1>17, <2>1 DEF Typed
<1>22. ASSUME NEW s \in SlotIds
       PROVE  \/ sent'[s] = Unused /\ (sent[s].seq \in cleared \/ ToSet(sent[s].refs) \subseteq freed)
              \/ /\ sent[s].seq \notin cleared /\ sent'[s].seq = sent[s].seq /\ sent'[s].refs # <<>>
                 /\ IsInjective(sent'[s].refs) /\ Len(sent'[s].refs) <= RefsPerPacket
                 /\ ToSet(sent'[s].refs) = ToSet(sent[s].refs) \ freed
  <2>1. CASE sent[s].seq \in cleared \/ Kept(sent[s].refs) = <<>>
    <3>1. sent'[s] = Unused  BY <1>2, <1>18, <2>1
    <3> QED BY <1>17, <2>1, <3>1
  <2>2. CASE ~(sent[s].seq \in cleared \/ Kept(sent[s].refs) = <<>>)
    <3>1. sent'[s] = [sent[s] EXCEPT !.refs = Kept(@)]  BY <1>2, <1>18, <2>2
    <3>2. sent[s] \in [seq : 0..MaxSeq, refs : Seq(Msgs)]  BY DEF Typed
    <3>3. sent'[s].seq = sent[s].seq /\ sent'[s].refs = Kept(sent[s].refs)  BY <3>1, <3>2
    <3> QED BY <1>17, <2>2, <3>3
  <2> QED BY <2>1, <2>2
<1>23. Settles(gone, cleared, freed)
  <2>1. ToSet(gone) \subseteq cleared  OBVIOUS
  <2>2. batch = <<>> /\ batch' = <<>>  BY <1>2 DEF Typed
  <2>3. \A f \in Flows :
       /\ IsInjective(queue'[f]["retry"]) /\ Len(queue'[f]["retry"]) <= RingCap
       /\ ToSet(queue'[f]["retry"]) =
            (InRing(f, "retry") \cup {m \in LM(gone) : info[m].flow = f}) \ freed
       /\ \A t \in Sources \ {"retry"} : queue'[f][t] = queue[f][t]
    BY <1>16, <1>20
  <2>4. lost' \in [Msgs -> Seq(Seqs)]
    <3>1. <<>> \in Seq(Seqs)  OBVIOUS
    <3> QED BY <1>2, <1>8, <3>1
  <2>5. ASSUME NEW m \in Msgs
        PROVE  /\ Len(lost'[m]) <= MaxLostSeqs
               /\ lost'[m] # <<>> <=> m \in A \ freed
               /\ \A q \in ToSet(lost'[m]) :
                    q \in ToSet(lost[m]) \/ (q \in ToSet(gone) /\ m \in ToSet(Refs(q)))
    <3>1. CASE m \in freed
      <4>1. lost'[m] = <<>>  BY <1>2, <3>1
      <4> QED BY <3>1, <4>1, EmptyToSet, Consts
    <3>2. CASE m \notin freed
      <4>1. lost'[m] = LostAfter(gone, m)  BY <1>2, <3>2
      <4> QED BY <1>8, <3>2, <4>1
    <3> QED BY <3>1, <3>2
  <2>6. done' \cup expired' \cup dropped' = Gone \cup freed  BY <1>2, <1>13 DEF Gone
  <2>7. \A s \in SlotIds : sent[s].seq \in cleared \ ToSet(gone) => ToSet(sent[s].refs) \subseteq freed
    BY <1>6, <1>13
  <2>8. Len(tracked') <= SlotCount  BY <1>1, <1>2, <1>3, Consts
  <2>9. ToSet(tracked') \subseteq ToSet(tracked) /\ UsedSeqs \ cleared \subseteq ToSet(tracked')
    BY <1>1, <1>2, <1>19
  <2>10. UsedSeqs \ cleared # {} => armed'
    <3>1. UsedSeqs # {} => armed  BY DEF UsedSeqs, Numbered
    <3> QED BY <1>2, <3>1
  <2>11. firstSeq' \in 0..MaxSeq /\ filling' \in BOOLEAN /\ blocked' \in BOOLEAN /\ armed' \in BOOLEAN
    BY <1>2 DEF Typed
  <2>12. tracked' \in Seq(Seqs) /\ Rising(tracked')  BY <1>2, <1>3
  <2> HIDE DEF cleared
  <2> QED BY <1>2, <1>5, <1>12, <1>13, <1>15, <1>19, <1>20, <1>21, <1>22, <2>1, <2>2, <2>3, <2>4, <2>5,
            <2>6, <2>7, <2>8, <2>9, <2>10, <2>11, <2>12 DEF Settles
<1> QED BY <1>23, SettleKeeps

LEMMA PackedIsTyped ==
  ASSUME Typed, BatchHolds
  PROVE  /\ InBatch = {x.msg : x \in Packed} /\ Packed \subseteq Entry
         /\ DOMAIN batch = 1..Len(batch) /\ Len(batch) \in Nat
         /\ \A i \in DOMAIN batch :
              /\ batch[i] \in Packet /\ ItemsApart(batch[i]) /\ batch[i].items \in Seq(Entry)
              /\ Items(batch[i]) = {x.msg : x \in ToSet(batch[i].items)}
              /\ ToSet(batch[i].items) \subseteq Packed
              /\ (PacketRefs(batch[i]) # <<>> <=> Carries(i))
<1>1. batch \in Seq(Packet)  BY DEF Typed
<1>2. DOMAIN batch = 1..Len(batch) /\ Len(batch) \in Nat /\ \A i \in DOMAIN batch : batch[i] \in Packet
  <2> HIDE DEF Packet
  <2> QED BY <1>1, ToSetOf
<1>3. ASSUME NEW i \in DOMAIN batch
      PROVE  /\ ItemsApart(batch[i]) /\ batch[i].items \in Seq(Entry)
             /\ Items(batch[i]) = {x.msg : x \in ToSet(batch[i].items)}
             /\ ToSet(batch[i].items) \subseteq Packed /\ ToSet(batch[i].items) \subseteq Entry
             /\ (PacketRefs(batch[i]) # <<>> <=> Carries(i))
  <2>1. ToSet(batch[i].items) \subseteq Packed  BY DEF Packed
  <2>2. ItemsApart(batch[i])
    <3>1. \A x \in ToSet(batch[i].items) : x.msg \in DOMAIN info  BY <2>1 DEF BatchHolds
    <3> QED BY <3>1 DEF ItemsApart, BatchHolds
  <2>3. batch[i] \in Packet  BY <1>2
  <2>4. /\ batch[i].items \in Seq(Entry)
        /\ Items(batch[i]) = {x.msg : x \in ToSet(batch[i].items)}
        /\ (PacketRefs(batch[i]) # <<>> <=> \E x \in ToSet(batch[i].items) : Reliable(x.msg))
    BY <2>2, <2>3, RefsOfPacket
  <2>5. ToSet(batch[i].items) \subseteq Entry  BY <2>4, ToSetOf
  <2> QED BY <2>1, <2>2, <2>4, <2>5 DEF Carries
<1>4. Packed \subseteq Entry  BY <1>3 DEF Packed
<1>5. InBatch = {x.msg : x \in Packed}
  <2>1. ASSUME NEW m PROVE m \in InBatch <=> m \in {x.msg : x \in Packed}
    <3>1. m \in InBatch <=> \E i \in DOMAIN batch : m \in Items(batch[i])  BY DEF InBatch
    <3>2. m \in {x.msg : x \in Packed} <=> \E i \in DOMAIN batch : \E x \in ToSet(batch[i].items) : m = x.msg
      BY DEF Packed
    <3> QED BY <1>3, <3>1, <3>2
  <2> QED BY <2>1
<1> QED BY <1>2, <1>3, <1>4, <1>5

LEMMA PickedFacts ==
  ASSUME NEW f \in Flows, IsPicked(f)
  PROVE  SourceOf(f) \in Sources /\ queue[f][SourceOf(f)] # <<>>
<1>1. SourceOf(f) \in Sources  BY DEF SourceOf, Sources
<1>2. f \in Servable  BY DEF IsPicked, Retrying
<1> QED BY <1>1, <1>2 DEF Servable

(* The head of a ring is taken from it.                                     *)
LEMMA TakeRings ==
  ASSUME Typed, RingsHold, BatchHolds, SlotsHold, Apart, NEW f \in Flows, NEW src \in Sources, queue[f][src] # <<>>,
         queue' = [queue EXCEPT ![f][src] = Tail(@)], info' = info,
         NEW m, m = Head(queue[f][src])
  PROVE  /\ RingsHold' /\ queue' \in [Flows -> [Sources -> Seq(Msgs)]]
         /\ \A g \in Flows, t \in Sources : InRing(g, t)' = InRing(g, t) \ {m}
         /\ m \in InRing(f, src) /\ \A g \in Flows, t \in Sources : m \in InRing(g, t) => g = f /\ t = src
         /\ Queued' = Queued \ {m} /\ m \in Queued
         /\ m \in DOMAIN info /\ m \in Msgs /\ info[m].flow = f /\ (src = "unreliable" <=> ~Reliable(m))
         /\ m \notin InBatch /\ m \notin InFlight
<1> DEFINE q == queue[f][src]
<1>0. queue \in [Flows -> [Sources -> Seq(Msgs)]]  BY DEF Typed
<1>1. q \in Seq(Msgs) /\ q # <<>> /\ IsInjective(q) /\ Len(q) <= RingCap /\ ToSet(q) = InRing(f, src)
      /\ RingCap \in Nat
  BY <1>0, Consts DEF RingsHold, InRing
<1>2. queue' = [queue EXCEPT ![f][src] = Tail(q)]  OBVIOUS
<1>3. m = Head(q)  OBVIOUS
<1> HIDE DEF q
<1>4. /\ m \in Msgs /\ Tail(q) \in Seq(Msgs) /\ Len(Tail(q)) = Len(q) - 1 /\ Len(q) >= 1
      /\ ToSet(q) = {m} \cup ToSet(Tail(q)) /\ IsInjective(Tail(q)) /\ m \notin ToSet(Tail(q))
  BY <1>1, <1>3, HeadTailFacts
<1>5. Len(Tail(q)) <= RingCap
  <2>1. Len(q) \in Nat  BY <1>1, ToSetOf
  <2> QED BY <1>1, <1>4, <2>1
<1>6. queue' \in [Flows -> [Sources -> Seq(Msgs)]]
  <2> DEFINE z == Tail(q)
  <2>1. z \in Seq(Msgs) /\ queue' = [queue EXCEPT ![f][src] = z]  BY <1>2, <1>4
  <2> HIDE DEF z
  <2> QED BY <1>0, <2>1
<1>7. queue'[f][src] = Tail(q) /\ \A g \in Flows, t \in Sources : g # f \/ t # src => queue'[g][t] = queue[g][t]
  BY <1>0, <1>2
<1>8. m \in InRing(f, src)  BY <1>1, <1>4
<1>9. m \in DOMAIN info /\ info[m].flow = f /\ (src = "unreliable" <=> ~Reliable(m))
  BY <1>8 DEF RingsHold
<1>10. ASSUME NEW g \in Flows, NEW t \in Sources, m \in InRing(g, t) PROVE g = f /\ t = src
  <2>1. g = f  BY <1>9, <1>10 DEF RingsHold
  <2>2. m \in InRing(f, t)  BY <1>10, <2>1
  <2>3. t # src => InRing(f, src) \cap InRing(f, t) = {}  BY DEF RingsHold
  <2> QED BY <1>8, <2>1, <2>2, <2>3
<1>11. ASSUME NEW g \in Flows, NEW t \in Sources PROVE InRing(g, t)' = InRing(g, t) \ {m}
  <2>1. CASE g = f /\ t = src
    <3>1. InRing(g, t)' = ToSet(Tail(q))  BY <1>7, <2>1 DEF InRing
    <3>2. InRing(g, t) = ToSet(q)  BY <1>1, <2>1
    <3> QED BY ONLY <1>4, <3>1, <3>2
  <2>2. CASE ~(g = f /\ t = src)
    <3>1. InRing(g, t)' = InRing(g, t)  BY <1>7, <2>2 DEF InRing
    <3> QED BY <1>10, <2>2, <3>1
  <2> QED BY <2>1, <2>2
<1>12. RingsHold'
  <2> SUFFICES ASSUME NEW g \in Flows, NEW t \in Sources
      PROVE /\ IsInjective(queue'[g][t]) /\ Len(queue'[g][t]) <= RingCap
            /\ \A x \in InRing(g, t)' :
                 x \in DOMAIN info /\ info[x].flow = g /\ (t = "unreliable" <=> ~Reliable(x))
            /\ \A u \in Sources : u # t => InRing(g, t)' \cap InRing(g, u)' = {}
    BY DEF RingsHold, Reliable
  <2>1. IsInjective(queue'[g][t]) /\ Len(queue'[g][t]) <= RingCap
    <3>1. CASE g = f /\ t = src  BY <1>4, <1>5, <1>7, <3>1
    <3>2. CASE ~(g = f /\ t = src)
      <4>1. queue'[g][t] = queue[g][t]  BY <1>7, <3>2
      <4> QED BY <4>1 DEF RingsHold
    <3> QED BY <3>1, <3>2
  <2>2. \A x \in InRing(g, t)' :
          x \in DOMAIN info /\ info[x].flow = g /\ (t = "unreliable" <=> ~Reliable(x))
    BY <1>11 DEF RingsHold
  <2>3. ASSUME NEW u \in Sources, u # t PROVE InRing(g, t)' \cap InRing(g, u)' = {}
    <3>1. InRing(g, t) \cap InRing(g, u) = {}  BY <2>3 DEF RingsHold
    <3> QED BY <1>11, <3>1
  <2> QED BY <2>1, <2>2, <2>3
<1>13. Queued' = Queued \ {m}
  <2>1. ASSUME NEW x PROVE x \in Queued' <=> x \in Queued \ {m}
    <3>1. x \in Queued' <=> \E g \in Flows, t \in Sources : x \in InRing(g, t)'  BY DEF Queued
    <3>2. x \in Queued <=> \E g \in Flows, t \in Sources : x \in InRing(g, t)  BY DEF Queued
    <3> QED BY <1>11, <3>1, <3>2
  <2> QED BY <2>1
<1>14. m \in Queued  BY <1>8 DEF Queued
<1>15. m \notin InBatch /\ m \notin InFlight  BY <1>14 DEF Apart
<1> QED BY <1>4, <1>6, <1>8, <1>9, <1>10, <1>11, <1>12, <1>13, <1>14, <1>15

LEMMA SubsetFits ==
  ASSUME NEW S \in SUBSET Msgs, NEW T \in SUBSET S, NEW b \in Nat, Cardinality(S) <= b
  PROVE  Cardinality(T) <= b
<1>1. IsFiniteSet(S) /\ T \in SUBSET Msgs  BY MsgsAreFinite
<1>2. Cardinality(T) <= Cardinality(S)  BY <1>1, FS_Subset
<1>3. Cardinality(T) \in Nat /\ Cardinality(S) \in Nat  BY <1>1, MsgsAreFinite
<1> QED BY <1>2, <1>3

LEMMA PlacesAreMsgs ==
  ASSUME Typed, RingsHold, BatchHolds, SlotsHold
  PROVE  /\ Alive \in SUBSET Msgs
         /\ \A f \in Flows, t \in Sources : InRing(f, t) \cup TakenFrom(f, t) \in SUBSET Msgs
<1>1. Alive \in SUBSET Msgs  BY LossyIsKnown
<1>2. ASSUME NEW f \in Flows, NEW t \in Sources PROVE InRing(f, t) \cup TakenFrom(f, t) \in SUBSET Msgs
  <2>1. InRing(f, t) \subseteq Alive  BY DEF Alive, Queued
  <2>2. TakenFrom(f, t) \subseteq InBatch  BY PackedIsTyped DEF TakenFrom
  <2>3. InBatch \subseteq Alive  BY DEF Alive
  <2> QED BY <1>1, <2>1, <2>2, <2>3
<1> QED BY <1>1, <1>2

LEMMA SameInfo ==
  ASSUME info' = info
  PROVE  /\ \A m : Reliable(m)' <=> Reliable(m)
         /\ \A q : Slot(q)' = Slot(q)
BY DEF Reliable, Slot

(* The batch gets an entry, in its packet k.                                *)
Grows(it, k) ==
  /\ batch' \in Seq(Packet) /\ Len(batch') <= BatchSize /\ k \in DOMAIN batch'
  /\ DOMAIN batch \subseteq DOMAIN batch'
  /\ \A i \in DOMAIN batch' : i # k => i \in DOMAIN batch /\ batch'[i] = batch[i]
  /\ IsInjective(batch'[k].items) /\ batch'[k].items # <<>> /\ Len(batch'[k].items) <= RefsPerPacket
  /\ ToSet(batch'[k].items) = {it} \cup {x \in Packed : k \in DOMAIN batch /\ x \in ToSet(batch[k].items)}

LEMMA TakeKeeps ==
  ASSUME Inv, NEW f \in Flows, IsPicked(f), Take(f), info' = info, sent' = sent, lost' = lost,
         lateCount' = lateCount, wire' = wire, heard' = heard, done' = done, expired' = expired,
         dropped' = dropped, NEW k, Grows(Item(f), k)
  PROVE  /\ RingsHold' /\ BatchHolds' /\ SlotsHold' /\ Apart' /\ RoomLeft' /\ Booked' /\ Traced'
         /\ queue' \in [Flows -> [Sources -> Seq(Msgs)]]
<1> DEFINE src == SourceOf(f)
           m == Head(queue[f][src])
           it == [msg |-> m, src |-> src]
<1> USE DEF Inv
<1>1. src \in Sources /\ queue[f][src] # <<>>  BY PickedFacts
<1>2. queue' = [queue EXCEPT ![f][src] = Tail(@)]  BY DEF Take
<1>3. Item(f) = it  BY DEF Item
<1> HIDE DEF src
<1>4. /\ RingsHold' /\ queue' \in [Flows -> [Sources -> Seq(Msgs)]]
      /\ \A g \in Flows, t \in Sources : InRing(g, t)' = InRing(g, t) \ {m}
      /\ m \in InRing(f, src) /\ \A g \in Flows, t \in Sources : m \in InRing(g, t) => g = f /\ t = src
      /\ Queued' = Queued \ {m} /\ m \in Queued
      /\ m \in DOMAIN info /\ m \in Msgs /\ info[m].flow = f /\ (src = "unreliable" <=> ~Reliable(m))
      /\ m \notin InBatch /\ m \notin InFlight
  BY <1>1, <1>2, TakeRings
<1> HIDE DEF m
<1>5. it.msg = m /\ it.src = src  OBVIOUS
<1> HIDE DEF it
<1>6. /\ InBatch = {x.msg : x \in Packed}
      /\ \A i \in DOMAIN batch : ToSet(batch[i].items) \subseteq Packed
  BY PackedIsTyped
<1>7. \A x \in Packed : x.msg # m  BY <1>4, <1>6
<1>8. /\ ToSet(batch'[k].items) = {it} \cup {x \in Packed : k \in DOMAIN batch /\ x \in ToSet(batch[k].items)}
      /\ \A i \in DOMAIN batch' : i # k => i \in DOMAIN batch /\ batch'[i] = batch[i]
      /\ k \in DOMAIN batch' /\ DOMAIN batch \subseteq DOMAIN batch'
      /\ IsInjective(batch'[k].items) /\ batch'[k].items # <<>> /\ Len(batch'[k].items) <= RefsPerPacket
  BY <1>3 DEF Grows
<1>9. ASSUME NEW i \in DOMAIN batch', NEW x \in ToSet(batch'[i].items)
      PROVE  (x = it /\ i = k) \/ (i \in DOMAIN batch /\ x \in ToSet(batch[i].items) /\ x \in Packed)
  <2>1. CASE i = k  BY <1>8, <1>9, <2>1
  <2>2. CASE i # k  BY <1>6, <1>8, <1>9, <2>2
  <2> QED BY <2>1, <2>2
<1>10. Packed' = Packed \cup {it}
  <2>1. \A x : x \in Packed' <=> \E i \in DOMAIN batch' : x \in ToSet(batch'[i].items)  BY DEF Packed
  <2>2. ASSUME NEW x \in Packed PROVE x \in Packed'
    <3>1. PICK i \in DOMAIN batch : x \in ToSet(batch[i].items)  BY DEF Packed
    <3>2. CASE i = k  BY <1>8, <2>1, <3>1, <3>2
    <3>3. CASE i # k  BY <1>8, <2>1, <3>1, <3>3
    <3> QED BY <3>2, <3>3
  <2>3. it \in Packed'  BY <1>8, <2>1
  <2>4. \A x \in Packed' : x \in Packed \/ x = it  BY <1>9, <2>1
  <2> QED BY <2>2, <2>3, <2>4
<1>11. InBatch' = InBatch \cup {m}
  <2>1. \A y : y \in InBatch' <=> \E x \in Packed' : y = x.msg
    <3>1. \A i \in DOMAIN batch' : Items(batch'[i]) = {x.msg : x \in ToSet(batch'[i].items)}
      BY DEF Items, ToSet
    <3>2. InBatch' = UNION {Items(batch'[i]) : i \in DOMAIN batch'}  BY DEF InBatch, Items
    <3>3. Packed' = UNION {ToSet(batch'[i].items) : i \in DOMAIN batch'}  BY DEF Packed
    <3> QED BY <3>1, <3>2, <3>3
  <2> QED BY <1>5, <1>6, <1>10, <2>1
<1>12. BatchHolds'
  <2>1. ASSUME NEW i \in DOMAIN batch'
        PROVE  IsInjective(batch'[i].items) /\ batch'[i].items # <<>> /\ Len(batch'[i].items) <= RefsPerPacket
    <3>1. CASE i = k  BY <1>8, <3>1
    <3>2. CASE i # k  BY <1>8, <3>2 DEF BatchHolds
    <3> QED BY <3>1, <3>2
  <2>2. \A x \in Packed' : x.msg \in DOMAIN info' /\ (x.src = "unreliable" <=> ~Reliable(x.msg)')
    <3>1. \A x \in Packed : x.msg \in DOMAIN info /\ (x.src = "unreliable" <=> ~Reliable(x.msg))
      BY DEF BatchHolds
    <3> QED BY <1>4, <1>5, <1>10, <3>1 DEF Reliable
  <2>3. ASSUME NEW i \in DOMAIN batch', NEW j \in DOMAIN batch',
               NEW x \in ToSet(batch'[i].items), NEW y \in ToSet(batch'[j].items), x.msg = y.msg
        PROVE  x = y /\ i = j
    <3>1. (x = it /\ i = k) \/ (i \in DOMAIN batch /\ x \in ToSet(batch[i].items) /\ x \in Packed)
      BY <1>9
    <3>2. (y = it /\ j = k) \/ (j \in DOMAIN batch /\ y \in ToSet(batch[j].items) /\ y \in Packed)
      BY <1>9
    <3>3. CASE x = it \/ y = it  BY <1>5, <1>7, <2>3, <3>1, <3>2, <3>3
    <3>4. CASE x # it /\ y # it  BY <2>3, <3>1, <3>2, <3>4 DEF BatchHolds
    <3> QED BY <3>3, <3>4
  <2> QED BY <2>1, <2>2, <2>3 DEF BatchHolds
<1>13. SlotsHold' /\ InFlight' = InFlight
  BY DEF SlotsHold, Slot, Reliable, InFlight
<1>14. Apart'
  BY <1>4, <1>11, <1>13 DEF Apart
<1>15. Alive' = Alive  BY <1>4, <1>11, <1>13 DEF Alive
<1>16. RoomLeft'
  <2>1. ASSUME NEW g \in Flows, NEW t \in Sources
        PROVE  Cardinality(InRing(g, t)' \cup TakenFrom(g, t)') <= RingCap
    <3>1. TakenFrom(g, t)' \subseteq InRing(g, t) \cup TakenFrom(g, t)
      <4>1. TakenFrom(g, t)' = {x.msg : x \in {y \in Packed' : y.src = t /\ info[y.msg].flow = g}}
        BY DEF TakenFrom
      <4>2. TakenFrom(g, t) = {x.msg : x \in {y \in Packed : y.src = t /\ info[y.msg].flow = g}}
        BY DEF TakenFrom
      <4>3. it.src = t /\ info[it.msg].flow = g => it.msg \in InRing(g, t)  BY <1>4, <1>5
      <4> QED BY <1>10, <4>1, <4>2, <4>3
    <3>2. InRing(g, t)' \cup TakenFrom(g, t)' \in SUBSET (InRing(g, t) \cup TakenFrom(g, t))
      BY <1>4, <3>1
    <3>3. Cardinality(InRing(g, t) \cup TakenFrom(g, t)) <= RingCap  BY DEF RoomLeft
    <3>4. InRing(g, t) \cup TakenFrom(g, t) \in SUBSET Msgs  BY PlacesAreMsgs
    <3>5. RingCap \in Nat  BY Consts
    <3> QED BY <3>2, <3>3, <3>4, <3>5, SubsetFits
  <2> QED BY <1>15, <2>1 DEF RoomLeft
<1>17. Late' = Late  BY DEF Late
<1>18. Booked'
  <2>1. Gone' = Gone  BY DEF Gone
  <2>2. \A x \in DOMAIN info' : Reliable(x)' => (x \in Alive' <=> x \notin Gone')
    BY <1>15, <2>1 DEF Booked, Reliable
  <2>3. Lossy \subseteq Lossy'
    <3>1. ASSUME NEW x \in Lossy PROVE x \in Lossy'
      <4>1. CASE x \in InFlight  BY <1>13, <4>1 DEF Lossy
      <4>2. CASE \E y \in Packed : y.src = "retry" /\ x = y.msg  BY <1>10, <4>2 DEF Lossy
      <4>3. CASE \E g \in Flows : x \in InRing(g, "retry")
        <5>1. PICK g \in Flows : x \in InRing(g, "retry")  BY <4>3
        <5>2. "retry" \in Sources  BY DEF Sources
        <5>3. CASE x = m
          <6>1. it \in Packed' /\ it.src = "retry" /\ x = it.msg  BY <1>4, <1>5, <1>10, <5>1, <5>2, <5>3
          <6> QED BY <6>1 DEF Lossy
        <5>4. CASE x # m
          <6>1. x \in InRing(g, "retry")'  BY <1>4, <5>1, <5>2, <5>4
          <6> QED BY <6>1 DEF Lossy
        <5> QED BY <5>3, <5>4
      <4> QED BY <4>1, <4>2, <4>3 DEF Lossy
    <3> QED BY <3>1
  <2> QED BY <1>17, <2>2, <2>3 DEF Booked
<1>19. Traced'  BY DEF Traced, DoneArrived
<1> QED BY <1>4, <1>12, <1>13, <1>14, <1>16, <1>18, <1>19

LEMMA ExpireHeadKeeps == ASSUME Inv, NEW f \in Flows, ExpireHead(f) PROVE Inv'
<1> DEFINE src == SourceOf(f)
           m == Head(queue[f][src])
<1> USE DEF Inv
<1>1. IsPicked(f) /\ filling /\ Len(batch) < BatchSize  BY DEF ExpireHead
<1>2. src \in Sources /\ queue[f][src] # <<>>  BY <1>1, PickedFacts
<1>3. /\ queue' = [queue EXCEPT ![f][src] = Tail(@)]
      /\ expired' = expired \cup {m} /\ lost' = [lost EXCEPT ![m] = <<>>]
      /\ lateCount' = (IF lost[m] = <<>> THEN lateCount ELSE lateCount - 1)
      /\ info' = info /\ cursor' = cursor /\ filling' = filling /\ blocked' = blocked
      /\ firstSeq' = firstSeq /\ batch' = batch /\ nextSeq' = nextSeq
      /\ sent' = sent /\ tracked' = tracked /\ armed' = armed /\ wire' = wire /\ heard' = heard
      /\ done' = done /\ dropped' = dropped
  BY DEF ExpireHead, flush
<1> HIDE DEF src
<1>4. /\ RingsHold' /\ queue' \in [Flows -> [Sources -> Seq(Msgs)]]
      /\ \A g \in Flows, t \in Sources : InRing(g, t)' = InRing(g, t) \ {m}
      /\ m \in InRing(f, src) /\ \A g \in Flows, t \in Sources : m \in InRing(g, t) => g = f /\ t = src
      /\ Queued' = Queued \ {m} /\ m \in Queued
      /\ m \in DOMAIN info /\ m \in Msgs /\ info[m].flow = f /\ (src = "unreliable" <=> ~Reliable(m))
      /\ m \notin InBatch /\ m \notin InFlight
  <2>1. queue' = [queue EXCEPT ![f][src] = Tail(@)]  BY <1>3
  <2>2. info' = info  BY <1>3
  <2> QED BY <1>2, <2>1, <2>2, TakeRings
<1> HIDE DEF m
<1>5. Packed' = Packed /\ InBatch' = InBatch /\ InFlight' = InFlight
  BY <1>3 DEF Packed, InBatch, InFlight, Items
<1>6. Typed'
  <2>1. <<>> \in Seq(Seqs) /\ Len(<<>>) <= MaxLostSeqs  BY Consts, EmptyToSet
  <2>2. lost \in [Msgs -> Seq(Seqs)] /\ \A x \in Msgs : Len(lost[x]) <= MaxLostSeqs  BY DEF Typed
  <2>3. lost' \in [Msgs -> Seq(Seqs)] /\ \A x \in Msgs : Len(lost'[x]) <= MaxLostSeqs
    BY <1>3, <2>1, <2>2
  <2> QED BY <1>3, <1>4, <2>3 DEF Typed
<1>7. BatchHolds' /\ SlotsHold' /\ Numbered'
  <2>1. BatchHolds'  BY <1>3, <1>5 DEF BatchHolds, Reliable
  <2>2. SlotsHold'  BY <1>3 DEF SlotsHold, Slot, Reliable
  <2>3. Numbered'  BY <1>3 DEF Numbered, Carries, Slot, Reliable
  <2> QED BY <2>1, <2>2, <2>3
<1>8. Apart'  BY <1>4, <1>5 DEF Apart
<1>9. Alive' = Alive \ {m}  BY <1>4, <1>5 DEF Alive
<1>10. RoomLeft'
  <2>1. ASSUME NEW g \in Flows, NEW t \in Sources
        PROVE  Cardinality(InRing(g, t)' \cup TakenFrom(g, t)') <= RingCap
    <3>1. TakenFrom(g, t)' = TakenFrom(g, t)  BY <1>3, <1>5 DEF TakenFrom
    <3>2. InRing(g, t)' \cup TakenFrom(g, t)' \in SUBSET (InRing(g, t) \cup TakenFrom(g, t))
      BY <1>4, <3>1
    <3>3. Cardinality(InRing(g, t) \cup TakenFrom(g, t)) <= RingCap  BY DEF RoomLeft
    <3>4. InRing(g, t) \cup TakenFrom(g, t) \in SUBSET Msgs  BY PlacesAreMsgs
    <3>5. RingCap \in Nat  BY Consts
    <3> QED BY <3>2, <3>3, <3>4, <3>5, SubsetFits
  <2>2. Alive \in SUBSET Msgs /\ Alive' \in SUBSET Alive /\ MaxMessages \in Nat
    BY <1>9, PlacesAreMsgs, Consts
  <2>3. Cardinality(Alive') <= MaxMessages  BY <2>2, SubsetFits DEF RoomLeft
  <2> QED BY <2>1, <2>3 DEF RoomLeft
<1>11. Late' = Late \ {m}
  <2>1. \A x \in Msgs : lost'[x] = IF x = m THEN <<>> ELSE lost[x]  BY <1>3 DEF Typed
  <2> QED BY <2>1 DEF Late
<1>12. Booked'
  <2>1. Gone' = Gone \cup {m}  BY <1>3 DEF Gone
  <2>2. m \in Alive  BY <1>4 DEF Alive
  <2>3. \A x \in DOMAIN info' : Reliable(x)' => (x \in Alive' <=> x \notin Gone')
    BY <1>3, <1>9, <2>1 DEF Booked, Reliable
  <2>4. Late' \subseteq Lossy'
    <3> SUFFICES ASSUME NEW x \in Late, x # m PROVE x \in Lossy'  BY <1>11
    <3>1. x \in Lossy  BY DEF Booked
    <3>2. "retry" \in Sources  BY DEF Sources
    <3>3. CASE x \in InFlight  BY <1>5, <3>3 DEF Lossy
    <3>4. CASE \E y \in Packed : y.src = "retry" /\ x = y.msg  BY <1>5, <3>4 DEF Lossy
    <3>5. CASE \E g \in Flows : x \in InRing(g, "retry")
      <4>1. PICK g \in Flows : x \in InRing(g, "retry")  BY <3>5
      <4>2. x \in InRing(g, "retry")'  BY <1>4, <3>2, <4>1
      <4> QED BY <4>2 DEF Lossy
    <3> QED BY <3>1, <3>3, <3>4, <3>5 DEF Lossy
  <2>5. lateCount' = Cardinality(Late')
    <3>1. Late \in SUBSET Msgs /\ lateCount = Cardinality(Late)  BY DEF Late, Booked
    <3>2. IsFiniteSet(Late)  BY <3>1, MsgsAreFinite
    <3>3. Cardinality(Late \ {m}) = IF m \in Late THEN Cardinality(Late) - 1 ELSE Cardinality(Late)
      BY <3>2, FS_RemoveElement
    <3>4. m \in Late <=> lost[m] # <<>>  BY <1>4 DEF Late
    <3> QED BY <1>3, <1>11, <3>1, <3>3, <3>4
  <2> QED BY <2>3, <2>4, <2>5 DEF Booked
<1>13. Traced'
  <2>1. \A x \in Msgs : \A q \in ToSet(lost'[x]) : x \in wire[q]
    <3>1. \A x \in Msgs : lost'[x] = IF x = m THEN <<>> ELSE lost[x]  BY <1>3 DEF Typed
    <3> QED BY <3>1, EmptyToSet DEF Traced
  <2> QED BY <1>3, <2>1 DEF Traced, DoneArrived
<1> QED BY <1>4, <1>6, <1>7, <1>8, <1>10, <1>12, <1>13

LEMMA CursorStays == ASSUME Typed, NEW f \in Flows, MoveCursor(f) PROVE cursor' \in Flows
<1>1. f + 1 \in Int /\ NumFlows \in Nat \ {0}  BY Consts DEF Flows
<1>2. (f + 1) % NumFlows \in 0..(NumFlows - 1)  BY <1>1, DivMod
<1> QED BY <1>2 DEF MoveCursor, Flows, Typed

LEMMA ItemIsEntry ==
  ASSUME Inv, NEW f \in Flows, IsPicked(f)
  PROVE  /\ Item(f) \in Entry /\ Item(f).msg \in DOMAIN info /\ Item(f).msg \notin InBatch
         /\ Item(f).msg = Head(queue[f][SourceOf(f)]) /\ Item(f).src = SourceOf(f)
         /\ Item(f).msg \in InRing(f, SourceOf(f)) /\ info[Item(f).msg].flow = f
<1> DEFINE src == SourceOf(f)
           q == queue[f][src]
<1>1. src \in Sources /\ q # <<>>  BY PickedFacts
<1> HIDE DEF src
<1>2. q \in Seq(Msgs) /\ q # <<>> /\ ToSet(q) = InRing(f, src)  BY <1>1 DEF Inv, Typed, InRing
<1> HIDE DEF q
<1>3. Head(q) \in Msgs /\ Head(q) \in ToSet(q)  BY <1>2, HeadTailFacts
<1>4. Head(q) \in Queued  BY <1>1, <1>2, <1>3 DEF Queued
<1>5. Head(q) \in DOMAIN info /\ Head(q) \notin InBatch /\ info[Head(q)].flow = f
  BY <1>1, <1>2, <1>3, <1>4 DEF Inv, RingsHold, Apart
<1>6. Item(f) = [msg |-> Head(q), src |-> src]  BY DEF Item, q, src
<1> QED BY <1>1, <1>2, <1>3, <1>5, <1>6 DEF Entry, q, src

LEMMA SlotAvailableFacts ==
  ASSUME Inv, NEW q, SlotAvailable(q)
  PROVE  sent[Slot(q)].seq = 0 /\ \A i \in DOMAIN batch : Carries(i) => Slot(batch[i].seq) # Slot(q)
BY PackedIsTyped DEF SlotAvailable, Inv

LEMMA JoinPacketKeeps == ASSUME Inv, NEW f \in Flows, JoinPacket(f) PROVE Inv'
<1> USE DEF Inv
<1> DEFINE n == Len(batch)
           it == Item(f)
<1>1. /\ filling /\ n < BatchSize /\ IsPicked(f) /\ MoveCursor(f) /\ CanJoin(it.msg) /\ Take(f)
      /\ batch' = [batch EXCEPT ![n].items = Append(@, it)]
      /\ info' = info /\ filling' = filling /\ blocked' = blocked /\ firstSeq' = firstSeq
      /\ nextSeq' = nextSeq /\ sent' = sent /\ tracked' = tracked /\ armed' = armed /\ lost' = lost
      /\ lateCount' = lateCount /\ wire' = wire /\ heard' = heard /\ done' = done
      /\ expired' = expired /\ dropped' = dropped
  BY DEF JoinPacket, Chosen, flight, history
<1>2. /\ it \in Entry /\ it.msg \in DOMAIN info /\ it.msg \notin InBatch
  BY <1>1, ItemIsEntry
<1>3. batch \in Seq(Packet) /\ batch # <<>> /\ Len(batch[n].items) < RefsPerPacket
  BY <1>1 DEF Typed, CanJoin, Last
<1>4. n \in Nat /\ n \in DOMAIN batch /\ DOMAIN batch = 1..n
  BY <1>3, ToSetOf, EmptySeq
<1>5. /\ InBatch = {x.msg : x \in Packed} /\ batch[n] \in Packet /\ batch[n].items \in Seq(Entry)
      /\ ToSet(batch[n].items) \subseteq Packed
      /\ (PacketRefs(batch[n]) # <<>> <=> Carries(n))
  BY <1>4, PackedIsTyped
<1>6. Reliable(it.msg) => Carries(n) \/ (batch[n].seq # 0 /\ SlotAvailable(batch[n].seq))
  BY <1>1, <1>5 DEF CanJoin, CanAddReliable, Last
<1> HIDE DEF n, it
<1> DEFINE e == batch[n].items
           a == Append(e, it)
<1>7. /\ a \in Seq(Entry) /\ Len(a) = Len(e) + 1 /\ ToSet(a) = ToSet(e) \cup {it} /\ IsInjective(a)
  <2>1. e \in Seq(Entry) /\ it \in Entry  BY <1>2, <1>5
  <2>2. IsInjective(e) /\ it \notin ToSet(e)  BY <1>2, <1>4, <1>5 DEF BatchHolds
  <2> HIDE DEF e
  <2> QED BY <2>1, <2>2, AppendFacts
<1>8. a # <<>> /\ Len(a) <= RefsPerPacket
  <2>1. Len(e) \in Nat /\ Len(e) < RefsPerPacket  BY <1>3, <1>5, ToSetOf
  <2>2. ToSet(a) # {}  BY <1>7
  <2> QED BY <1>7, <2>1, <2>2, Consts, EmptyToSet
<1>9. /\ DOMAIN batch' = DOMAIN batch /\ Len(batch') = Len(batch) /\ batch' \in Seq(Packet)
      /\ \A i \in DOMAIN batch' : i # n => batch'[i] = batch[i]
      /\ batch'[n].items = a /\ batch'[n].seq = batch[n].seq
  <2> DEFINE p == [batch[n] EXCEPT !.items = a]
  <2>1. p \in Packet /\ p.items = a /\ p.seq = batch[n].seq
    <3> HIDE DEF a
    <3> QED BY <1>5, <1>7 DEF Packet, Entry
  <2>2. batch' = [batch EXCEPT ![n] = p]  BY <1>1
  <2> HIDE DEF p, a
  <2>3. /\ DOMAIN batch' = DOMAIN batch /\ \A i \in DOMAIN batch' : i # n => batch'[i] = batch[i]
        /\ batch'[n] = p
    BY <1>4, <2>2
  <2>4. batch' \in Seq(Packet) /\ Len(batch') = Len(batch)
    <3> HIDE DEF Packet
    <3> QED BY <1>3, <1>4, <2>1, <2>2, ExceptSeq
  <2> QED BY <2>1, <2>3, <2>4
<1>10. Grows(it, n)
  <2>1. Len(batch') <= BatchSize  BY <1>1, <1>9, Consts DEF n, Typed
  <2>2. ToSet(batch'[n].items) = {it} \cup {x \in Packed : n \in DOMAIN batch /\ x \in ToSet(batch[n].items)}
    BY <1>4, <1>5, <1>7, <1>9
  <2> HIDE DEF a
  <2> QED BY <1>4, <1>7, <1>8, <1>9, <2>1, <2>2 DEF Grows
<1>11. /\ RingsHold' /\ BatchHolds' /\ SlotsHold' /\ Apart' /\ RoomLeft' /\ Booked' /\ Traced'
       /\ queue' \in [Flows -> [Sources -> Seq(Msgs)]]
  BY <1>1, <1>10, TakeKeeps DEF it
<1>12. Typed'
  <2>1. cursor' \in Flows  BY <1>1, CursorStays
  <2> QED BY <1>1, <1>10, <1>11, <2>1 DEF Typed, Grows
<1>13. Numbered'
  <2>1. \A i \in DOMAIN batch' : batch'[i].seq = batch[i].seq  BY <1>9
  <2>2. ASSUME NEW i \in DOMAIN batch', Carries(i)' PROVE Carries(i) \/ (i = n /\ Reliable(it.msg))
    <3>1. PICK x \in ToSet(batch'[i].items) : Reliable(x.msg)  BY <1>1, <2>2 DEF Carries, Reliable
    <3>2. CASE i = n
      <4>1. x \in ToSet(e) \/ x = it  BY <1>7, <1>9, <3>1, <3>2
      <4> QED BY <3>1, <3>2, <4>1 DEF Carries
    <3>3. CASE i # n  BY <1>9, <3>1, <3>3 DEF Carries
    <3> QED BY <3>2, <3>3
  <2>3. ASSUME ~Carries(n), Reliable(it.msg)
        PROVE  /\ batch[n].seq # 0 /\ sent[Slot(batch[n].seq)].seq = 0
               /\ \A i \in DOMAIN batch : Carries(i) => Slot(batch[i].seq) # Slot(batch[n].seq)
    <3>1. batch[n].seq # 0 /\ SlotAvailable(batch[n].seq)  BY <1>6, <2>3
    <3> QED BY <3>1, SlotAvailableFacts
  <2>4. ASSUME NEW i \in DOMAIN batch', Carries(i)'
        PROVE  /\ batch'[i].seq # 0 /\ sent'[Slot(batch'[i].seq)].seq = 0
               /\ \A j \in DOMAIN batch' : j # i /\ Carries(j)' => Slot(batch'[j].seq) # Slot(batch'[i].seq)
    <3>1. batch[i].seq # 0 /\ sent[Slot(batch[i].seq)].seq = 0
      <4>1. CASE Carries(i)  BY <1>9, <2>4, <4>1 DEF Numbered
      <4>2. CASE ~Carries(i)  BY <2>2, <2>3, <2>4, <4>2
      <4> QED BY <4>1, <4>2
    <3>2. ASSUME NEW j \in DOMAIN batch', j # i, Carries(j)' PROVE Slot(batch[j].seq) # Slot(batch[i].seq)
      <4>1. CASE Carries(i) /\ Carries(j)  BY <1>9, <3>2, <4>1 DEF Numbered
      <4>2. CASE ~Carries(i)
        <5>1. i = n /\ Reliable(it.msg)  BY <2>2, <2>4, <4>2
        <5>2. Carries(j)  BY <2>2, <3>2, <5>1
        <5> QED BY <1>9, <2>3, <4>2, <5>1, <5>2
      <4>3. CASE ~Carries(j)
        <5>1. j = n /\ Reliable(it.msg)  BY <2>2, <3>2, <4>3
        <5>2. Carries(i)  BY <2>2, <2>4, <3>2, <5>1
        <5> QED BY <1>9, <2>3, <4>3, <5>1, <5>2
      <4> QED BY <4>1, <4>2, <4>3
    <3> QED BY <1>1, <2>1, <3>1, <3>2
  <2>5. \A q : Slot(q)' = Slot(q)  BY DEF Slot
  <2>6. \A i \in DOMAIN batch' : Carries(i)' =>
       /\ batch'[i].seq # 0 /\ sent'[Slot(batch'[i].seq)].seq = 0
       /\ \A j \in DOMAIN batch' : j # i /\ Carries(j)' => Slot(batch'[j].seq) # Slot(batch'[i].seq)
    BY <2>4
  <2>7. \A i, j \in DOMAIN batch' :
           i < j /\ batch'[i].seq # 0 /\ batch'[j].seq # 0 => batch'[i].seq < batch'[j].seq
    BY <1>9, <2>1 DEF Numbered
  <2>8. \A i \in DOMAIN batch' :
          batch'[i].seq < nextSeq' /\ (batch'[i].seq # 0 => \A q \in ToSet(tracked') : q < batch'[i].seq)
    BY <1>1, <1>9, <2>1 DEF Numbered
  <2>9. /\ \A q \in ToSet(tracked') : q < nextSeq'
        /\ Rising(tracked') /\ Len(tracked') <= SlotCount
        /\ \A s \in SlotIds : sent'[s].seq # 0 => sent'[s].seq \in ToSet(tracked') /\ armed'
    BY <1>1 DEF Numbered
  <2> QED BY <2>6, <2>7, <2>8, <2>9 DEF Numbered, Slot
<1> QED BY <1>11, <1>12, <1>13

LEMMA NewPacketGrows ==
  ASSUME Inv, NEW f \in Flows, IsPicked(f), Len(batch) < BatchSize, NEW q \in 0..MaxSeq,
         batch' = Append(batch, [seq |-> q, items |-> <<Item(f)>>]), info' = info,
         NEW k, k = Len(batch) + 1
  PROVE  /\ Grows(Item(f), k)
         /\ DOMAIN batch' = 1..k /\ DOMAIN batch = 1..(k - 1) /\ k \in Nat \ {0}
         /\ \A i \in DOMAIN batch : batch'[i] = batch[i]
         /\ batch'[k].seq = q
         /\ \A i \in DOMAIN batch : Carries(i)' <=> Carries(i)
         /\ Carries(k)' <=> Reliable(Item(f).msg)
<1> DEFINE it == Item(f)
           n == Len(batch)
           p == [seq |-> q, items |-> <<it>>]
<1>1. it \in Entry  BY ItemIsEntry
<1>2. batch \in Seq(Packet) /\ Len(batch) <= BatchSize  BY DEF Inv, Typed
<1>3. n \in Nat /\ DOMAIN batch = 1..n
  <2> HIDE DEF Packet
  <2> QED BY <1>2, ToSetOf
<1>4. batch' = Append(batch, p)  OBVIOUS
<1> HIDE DEF it
<1>5. p \in Packet /\ p.seq = q /\ p.items = <<it>>
  BY <1>1 DEF Packet, Entry
<1> HIDE DEF p
<1>6. /\ batch' \in Seq(Packet) /\ Len(batch') = n + 1 /\ DOMAIN batch' = 1..(n + 1)
      /\ \A i \in 1..n : batch'[i] = batch[i]
      /\ batch'[n + 1] = p
  <2> HIDE DEF Packet
  <2> QED BY <1>2, <1>3, <1>4, <1>5
<1>7. /\ IsInjective(<<it>>) /\ <<it>> # <<>> /\ Len(<<it>>) = 1 /\ ToSet(<<it>>) = {it}
  <2>1. <<it>> \in Seq({it}) /\ Len(<<it>>) = 1 /\ <<it>> # <<>>  OBVIOUS
  <2> QED BY <2>1 DEF IsInjective, ToSet
<1>8. Len(batch') <= BatchSize /\ 1 <= RefsPerPacket  BY <1>3, <1>6, Consts
<1>9. k \in DOMAIN batch' /\ k \notin DOMAIN batch /\ DOMAIN batch \subseteq DOMAIN batch'
      /\ \A i \in DOMAIN batch' : i # k => i \in DOMAIN batch /\ batch'[i] = batch[i]
  BY <1>3, <1>6 DEF n
<1>10. Grows(it, k)
  <2>1. {x \in Packed : k \in DOMAIN batch /\ x \in ToSet(batch[k].items)} = {}  BY <1>9
  <2>2. batch'[k].items = <<it>>  BY <1>5, <1>6
  <2>3. ToSet(batch'[k].items) = {it} \cup {}  BY <1>7, <2>2
  <2>4. /\ IsInjective(batch'[k].items) /\ batch'[k].items # <<>>
        /\ Len(batch'[k].items) <= RefsPerPacket
    BY <1>7, <1>8, <2>2
  <2> QED BY <1>6, <1>8, <1>9, <2>1, <2>3, <2>4 DEF Grows
<1>11. \A i \in DOMAIN batch : Carries(i)' <=> Carries(i)
  BY <1>3, <1>6 DEF Carries, Reliable
<1>12. Carries(k)' <=> Reliable(it.msg)
  <2>1. batch'[k].items = <<it>>  BY <1>5, <1>6
  <2> QED BY <1>7, <2>1 DEF Carries, Reliable
<1> QED BY <1>3, <1>5, <1>6, <1>10, <1>11, <1>12 DEF it

LEMMA NumberNew ==
  ASSUME Inv, NEW f \in Flows, IsPicked(f), Len(batch) < BatchSize, NEW q \in 0..MaxSeq,
         batch' = Append(batch, [seq |-> q, items |-> <<Item(f)>>]), info' = info,
         sent' = sent, armed' = armed, nextSeq' \in Nat, nextSeq <= nextSeq',
         q = 0 \/ (nextSeq <= q /\ q < nextSeq'),
         Reliable(Item(f).msg) => q # 0 /\ SlotAvailable(q),
         tracked' = tracked \/ tracked' = LiveTracked
  PROVE  Numbered'
<1> USE DEF Inv
<1> DEFINE it == Item(f)
<1>0. PICK k : k = Len(batch) + 1  OBVIOUS
<1>1. /\ DOMAIN batch' = 1..k /\ DOMAIN batch = 1..(k - 1) /\ k \in Nat \ {0}
      /\ \A i \in DOMAIN batch : batch'[i] = batch[i]
      /\ batch'[k].seq = q
      /\ \A i \in DOMAIN batch : Carries(i)' <=> Carries(i)
      /\ Carries(k)' <=> Reliable(it.msg)
  BY <1>0, NewPacketGrows
<1>2. Reliable(it.msg) => /\ q # 0 /\ sent[Slot(q)].seq = 0
                          /\ \A i \in DOMAIN batch : Carries(i) => Slot(batch[i].seq) # Slot(q)
  BY SlotAvailableFacts
<1> HIDE DEF it
<1>3. nextSeq \in Nat /\ nextSeq >= 1 /\ \A i \in DOMAIN batch : batch[i].seq \in Nat
  <2>1. \A i \in DOMAIN batch : batch[i] \in Packet  BY PackedIsTyped
  <2> QED BY <2>1, Consts DEF Typed, Packet
<1>4. /\ ToSet(tracked') \subseteq ToSet(tracked) /\ UsedSeqs \subseteq ToSet(tracked')
      /\ Rising(tracked') /\ Len(tracked') <= SlotCount
  <2>1. CASE tracked' = tracked
    <3>1. UsedSeqs \subseteq ToSet(tracked)  BY LiveFacts
    <3> QED BY <2>1, <3>1 DEF Numbered
  <2>2. CASE tracked' = LiveTracked  BY <2>2, LiveFacts
  <2> QED BY <2>1, <2>2
<1>5. \A i \in DOMAIN batch' : i \in DOMAIN batch \/ i = k  BY <1>1
<1>6. ToSet(tracked) \subseteq Nat
  <2>1. tracked \in Seq(Seqs) /\ Seqs \subseteq Nat  BY Consts DEF Typed, Seqs
  <2> QED BY <2>1, ToSetOf
<1>7. ASSUME NEW i \in DOMAIN batch', Carries(i)'
      PROVE  /\ batch'[i].seq # 0 /\ sent'[Slot(batch'[i].seq)].seq = 0
             /\ \A j \in DOMAIN batch' : j # i /\ Carries(j)' => Slot(batch'[j].seq) # Slot(batch'[i].seq)
  <2>1. CASE i \in DOMAIN batch
    <3>1. Carries(i) /\ batch'[i] = batch[i]  BY <1>1, <1>7, <2>1
    <3>2. ASSUME NEW j \in DOMAIN batch', j # i, Carries(j)' PROVE Slot(batch'[j].seq) # Slot(batch'[i].seq)
      <4>1. CASE j \in DOMAIN batch  BY <1>1, <2>1, <3>1, <3>2, <4>1 DEF Numbered
      <4>2. CASE j = k  BY <1>1, <1>2, <2>1, <3>1, <3>2, <4>2
      <4> QED BY <1>5, <4>1, <4>2
    <3> QED BY <2>1, <3>1, <3>2 DEF Numbered
  <2>2. CASE i = k
    <3>1. Reliable(it.msg) /\ batch'[i].seq = q  BY <1>1, <1>7, <2>2
    <3>2. ASSUME NEW j \in DOMAIN batch', j # i, Carries(j)' PROVE Slot(batch'[j].seq) # Slot(batch'[i].seq)
      <4>1. j \in DOMAIN batch  BY <1>5, <2>2, <3>2
      <4> QED BY <1>1, <1>2, <3>1, <3>2, <4>1
    <3> QED BY <1>2, <3>1, <3>2
  <2> QED BY <1>5, <2>1, <2>2
<1>8. ASSUME NEW i \in DOMAIN batch', NEW j \in DOMAIN batch',
             i < j, batch'[i].seq # 0, batch'[j].seq # 0 PROVE batch'[i].seq < batch'[j].seq
  <2>1. i \in DOMAIN batch  BY <1>1, <1>8
  <2>2. CASE j \in DOMAIN batch  BY <1>1, <1>8, <2>1, <2>2 DEF Numbered
  <2>3. CASE j = k
    <3>1. batch'[j].seq = q /\ nextSeq <= q  BY <1>1, <1>8, <2>3
    <3>2. batch[i].seq < nextSeq  BY <2>1 DEF Numbered
    <3> QED BY <1>1, <1>3, <2>1, <3>1, <3>2
  <2> QED BY <1>5, <2>2, <2>3
<1>9. ASSUME NEW i \in DOMAIN batch'
      PROVE  batch'[i].seq < nextSeq' /\ (batch'[i].seq # 0 => \A x \in ToSet(tracked') : x < batch'[i].seq)
  <2>1. CASE i \in DOMAIN batch
    <3>1. batch'[i].seq = batch[i].seq /\ batch[i].seq < nextSeq  BY <1>1, <2>1 DEF Numbered
    <3>2. batch[i].seq # 0 => \A x \in ToSet(tracked) : x < batch[i].seq  BY <2>1 DEF Numbered
    <3> QED BY <1>3, <1>4, <2>1, <3>1, <3>2
  <2>2. CASE i = k
    <3>1. \A x \in ToSet(tracked) : x < nextSeq  BY DEF Numbered
    <3> QED BY <1>1, <1>3, <1>4, <1>6, <2>2, <3>1
  <2> QED BY <1>5, <2>1, <2>2
<1>10. \A x \in ToSet(tracked') : x < nextSeq'
  <2>1. \A x \in ToSet(tracked) : x < nextSeq  BY DEF Numbered
  <2> QED BY <1>3, <1>4, <1>6, <2>1
<1>11. \A s \in SlotIds : sent'[s].seq # 0 => sent'[s].seq \in ToSet(tracked') /\ armed'
  BY <1>4 DEF Numbered, UsedSeqs
<1> HIDE DEF Inv
<1> QED BY <1>4, <1>7, <1>8, <1>9, <1>10, <1>11 DEF Numbered, Slot

LEMMA NewUnreliableKeeps == ASSUME Inv, NEW f \in Flows, NewUnreliable(f) PROVE Inv'
<1> DEFINE q == IF SkipUnreliableAcks THEN 0 ELSE nextSeq
<1>1. /\ filling /\ Len(batch) < BatchSize /\ IsPicked(f) /\ MoveCursor(f) /\ Take(f)
      /\ ~Reliable(Item(f).msg) /\ nextSeq <= MaxSeq
      /\ batch' = Append(batch, [seq |-> q, items |-> <<Item(f)>>])
      /\ nextSeq' = (IF SkipUnreliableAcks THEN nextSeq ELSE nextSeq + 1)
      /\ info' = info /\ filling' = filling /\ blocked' = blocked /\ firstSeq' = firstSeq
      /\ sent' = sent /\ tracked' = tracked /\ armed' = armed /\ lost' = lost
      /\ lateCount' = lateCount /\ wire' = wire /\ heard' = heard /\ done' = done
      /\ expired' = expired /\ dropped' = dropped
  BY DEF NewUnreliable, Chosen, flight, history
<1>2. nextSeq \in Nat /\ nextSeq >= 1 /\ MaxSeq \in Nat  BY Consts DEF Inv, Typed
<1>3. q \in 0..MaxSeq /\ nextSeq' \in 1..(MaxSeq + 1) /\ nextSeq <= nextSeq' /\ nextSeq' \in Nat
      /\ (q = 0 \/ (nextSeq <= q /\ q < nextSeq'))
  BY <1>1, <1>2
<1> HIDE DEF q
<1>0. PICK k : k = Len(batch) + 1  OBVIOUS
<1>4. Grows(Item(f), k)  BY <1>0, <1>1, <1>3, NewPacketGrows
<1>5. Numbered'  BY <1>1, <1>3, NumberNew
<1>6. /\ RingsHold' /\ BatchHolds' /\ SlotsHold' /\ Apart' /\ RoomLeft' /\ Booked' /\ Traced'
      /\ queue' \in [Flows -> [Sources -> Seq(Msgs)]]
  BY <1>1, <1>4, TakeKeeps
<1>7. cursor' \in Flows  BY <1>1, CursorStays DEF Inv
<1>8. Typed'  BY <1>1, <1>3, <1>4, <1>6, <1>7 DEF Typed, Grows, Inv
<1> QED BY <1>5, <1>6, <1>8 DEF Inv

LEMMA NewReliableKeeps == ASSUME Inv, NEW f \in Flows, NewReliable(f) PROVE Inv'
<1>1. PICK q \in FreeFrom(nextSeq) :
        /\ filling /\ Len(batch) < BatchSize /\ IsPicked(f) /\ MoveCursor(f) /\ Take(f)
        /\ q <= MaxSeq
        /\ batch' = Append(batch, [seq |-> q, items |-> <<Item(f)>>])
        /\ nextSeq' = q + 1 /\ firstSeq' = (IF firstSeq = 0 THEN q ELSE firstSeq)
        /\ info' = info /\ filling' = filling /\ blocked' = blocked
        /\ sent' = sent /\ tracked' = LiveTracked /\ armed' = armed /\ lost' = lost
        /\ lateCount' = lateCount /\ wire' = wire /\ heard' = heard /\ done' = done
        /\ expired' = expired /\ dropped' = dropped
  BY DEF NewReliable, Chosen, history
<1>2. nextSeq \in Nat /\ nextSeq >= 1 /\ MaxSeq \in Nat /\ firstSeq \in 0..MaxSeq
  BY Consts DEF Inv, Typed
<1>3. q \in nextSeq..(nextSeq + SlotCount - 1) /\ SlotAvailable(q)  BY DEF FreeFrom
<1>4. /\ q \in 0..MaxSeq /\ nextSeq' \in 1..(MaxSeq + 1) /\ nextSeq <= nextSeq' /\ nextSeq' \in Nat
      /\ nextSeq <= q /\ q < nextSeq' /\ q # 0 /\ firstSeq' \in 0..MaxSeq
  BY <1>1, <1>2, <1>3, Consts
<1>0. PICK k : k = Len(batch) + 1  OBVIOUS
<1>5. Grows(Item(f), k)  BY <1>0, <1>1, <1>4, NewPacketGrows
<1>6. Numbered'  BY <1>1, <1>3, <1>4, NumberNew
<1>7. /\ RingsHold' /\ BatchHolds' /\ SlotsHold' /\ Apart' /\ RoomLeft' /\ Booked' /\ Traced'
      /\ queue' \in [Flows -> [Sources -> Seq(Msgs)]]
  BY <1>1, <1>5, TakeKeeps
<1>8. cursor' \in Flows  BY <1>1, CursorStays DEF Inv
<1>9. LiveTracked \in Seq(Seqs)  BY LiveFacts DEF Inv
<1>10. Typed'  BY <1>1, <1>4, <1>5, <1>7, <1>8, <1>9 DEF Typed, Grows, Inv
<1> QED BY <1>6, <1>7, <1>10 DEF Inv

(* Steps that move no message.                                              *)
LEMMA StillKeeps ==
  ASSUME Inv, info' = info, queue' = queue, batch' = batch, sent' = sent, armed' = armed,
         lost' = lost, lateCount' = lateCount, wire' = wire, done' = done, expired' = expired,
         dropped' = dropped, heard \subseteq heard', heard' \subseteq Seqs,
         cursor' \in Flows, filling' \in BOOLEAN, blocked' \in BOOLEAN, firstSeq' \in 0..MaxSeq,
         ~filling' => batch = <<>>,
         nextSeq' \in 1..(MaxSeq + 1), nextSeq <= nextSeq',
         tracked' = tracked \/ tracked' = LiveTracked
  PROVE  Inv'
<1> USE DEF Inv
<1>1. LiveTracked \in Seq(Seqs)  BY LiveFacts
<1>2. tracked' \in Seq(Seqs)  BY <1>1 DEF Typed
<1>3. Typed'  BY <1>2 DEF Typed
<1>4. RingsHold'  BY DEF RingsHold, InRing, Reliable
<1>5. Packed' = Packed /\ InBatch' = InBatch /\ InFlight' = InFlight /\ Queued' = Queued
  BY DEF Packed, InBatch, Items, InFlight, Queued, InRing
<1>6. BatchHolds'  BY <1>5 DEF BatchHolds, Reliable
<1>7. SlotsHold'  BY DEF SlotsHold, Slot, Reliable
<1>8. Apart'  BY <1>5 DEF Apart
<1>9. RoomLeft'  BY <1>5 DEF RoomLeft, InRing, TakenFrom, Alive
<1>10. Numbered'
  <2>1. /\ ToSet(tracked') \subseteq ToSet(tracked) /\ UsedSeqs \subseteq ToSet(tracked')
        /\ Rising(tracked') /\ Len(tracked') <= SlotCount
    <3>1. CASE tracked' = tracked
      <4>1. UsedSeqs \subseteq ToSet(tracked)  BY LiveFacts
      <4> QED BY <3>1, <4>1 DEF Numbered
    <3>2. CASE tracked' = LiveTracked  BY <3>2, LiveFacts
    <3> QED BY <3>1, <3>2
  <2>2. \A s \in SlotIds : sent'[s].seq # 0 => sent'[s].seq \in ToSet(tracked') /\ armed'
    BY <2>1 DEF Numbered, UsedSeqs
  <2>3. ToSet(tracked) \subseteq Nat /\ nextSeq \in Nat /\ nextSeq' \in Nat
    <3>1. tracked \in Seq(Seqs) /\ Seqs \subseteq Nat  BY Consts DEF Typed, Seqs
    <3>2. nextSeq \in Nat /\ nextSeq' \in Nat  BY Consts DEF Typed
    <3> QED BY <3>1, <3>2, ToSetOf
  <2>4. \A x \in ToSet(tracked') : x < nextSeq'
    <3>1. \A x \in ToSet(tracked) : x < nextSeq  BY DEF Numbered
    <3> QED BY <2>1, <2>3, <3>1
  <2>5. \A i \in DOMAIN batch' :
          batch'[i].seq < nextSeq' /\ (batch'[i].seq # 0 => \A x \in ToSet(tracked') : x < batch'[i].seq)
    <3>1. \A i \in DOMAIN batch : batch[i].seq \in Nat
      <4>1. \A i \in DOMAIN batch : batch[i] \in Packet  BY PackedIsTyped
      <4> QED BY <4>1, Consts DEF Packet
    <3>2. \A i \in DOMAIN batch : batch[i].seq < nextSeq /\ (batch[i].seq # 0 => \A x \in ToSet(tracked) : x < batch[i].seq)
      BY DEF Numbered
    <3> QED BY <2>1, <2>3, <3>1, <3>2
  <2>6. \A i \in DOMAIN batch' : Carries(i)' =>
          /\ batch'[i].seq # 0 /\ sent'[Slot(batch'[i].seq)].seq = 0
          /\ \A j \in DOMAIN batch' : j # i /\ Carries(j)' => Slot(batch'[j].seq) # Slot(batch'[i].seq)
    BY DEF Numbered, Carries, Reliable
  <2>7. \A i, j \in DOMAIN batch' :
          i < j /\ batch'[i].seq # 0 /\ batch'[j].seq # 0 => batch'[i].seq < batch'[j].seq
    BY DEF Numbered
  <2> HIDE DEF Inv
  <2> QED BY <2>1, <2>2, <2>4, <2>5, <2>6, <2>7 DEF Numbered, Slot
<1>11. Booked'
  <2>1. Alive' = Alive /\ Gone' = Gone /\ Late' = Late /\ Lossy' = Lossy
    BY <1>5 DEF Alive, Gone, Late, Lossy, InRing
  <2> QED BY <2>1 DEF Booked, Reliable
<1>12. Traced'  BY DEF Traced, DoneArrived
<1> QED BY <1>3, <1>4, <1>6, <1>7, <1>8, <1>9, <1>10, <1>11, <1>12

LEMMA BlockReliableKeeps == ASSUME Inv, NEW f \in Flows, BlockReliable(f) PROVE Inv'
<1>1. /\ filling /\ MoveCursor(f) /\ blocked' = TRUE /\ tracked' = LiveTracked
      /\ nextSeq' = (IF WindowAllows(nextSeq) THEN nextSeq + SlotCount ELSE nextSeq) /\ nextSeq' <= MaxSeq
      /\ info' = info /\ queue' = queue /\ filling' = filling /\ firstSeq' = firstSeq /\ batch' = batch
      /\ sent' = sent /\ armed' = armed /\ lost' = lost /\ lateCount' = lateCount /\ wire' = wire
      /\ heard' = heard /\ done' = done /\ expired' = expired /\ dropped' = dropped
  BY DEF BlockReliable, Chosen, history
<1>2. cursor' \in Flows  BY <1>1, CursorStays DEF Inv
<1>3. Typed  BY DEF Inv
<1>4. nextSeq \in Nat /\ nextSeq >= 1 /\ MaxSeq \in Nat /\ SlotCount \in Nat  BY <1>3, Consts DEF Typed
<1>5. nextSeq' \in 1..(MaxSeq + 1) /\ nextSeq <= nextSeq'  BY <1>1, <1>4
<1>6. heard' \subseteq Seqs /\ filling' \in BOOLEAN /\ firstSeq' \in 0..MaxSeq /\ blocked' \in BOOLEAN /\ filling'
  BY <1>1, <1>3 DEF Typed
<1> QED BY <1>1, <1>2, <1>5, <1>6, StillKeeps

LEMMA StartFlushEarlyKeeps == ASSUME Inv, StartFlushEarly PROVE Inv'
<1>1. /\ filling' = TRUE /\ blocked' = FALSE /\ firstSeq' = 0 /\ cursor' = cursor /\ nextSeq' = nextSeq
      /\ info' = info /\ queue' = queue /\ batch' = batch /\ tracked' = tracked
      /\ sent' = sent /\ armed' = armed /\ lost' = lost /\ lateCount' = lateCount /\ wire' = wire
      /\ heard' = heard /\ done' = done /\ expired' = expired /\ dropped' = dropped
  BY DEF StartFlushEarly, flight, history
<1>2. Typed  BY DEF Inv
<1>3. /\ cursor' \in Flows /\ filling' \in BOOLEAN /\ blocked' \in BOOLEAN /\ firstSeq' \in 0..MaxSeq /\ filling'
      /\ nextSeq' \in 1..(MaxSeq + 1) /\ nextSeq <= nextSeq' /\ heard' \subseteq Seqs
  <2>1. nextSeq \in 1..(MaxSeq + 1) /\ 0 \in 0..MaxSeq /\ \A x \in 1..(MaxSeq + 1) : x <= x
    BY <1>2, Consts DEF Typed
  <2> QED BY <1>1, <1>2, <2>1 DEF Typed
<1> QED BY <1>1, <1>3, StillKeeps

LEMMA PeerRecordsKeeps == ASSUME Inv, NEW seq \in Seqs, PeerRecords(seq) PROVE Inv'
<1>1. /\ filling' = filling /\ blocked' = blocked /\ firstSeq' = firstSeq /\ cursor' = cursor
      /\ nextSeq' = nextSeq /\ info' = info /\ queue' = queue /\ batch' = batch /\ tracked' = tracked
      /\ sent' = sent /\ armed' = armed /\ lost' = lost /\ lateCount' = lateCount /\ wire' = wire
      /\ heard' = heard \cup {seq} /\ done' = done /\ expired' = expired /\ dropped' = dropped
  BY DEF PeerRecords, flush, flight
<1>2. Typed  BY DEF Inv
<1>3. /\ cursor' \in Flows /\ filling' \in BOOLEAN /\ blocked' \in BOOLEAN /\ firstSeq' \in 0..MaxSeq
      /\ (~filling' => batch = <<>>)
      /\ nextSeq' \in 1..(MaxSeq + 1) /\ nextSeq <= nextSeq' /\ heard' \subseteq Seqs
  <2>1. nextSeq \in 1..(MaxSeq + 1) /\ 0 \in 0..MaxSeq /\ \A x \in 1..(MaxSeq + 1) : x <= x
    BY <1>2, Consts DEF Typed
  <2> QED BY <1>1, <1>2, <2>1 DEF Typed
<1>4. heard \subseteq heard'  BY <1>1
<1> QED BY <1>1, <1>3, <1>4, StillKeeps

LEMMA EmptyBatch ==
  ASSUME Typed, batch = <<>>
  PROVE  DOMAIN batch = {} /\ Packed = {} /\ InBatch = {}
<1>1. DOMAIN batch = {}  OBVIOUS
<1> QED BY <1>1 DEF Packed, InBatch

LEMMA SendKeeps ==
  ASSUME Inv, NEW f \in Flows, NEW kind \in Kinds, NEW replaced, Send(f, kind, replaced)
  PROVE  Inv'
<1> USE DEF Inv
<1> DEFINE src == IF kind = "unreliable" THEN "unreliable" ELSE "reliable"
           kept == Only(queue[f][src], Msgs \ replaced)
<1>0. PICK m : m = Len(info) + 1  OBVIOUS
<1>1. /\ ~filling /\ m <= MaxSent
      /\ replaced \subseteq (IF kind = "unreliable" THEN InRing(f, src) ELSE {})
      /\ Cardinality(Alive \ replaced) < MaxMessages /\ Len(kept) < RingCap
      /\ info' = Append(info, [flow |-> f, kind |-> kind])
      /\ queue' = [queue EXCEPT ![f][src] = Append(kept, m)]
      /\ expired' = expired \cup replaced
      /\ cursor' = cursor /\ filling' = filling /\ blocked' = blocked
      /\ firstSeq' = firstSeq /\ batch' = batch /\ nextSeq' = nextSeq
      /\ sent' = sent /\ tracked' = tracked /\ armed' = armed /\ lost' = lost /\ lateCount' = lateCount
      /\ wire' = wire /\ heard' = heard /\ done' = done /\ dropped' = dropped
  BY <1>0 DEF Send, flush, flight
<1>2. batch = <<>>  BY <1>1 DEF Typed
<1>3. DOMAIN batch = {} /\ Packed = {} /\ InBatch = {} /\ batch' = <<>>
  BY <1>1, <1>2, EmptyBatch
<1>4. /\ src \in Sources /\ src # "retry" /\ (src = "unreliable" <=> kind = "unreliable")
      /\ replaced \subseteq InRing(f, src) /\ (replaced # {} => src = "unreliable")
  BY <1>1 DEF Sources
<1> HIDE DEF src
<1>5. /\ info \in Seq([flow : Flows, kind : Kinds]) /\ m \in Nat /\ m >= 1 /\ m \in Msgs
      /\ info' \in Seq([flow : Flows, kind : Kinds]) /\ Len(info') = m
      /\ DOMAIN info' = DOMAIN info \cup {m} /\ m \notin DOMAIN info /\ DOMAIN info = 1..(m - 1)
      /\ \A x \in DOMAIN info : info'[x] = info[x]
      /\ info'[m] = [flow |-> f, kind |-> kind]
  <2>1. info \in Seq([flow : Flows, kind : Kinds]) /\ MaxSent \in Nat  BY Consts DEF Typed
  <2> DEFINE R == [flow : Flows, kind : Kinds]
             r == [flow |-> f, kind |-> kind]
  <2>2. r \in R /\ info \in Seq(R) /\ info' = Append(info, r)  BY <1>1, <2>1
  <2> HIDE DEF R, r
  <2>3. /\ info' \in Seq(R) /\ Len(info') = Len(info) + 1 /\ Len(info) \in Nat /\ DOMAIN info = 1..Len(info)
        /\ \A x \in 1..Len(info) : info'[x] = info[x]
        /\ info'[Len(info) + 1] = r /\ DOMAIN info' = 1..(Len(info) + 1)
    BY <2>2
  <2> QED BY <1>0, <1>1, <2>1, <2>3 DEF R, r, Msgs
<1>6. /\ \A x \in DOMAIN info : (Reliable(x)' <=> Reliable(x)) /\ info'[x].flow = info[x].flow
      /\ (Reliable(m)' <=> kind # "unreliable") /\ info'[m].flow = f
  BY <1>5 DEF Reliable
<1> DEFINE q == queue[f][src]
<1>7. /\ q \in Seq(Msgs) /\ IsInjective(q) /\ ToSet(q) = InRing(f, src) /\ RingCap \in Nat
      /\ \A g \in Flows, t \in Sources : InRing(g, t) \subseteq DOMAIN info /\ InRing(g, t) \subseteq Queued
      /\ queue \in [Flows -> [Sources -> Seq(Msgs)]]
  <2>1. queue \in [Flows -> [Sources -> Seq(Msgs)]]  BY DEF Typed
  <2>2. q \in Seq(Msgs) /\ IsInjective(q) /\ ToSet(q) = InRing(f, src)  BY <1>4, <2>1 DEF RingsHold, InRing
  <2>3. \A g \in Flows, t \in Sources : InRing(g, t) \subseteq DOMAIN info /\ InRing(g, t) \subseteq Queued
    BY DEF RingsHold, Queued
  <2> QED BY <2>1, <2>2, <2>3, Consts
<1>8. kept = Only(q, Msgs \ replaced)  OBVIOUS
<1> HIDE DEF q, kept
<1>9. kept \in Seq(Msgs) /\ IsInjective(kept) /\ ToSet(kept) = InRing(f, src) \ replaced
  <2>1. ToSet(q) \in SUBSET Msgs  BY <1>7, ToSetOf
  <2>2. kept \in Seq(Msgs) /\ IsInjective(kept) /\ ToSet(kept) = ToSet(q) \cap (Msgs \ replaced)
    BY <1>7, <1>8, OnlyFacts
  <2> QED BY <1>7, <2>1, <2>2
<1> DEFINE z == Append(kept, m)
<1>10. /\ z \in Seq(Msgs) /\ IsInjective(z) /\ ToSet(z) = (InRing(f, src) \ replaced) \cup {m} /\ Len(z) <= RingCap
  <2>1. m \notin ToSet(kept)  BY <1>4, <1>5, <1>7, <1>9
  <2>2. Len(kept) \in Nat  BY <1>9, ToSetOf
  <2>3. z \in Seq(Msgs) /\ Len(z) = Len(kept) + 1 /\ ToSet(z) = ToSet(kept) \cup {m} /\ IsInjective(z)
    BY <1>5, <1>9, <2>1, AppendFacts
  <2> QED BY <1>1, <1>7, <1>9, <2>2, <2>3
<1>11. queue' = [queue EXCEPT ![f][src] = z]  BY <1>1
<1> HIDE DEF z
<1>12. /\ queue' \in [Flows -> [Sources -> Seq(Msgs)]] /\ queue'[f][src] = z
       /\ \A g \in Flows, t \in Sources : g # f \/ t # src => queue'[g][t] = queue[g][t]
  BY <1>4, <1>7, <1>10, <1>11
<1>13. /\ InRing(f, src)' = (InRing(f, src) \ replaced) \cup {m}
       /\ \A g \in Flows, t \in Sources : g # f \/ t # src => InRing(g, t)' = InRing(g, t)
  <2>1. PICK t0 : t0 = src  OBVIOUS
  <2>2. InRing(f, t0)' = ToSet(z)  BY <1>12, <2>1 DEF InRing
  <2>3. \A g \in Flows, t \in Sources : g # f \/ t # src => InRing(g, t)' = InRing(g, t)
    BY <1>12 DEF InRing
  <2>4. src' = src  BY DEF src
  <2> QED BY <1>10, <2>1, <2>2, <2>3, <2>4
<1>14. Typed'
  <2>1. replaced \subseteq DOMAIN info  BY <1>4, <1>7
  <2>2. (done \cup expired \cup dropped)' \subseteq DOMAIN info'  BY <1>1, <1>5, <2>1 DEF Typed
  <2>3. Len(info') <= MaxSent  BY <1>1, <1>5
  <2> QED BY <1>1, <1>5, <1>12, <2>2, <2>3 DEF Typed
<1>15. RingsHold'
  <2> SUFFICES ASSUME NEW g \in Flows, NEW t \in Sources
      PROVE /\ IsInjective(queue'[g][t]) /\ Len(queue'[g][t]) <= RingCap
            /\ \A x \in InRing(g, t)' :
                 x \in DOMAIN info' /\ info'[x].flow = g /\ (t = "unreliable" <=> ~Reliable(x)')
            /\ \A u \in Sources : u # t => InRing(g, t)' \cap InRing(g, u)' = {}
    BY DEF RingsHold
  <2>1. IsInjective(queue'[g][t]) /\ Len(queue'[g][t]) <= RingCap
    <3>1. CASE g = f /\ t = src  BY <1>10, <1>12, <3>1
    <3>2. CASE ~(g = f /\ t = src)
      <4>1. queue'[g][t] = queue[g][t]  BY <1>12, <3>2
      <4> QED BY <4>1 DEF RingsHold
    <3> QED BY <3>1, <3>2
  <2>2. \A y \in Sources : \A x \in InRing(g, y)' : x \in InRing(g, y) \/ (x = m /\ g = f /\ y = src)
    <3> TAKE y \in Sources
    <3>1. CASE g = f /\ y = src  BY <1>13, <3>1
    <3>2. CASE ~(g = f /\ y = src)  BY <1>13, <3>2
    <3> QED BY <3>1, <3>2
  <2>3. ASSUME NEW x \in InRing(g, t)'
        PROVE  x \in DOMAIN info' /\ info'[x].flow = g /\ (t = "unreliable" <=> ~Reliable(x)')
    <3>1. CASE x \in InRing(g, t)
      <4>1. x \in DOMAIN info /\ info[x].flow = g /\ (t = "unreliable" <=> ~Reliable(x))
        BY <3>1 DEF RingsHold
      <4> QED BY <1>5, <1>6, <4>1
    <3>2. CASE x = m /\ g = f /\ t = src  BY <1>4, <1>5, <1>6, <3>2
    <3> QED BY <2>2, <3>1, <3>2
  <2>4. ASSUME NEW u \in Sources, u # t, NEW x \in InRing(g, t)', x \in InRing(g, u)' PROVE FALSE
    <3>1. InRing(g, t) \cap InRing(g, u) = {}  BY <2>4 DEF RingsHold
    <3>2. m \notin InRing(g, t) /\ m \notin InRing(g, u)  BY <1>5, <1>7
    <3> QED BY <2>2, <2>4, <3>1, <3>2
  <2> QED BY <2>1, <2>3, <2>4
<1>16. InFlight' = InFlight /\ Packed' = {} /\ InBatch' = {}
  BY <1>1, <1>3 DEF InFlight, Packed, InBatch
<1>17. \A s \in SlotIds : \A x \in ToSet(sent[s].refs) : x \in DOMAIN info /\ Reliable(x)
  BY DEF SlotsHold
<1>18. InFlight \subseteq DOMAIN info /\ m \notin InFlight /\ \A x \in InFlight : Reliable(x)
  BY <1>5, <1>17 DEF InFlight
<1>19. \A x \in replaced : x \in DOMAIN info /\ ~Reliable(x) /\ x \in Queued
  BY <1>4, <1>7 DEF RingsHold
<1>20. Queued' = (Queued \ replaced) \cup {m}
  <2>1. ASSUME NEW x PROVE x \in Queued' <=> x \in (Queued \ replaced) \cup {m}
    <3>1. x \in Queued' <=> \E g \in Flows, t \in Sources : x \in InRing(g, t)'  BY DEF Queued
    <3>2. x \in Queued <=> \E g \in Flows, t \in Sources : x \in InRing(g, t)  BY DEF Queued
    <3>3. m \in InRing(f, src)'  BY <1>13
    <3>4. m \in Queued'
      <4>1. PICK t0 \in Sources : t0 = src  BY <1>4
      <4>2. src' = src  BY DEF src
      <4>3. m \in InRing(f, t0)'  BY <3>3, <4>1, <4>2
      <4> QED BY <4>3 DEF Queued
    <3>5. ASSUME x \in Queued', x # m PROVE x \in Queued /\ x \notin replaced
      <4>1. PICK g \in Flows, t \in Sources : x \in InRing(g, t)'  BY <3>1, <3>5
      <4>2. CASE g = f /\ t = src  BY <1>4, <1>13, <3>2, <3>5, <4>1, <4>2
      <4>3. CASE ~(g = f /\ t = src)
        <5>1. x \in InRing(g, t)  BY <1>13, <4>1, <4>3
        <5>2. ASSUME x \in replaced PROVE FALSE
          <6>1. x \in InRing(f, src) /\ info[x].flow = f  BY <1>4, <5>2 DEF RingsHold
          <6>2. g = f  BY <5>1, <6>1 DEF RingsHold
          <6>3. t # src  BY <4>3, <6>2
          <6>4. InRing(f, src) \cap InRing(f, t) = {}  BY <1>4, <6>3 DEF RingsHold
          <6> QED BY <5>1, <6>1, <6>2, <6>4
        <5> QED BY <3>2, <5>1, <5>2
      <4> QED BY <4>2, <4>3
    <3>6. ASSUME x \in Queued, x \notin replaced PROVE x \in Queued'
      <4>1. PICK g \in Flows, t \in Sources : x \in InRing(g, t)  BY <3>2, <3>6
      <4>2. CASE g = f /\ t = src
        <5>1. x \in InRing(f, src)'  BY <1>13, <3>6, <4>1, <4>2
        <5>2. src' = src  BY DEF src
        <5>3. x \in InRing(g, t)'  BY <4>2, <5>1, <5>2
        <5> QED BY <3>1, <5>3
      <4>3. CASE ~(g = f /\ t = src)  BY <1>13, <3>1, <4>1, <4>3
      <4> QED BY <4>2, <4>3
    <3> QED BY <3>4, <3>5, <3>6
  <2> QED BY <2>1
<1>21. Alive' = (Alive \ replaced) \cup {m}
  <2>1. InFlight \cap replaced = {}  BY <1>18, <1>19
  <2> QED BY <1>3, <1>16, <1>20, <2>1 DEF Alive
<1>22. BatchHolds'  BY <1>3, <1>16 DEF BatchHolds
<1>23. SlotsHold'
  <2>1. \A s \in SlotIds : \A x \in ToSet(sent'[s].refs) : x \in DOMAIN info' /\ Reliable(x)'
    BY <1>1, <1>5, <1>6, <1>17
  <2> QED BY <1>1, <2>1 DEF SlotsHold, Slot
<1>24. Apart'  BY <1>16, <1>18, <1>20 DEF Apart
<1>25. RoomLeft'
  <2>1. ASSUME NEW g \in Flows, NEW t \in Sources
        PROVE  Cardinality(InRing(g, t)' \cup TakenFrom(g, t)') <= RingCap
    <3>1. TakenFrom(g, t)' = {}  BY <1>16 DEF TakenFrom
    <3>2. CASE g = f /\ t = src
      <4>1. InRing(g, t)' = ToSet(z)
        <5>1. InRing(g, t)' = ToSet(queue'[g][t])  BY DEF InRing
        <5> QED BY <1>12, <3>2, <5>1
      <4>2. Cardinality(ToSet(z)) = Len(z)  BY <1>10, SizeOfInjective
      <4> QED BY <1>10, <3>1, <4>1, <4>2
    <3>3. CASE ~(g = f /\ t = src)
      <4>1. InRing(g, t)' = InRing(g, t) /\ TakenFrom(g, t) = {}  BY <1>3, <1>13, <3>3 DEF TakenFrom
      <4> QED BY <3>1, <4>1 DEF RoomLeft
    <3> QED BY <3>2, <3>3
  <2>2. Cardinality(Alive') <= MaxMessages
    <3>1. Alive \in SUBSET Msgs  BY PlacesAreMsgs
    <3> DEFINE A == Alive \ replaced
    <3>2. IsFiniteSet(A) /\ Cardinality(A) \in Nat /\ Cardinality(A) < MaxMessages /\ Alive' = A \cup {m}
      BY <1>1, <1>21, <3>1, MsgsAreFinite
    <3>3. MaxMessages \in Nat  BY Consts
    <3> HIDE DEF A
    <3>4. Cardinality(A \cup {m}) = IF m \in A THEN Cardinality(A) ELSE Cardinality(A) + 1
      BY <3>2, FS_AddElement
    <3> QED BY <3>2, <3>3, <3>4
  <2> QED BY <2>1, <2>2 DEF RoomLeft
<1>26. Numbered'
  <2>1. DOMAIN batch' = {}  BY <1>3
  <2> QED BY <1>1, <2>1 DEF Numbered
<1>27. Late' = Late  BY <1>1 DEF Late
<1>28. Booked'
  <2>1. Gone' = Gone \cup replaced /\ Gone \subseteq DOMAIN info  BY <1>1 DEF Gone, Typed
  <2>2. ASSUME NEW x \in DOMAIN info', Reliable(x)' PROVE x \in Alive' <=> x \notin Gone'
    <3>1. CASE x = m
      <4>1. m \notin Gone'  BY <1>5, <1>19, <2>1
      <4> QED BY <1>21, <3>1, <4>1
    <3>2. CASE x # m
      <4>1. x \in DOMAIN info /\ Reliable(x)  BY <1>5, <1>6, <2>2, <3>2
      <4>2. x \notin replaced  BY <1>19, <4>1
      <4> QED BY <1>21, <2>1, <3>2, <4>1, <4>2 DEF Booked
    <3> QED BY <3>1, <3>2
  <2>3. Lossy \subseteq Lossy'
    <3>1. \A g \in Flows : InRing(g, "retry")' = InRing(g, "retry")  BY <1>4, <1>13 DEF Sources
    <3>2. Lossy = InFlight \cup UNION {InRing(g, "retry") : g \in Flows}  BY <1>3 DEF Lossy
    <3>3. Lossy' = InFlight' \cup UNION {InRing(g, "retry")' : g \in Flows}  BY <1>16 DEF Lossy
    <3> QED BY <1>16, <3>1, <3>2, <3>3
  <2> QED BY <1>1, <1>27, <2>2, <2>3 DEF Booked
<1>29. Traced'
  BY <1>1 DEF Traced, DoneArrived
<1> HIDE DEF Inv
<1> QED BY <1>14, <1>15, <1>22, <1>23, <1>24, <1>25, <1>26, <1>28, <1>29 DEF Inv

(* The packets the socket takes, and the others.                            *)
Sure(k) == {i \in 1..k : Carries(i)}
EntriesOf(i) == ToSet(batch[i].items)
UnsentOf(k, f, src) ==
  {x.msg : x \in {y \in UNION {EntriesOf(i) : i \in (k + 1)..Len(batch)} : y.src = src /\ info[y.msg].flow = f}}

LEMMA BatchIsInjective ==
  ASSUME Inv
  PROVE  /\ batch \in Seq(Packet) /\ IsInjective(batch) /\ Len(batch) \in Nat /\ DOMAIN batch = 1..Len(batch)
         /\ \A i \in DOMAIN batch : batch[i] \in Packet /\ batch[i].seq \in Nat /\ batch[i].seq <= MaxSeq
<1>1. batch \in Seq(Packet)  BY DEF Inv, Typed
<1>2. Len(batch) \in Nat /\ DOMAIN batch = 1..Len(batch) /\ \A i \in DOMAIN batch : batch[i] \in Packet
  BY PackedIsTyped DEF Inv
<1>3. ASSUME NEW i \in DOMAIN batch, NEW j \in DOMAIN batch, batch[i] = batch[j] PROVE i = j
  <2> DEFINE e == batch[i].items
  <2>1. e \in Seq(Entry) /\ e # <<>>  BY PackedIsTyped DEF Inv, BatchHolds
  <2>2. e = batch[j].items  BY <1>3
  <2> HIDE DEF e
  <2>3. PICK x \in ToSet(e) : TRUE  BY <2>1, ToSetOf
  <2>4. x \in ToSet(batch[i].items) /\ x \in ToSet(batch[j].items)  BY <2>2, <2>3 DEF e
  <2> QED BY <2>4 DEF Inv, BatchHolds
<1>4. IsInjective(batch)  BY <1>3 DEF IsInjective
<1>5. \A i \in DOMAIN batch : batch[i].seq \in 0..MaxSeq  BY <1>2 DEF Packet
<1> QED BY <1>1, <1>2, <1>4, <1>5, Consts

LEMMA TookFacts ==
  ASSUME Inv, NEW k \in 0..Len(batch)
  PROVE  /\ Took(k) \in Seq(Packet) /\ Left(k) \in Seq(Packet) /\ IsInjective(Took(k))
         /\ Len(Took(k)) = k /\ Len(Left(k)) = Len(batch) - k /\ k \in Nat
         /\ \A i \in 1..k : i \in DOMAIN batch /\ Took(k)[i] = batch[i]
         /\ \A i \in 1..(Len(batch) - k) : k + i \in DOMAIN batch /\ Left(k)[i] = batch[k + i]
<1>1. batch \in Seq(Packet) /\ IsInjective(batch) /\ Len(batch) \in Nat /\ DOMAIN batch = 1..Len(batch)
  BY BatchIsInjective
<1>2. LET a == SubSeq(batch, 1, k)
          b == SubSeq(batch, k + 1, Len(batch))
      IN /\ a \in Seq(Packet) /\ b \in Seq(Packet) /\ Len(a) = k /\ Len(b) = Len(batch) - k
         /\ \A i \in 1..k : a[i] = batch[i]
         /\ \A i \in 1..(Len(batch) - k) : b[i] = batch[k + i]
         /\ ToSet(batch) = ToSet(a) \cup ToSet(b)
         /\ IsInjective(batch) => IsInjective(a) /\ IsInjective(b) /\ ToSet(a) \cap ToSet(b) = {}
         /\ Rising(batch) => Rising(a) /\ Rising(b) /\ \A x \in ToSet(a), y \in ToSet(b) : x < y
  <2> HIDE DEF Packet
  <2> QED BY <1>1, CutFacts
<1>3. k \in Nat /\ (\A i \in 1..k : i \in DOMAIN batch) /\ \A i \in 1..(Len(batch) - k) : k + i \in DOMAIN batch
  BY <1>1
<1> QED BY <1>1, <1>2, <1>3 DEF Took, Left

(* The recorded packets, in their order.                                    *)
LEMMA RecordedFacts ==
  ASSUME Inv, NEW k \in 0..Len(batch)
  PROVE  /\ Recorded(k) \in Seq(Packet) /\ IsInjective(Recorded(k))
         /\ ToSet(Recorded(k)) = {batch[i] : i \in Sure(k)}
         /\ Recorded(k) # <<>> <=> Sure(k) # {}
         /\ \A i, j \in 1..Len(Recorded(k)) : i < j => Recorded(k)[i].seq < Recorded(k)[j].seq
         /\ \A i \in Sure(k) : i \in DOMAIN batch /\ Carries(i) /\ batch[i].seq \in Nat /\ batch[i].seq # 0
                               /\ batch[i].seq \in Seqs /\ Slot(batch[i].seq) \in SlotIds
<1> DEFINE S == {p \in ToSet(batch) : PacketRefs(p) # <<>>}
           T == Took(k)
           Q == {z \in Packet \X Packet : z[1].seq < z[2].seq}
           n == Len(Recorded(k))
<1>1. /\ T \in Seq(Packet) /\ IsInjective(T) /\ Len(T) = k /\ k \in Nat
      /\ \A i \in 1..k : i \in DOMAIN batch /\ T[i] = batch[i]
  BY TookFacts
<1>2. \A i \in DOMAIN batch : /\ batch[i] \in Packet /\ batch[i] \in ToSet(batch)
                              /\ batch[i].seq \in Nat /\ batch[i].seq <= MaxSeq
                              /\ (PacketRefs(batch[i]) # <<>> <=> Carries(i))
  BY BatchIsInjective, PackedIsTyped DEF Inv, ToSet
<1>3. Recorded(k) = Only(T, S)  BY DEF Recorded
<1>4. \A i \in 1..k : T[i] \in S <=> Carries(i)  BY <1>1, <1>2
<1>5. \A i \in Sure(k) : i \in 1..k /\ Carries(i)  BY DEF Sure
<1>6. \A i \in DOMAIN batch : Carries(i) => batch[i].seq # 0  BY DEF Inv, Numbered
<1>7. ASSUME NEW i \in Sure(k)
      PROVE  /\ i \in DOMAIN batch /\ Carries(i) /\ batch[i].seq \in Nat /\ batch[i].seq # 0
             /\ batch[i].seq \in Seqs /\ Slot(batch[i].seq) \in SlotIds
  <2>1. i \in DOMAIN batch /\ Carries(i) /\ batch[i].seq \in Nat /\ batch[i].seq # 0 /\ batch[i].seq <= MaxSeq
    BY <1>1, <1>2, <1>5, <1>6
  <2>2. batch[i].seq \in Seqs  BY <2>1, Consts DEF Seqs
  <2> QED BY <2>1, <2>2, SlotIsSlot
<1> HIDE DEF T, S
<1>8. /\ Recorded(k) \in Seq(Packet) /\ IsInjective(Recorded(k)) /\ ToSet(Recorded(k)) = ToSet(T) \cap S
  <2> HIDE DEF Packet
  <2> QED BY <1>1, <1>3, OnlyFacts
<1>9. ToSet(T) \cap S = {batch[i] : i \in Sure(k)}
  <2>1. ToSet(T) = {T[i] : i \in 1..k}
    <3> HIDE DEF Packet
    <3> QED BY <1>1, ToSetOf
  <2>2. \A p : p \in ToSet(T) \cap S <=> \E i \in 1..k : p = T[i] /\ T[i] \in S  BY <2>1
  <2>3. \A p : p \in {batch[i] : i \in Sure(k)} <=> \E i \in 1..k : p = batch[i] /\ Carries(i)
    BY DEF Sure
  <2>4. \A i \in 1..k : T[i] = batch[i] /\ (T[i] \in S <=> Carries(i))  BY <1>1, <1>4
  <2>5. \A p : p \in ToSet(T) \cap S <=> p \in {batch[i] : i \in Sure(k)}
    BY ONLY <2>2, <2>3, <2>4
  <2> QED BY <2>5
<1>10. Recorded(k) # <<>> <=> Sure(k) # {}
  <2>1. Recorded(k) # <<>> <=> ToSet(Recorded(k)) # {}
    <3> HIDE DEF Packet
    <3> QED BY <1>8, ToSetOf
  <2> QED BY <1>8, <1>9, <2>1
<1>11. \A i, j \in 1..k : i < j /\ T[i] \in S /\ T[j] \in S => <<T[i], T[j]>> \in Q
  <2> SUFFICES ASSUME NEW i \in 1..k, NEW j \in 1..k, i < j, T[i] \in S, T[j] \in S PROVE <<T[i], T[j]>> \in Q
    OBVIOUS
  <2>1. i \in DOMAIN batch /\ j \in DOMAIN batch /\ batch[i].seq # 0 /\ batch[j].seq # 0
    BY <1>1, <1>4, <1>6
  <2>2. batch[i].seq < batch[j].seq  BY <2>1 DEF Inv, Numbered
  <2>3. batch[i] \in Packet /\ batch[j] \in Packet  BY <1>2, <2>1
  <2>4. T[i] = batch[i] /\ T[j] = batch[j]  BY <1>1
  <2> HIDE DEF Packet
  <2> QED BY <2>2, <2>3, <2>4
<1>12. \A i, j \in 1..n : i < j => <<Recorded(k)[i], Recorded(k)[j]>> \in Q
  <2> HIDE DEF Q, Packet
  <2>1. \A i, j \in 1..Len(T) : i < j /\ T[i] \in S /\ T[j] \in S => <<T[i], T[j]>> \in Q
    BY <1>1, <1>11
  <2>2. \A i, j \in 1..Len(Only(T, S)) : i < j => <<Only(T, S)[i], Only(T, S)[j]>> \in Q
    BY <1>1, <2>1, OnlyOrder
  <2> QED BY <1>3, <2>2
<1>13. \A i, j \in 1..n : i < j => Recorded(k)[i].seq < Recorded(k)[j].seq
  <2> HIDE DEF Packet, n
  <2> QED BY <1>12
<1> QED BY <1>7, <1>8, <1>9, <1>10, <1>13

(* record_sent_packet                                                       *)
LEMMA SentAfterFacts ==
  ASSUME Inv, NEW k \in 0..Len(batch)
  PROVE  /\ DOMAIN SentAfter(k) = SlotIds
         /\ \A s \in SlotIds : (\A i \in Sure(k) : Slot(batch[i].seq) # s) => SentAfter(k)[s] = sent[s]
         /\ \A i \in Sure(k) : SentAfter(k)[Slot(batch[i].seq)] =
                                 [seq |-> batch[i].seq, refs |-> PacketRefs(batch[i])]
<1> DEFINE R == Recorded(k)
           Mine(s) == {i \in DOMAIN R : Slot(R[i].seq) = s}
           Latest(s) == CHOOSE i \in Mine(s) : \A j \in Mine(s) : j <= i
<1>1. SentAfter(k) = [s \in SlotIds |->
                        IF Mine(s) = {} THEN sent[s]
                        ELSE [seq |-> R[Latest(s)].seq, refs |-> PacketRefs(R[Latest(s)])]]
  BY DEF SentAfter
<1>2. /\ R \in Seq(Packet) /\ IsInjective(R) /\ ToSet(R) = {batch[i] : i \in Sure(k)}
      /\ \A i \in Sure(k) : i \in DOMAIN batch /\ Carries(i) /\ Slot(batch[i].seq) \in SlotIds
  BY RecordedFacts
<1> HIDE DEF R
<1>3. DOMAIN R = 1..Len(R) /\ Len(R) \in Nat /\ ToSet(R) = {R[i] : i \in DOMAIN R}
  <2> HIDE DEF Packet
  <2> QED BY <1>2, ToSetOf
<1>4. ASSUME NEW s \in SlotIds, \A i \in Sure(k) : Slot(batch[i].seq) # s PROVE SentAfter(k)[s] = sent[s]
  <2>1. \A i \in DOMAIN R : \E j \in Sure(k) : R[i] = batch[j]  BY <1>2, <1>3
  <2>2. Mine(s) = {}  BY <1>4, <2>1
  <2> HIDE DEF Mine, Latest
  <2> QED BY <1>1, <2>2
<1>5. ASSUME NEW i \in Sure(k)
      PROVE  SentAfter(k)[Slot(batch[i].seq)] = [seq |-> batch[i].seq, refs |-> PacketRefs(batch[i])]
  <2> DEFINE s == Slot(batch[i].seq)
  <2>1. PICK a \in DOMAIN R : R[a] = batch[i]  BY <1>2, <1>3
  <2>2. a \in Mine(s)  BY <2>1
  <2>3. ASSUME NEW b \in Mine(s) PROVE b = a
    <3>1. b \in DOMAIN R /\ Slot(R[b].seq) = s  OBVIOUS
    <3>2. PICK j \in Sure(k) : R[b] = batch[j]  BY <1>2, <1>3, <3>1
    <3>3. Slot(batch[j].seq) = Slot(batch[i].seq)  BY <3>1, <3>2
    <3>4. j = i  BY <1>2, <3>3 DEF Inv, Numbered
    <3>5. R[b] = R[a]  BY <2>1, <3>2, <3>4
    <3> QED BY <1>2, <2>1, <3>1, <3>5 DEF IsInjective
  <2>4. a \in Int  BY <1>3, <2>1
  <2> HIDE DEF Mine
  <2>5. Latest(s) = a
    <3>1. \A j \in Mine(s) : j <= a  BY <2>3, <2>4
    <3>2. Latest(s) \in Mine(s)  BY <2>2, <3>1
    <3> QED BY <2>3, <3>2
  <2>6. Mine(s) # {} /\ s \in SlotIds  BY <1>2, <2>2
  <2> HIDE DEF Latest, s
  <2>7. SentAfter(k)[s] = [seq |-> R[a].seq, refs |-> PacketRefs(R[a])]  BY <1>1, <2>5, <2>6
  <2> QED BY <2>1, <2>7 DEF s
<1> QED BY <1>1, <1>4, <1>5

(* Later numbers put after earlier ones                                     *)
LEMMA ConcatRising ==
  ASSUME NEW s \in Seq(Seqs), NEW t \in Seq(Seqs), NEW A, NEW B,
         ToSet(s) = A, ToSet(t) = B, Rising(s), Rising(t), \A x \in A, y \in B : x < y
  PROVE  s \o t \in Seq(Seqs) /\ Rising(s \o t) /\ ToSet(s \o t) = A \cup B
<1>1. Seqs \subseteq Int  BY Consts DEF Seqs
<1>2. s \o t \in Seq(Seqs) /\ ToSet(s \o t) = A \cup B  BY ConcatFacts
<1>3. \A x \in ToSet(s), y \in ToSet(t) : x < y  OBVIOUS
<1>4. Rising(s \o t)  BY <1>1, <1>3, ConcatFacts
<1> QED BY <1>2, <1>4

(* track_reliable_seq: there is room for each packet in flight.             *)
LEMMA TrackedAfterFacts ==
  ASSUME Inv, NEW k \in 0..Len(batch)
  PROVE  /\ TrackedAfter(k) \in Seq(Seqs) /\ Rising(TrackedAfter(k)) /\ Len(TrackedAfter(k)) <= SlotCount
         /\ UsedSeqs \cup {batch[i].seq : i \in Sure(k)} \subseteq ToSet(TrackedAfter(k))
         /\ ToSet(TrackedAfter(k)) \subseteq ToSet(tracked) \cup {batch[i].seq : i \in Sure(k)}
<1> DEFINE R == Recorded(k)
           fresh == [i \in DOMAIN R |-> R[i].seq]
           N == {batch[i].seq : i \in Sure(k)}
<1>1. /\ R \in Seq(Packet) /\ ToSet(R) = {batch[i] : i \in Sure(k)}
      /\ \A i, j \in 1..Len(R) : i < j => R[i].seq < R[j].seq
      /\ \A i \in Sure(k) : i \in DOMAIN batch /\ Carries(i) /\ batch[i].seq \in Nat /\ batch[i].seq # 0
                            /\ batch[i].seq \in Seqs /\ Slot(batch[i].seq) \in SlotIds
  BY RecordedFacts
<1> HIDE DEF R
<1>2. DOMAIN R = 1..Len(R) /\ Len(R) \in Nat /\ ToSet(R) = {R[i] : i \in 1..Len(R)}
  <2> HIDE DEF Packet
  <2> QED BY <1>1, ToSetOf
<1>3. \A i \in 1..Len(R) : \E j \in Sure(k) : R[i] = batch[j]  BY <1>1, <1>2
<1>4. \A i \in 1..Len(R) : R[i].seq \in Seqs  BY <1>1, <1>3
<1>5. fresh \in Seq(Seqs) /\ DOMAIN fresh = 1..Len(R) /\ \A i \in 1..Len(R) : fresh[i] = R[i].seq
  BY <1>2, <1>4
<1>6. Len(fresh) = Len(R)  BY <1>2, <1>5, ToSetOf
<1> HIDE DEF fresh
<1>7. ToSet(fresh) = N
  <2>1. ToSet(fresh) = {fresh[i] : i \in 1..Len(R)}  BY <1>5, <1>6, ToSetOf
  <2>2. \A q : q \in ToSet(fresh) <=> \E i \in 1..Len(R) : q = R[i].seq  BY <1>5, <2>1
  <2>3. \A j \in Sure(k) : \E i \in 1..Len(R) : R[i] = batch[j]  BY <1>1, <1>2
  <2>4. ASSUME NEW q \in ToSet(fresh) PROVE q \in N
    <3>1. PICK i \in 1..Len(R) : q = R[i].seq  BY <2>2
    <3>2. PICK j \in Sure(k) : R[i] = batch[j]  BY <1>3
    <3> QED BY <3>1, <3>2
  <2>5. ASSUME NEW j \in Sure(k) PROVE batch[j].seq \in ToSet(fresh)
    <3>1. PICK i \in 1..Len(R) : R[i] = batch[j]  BY <2>3
    <3> QED BY <2>2, <3>1
  <2> QED BY <2>4, <2>5
<1>8. Rising(fresh)  BY <1>1, <1>5 DEF Rising
<1>9. /\ LiveTracked \in Seq(Seqs) /\ Rising(LiveTracked) /\ ToSet(LiveTracked) = UsedSeqs
      /\ UsedSeqs \subseteq ToSet(tracked)
      /\ \A q \in UsedSeqs : q \in Seqs /\ Slot(q) \in SlotIds /\ sent[Slot(q)].seq = q
  BY LiveFacts DEF Inv
<1>10. tracked \in Seq(Seqs) /\ Rising(tracked)  BY DEF Inv, Typed, Numbered
<1>11. \A x \in ToSet(tracked), y \in N : x < y
  <2>1. \A i \in DOMAIN batch : batch[i].seq # 0 => \A q \in ToSet(tracked) : q < batch[i].seq
    BY DEF Inv, Numbered
  <2> QED BY <1>1, <2>1
<1>12. Seqs \subseteq Int /\ SlotCount \in Nat  BY Consts DEF Seqs
<1> DEFINE a == tracked \o fresh
           b == LiveTracked \o fresh
<1>13. a \in Seq(Seqs) /\ Rising(a) /\ ToSet(a) = ToSet(tracked) \cup N /\ Len(a) \in Nat
  <2> HIDE DEF N
  <2>1. a \in Seq(Seqs) /\ Rising(a) /\ ToSet(a) = ToSet(tracked) \cup N
    BY <1>5, <1>7, <1>8, <1>10, <1>11, ConcatRising
  <2> HIDE DEF a
  <2> QED BY <2>1, ToSetOf
<1>14. b \in Seq(Seqs) /\ Rising(b) /\ ToSet(b) = UsedSeqs \cup N
  <2> HIDE DEF N
  <2>1. \A x \in UsedSeqs, y \in N : x < y  BY <1>9, <1>11
  <2> QED BY <1>5, <1>7, <1>8, <1>9, <2>1, ConcatRising
<1> HIDE DEF a, b
<1>15. Len(b) <= SlotCount /\ Len(b) \in Nat
  <2> DEFINE B == UsedSeqs \cup N
             h == [q \in B |-> Slot(q)]
  <2>1. \A q \in B : Slot(q) \in SlotIds  BY <1>1, <1>9
  <2>2. ASSUME NEW q \in B, NEW r \in B, Slot(q) = Slot(r) PROVE q = r
    <3>1. CASE q \in UsedSeqs /\ r \in UsedSeqs
      BY <1>9, <2>2, <3>1
    <3>2. CASE q \in N /\ r \in N
      <4>1. PICK i \in Sure(k), j \in Sure(k) : q = batch[i].seq /\ r = batch[j].seq  BY <3>2
      <4>2. i = j  BY <1>1, <2>2, <4>1 DEF Inv, Numbered
      <4> QED BY <4>1, <4>2
    <3>3. ASSUME NEW u \in UsedSeqs, NEW v \in N PROVE Slot(u) # Slot(v)
      <4>1. sent[Slot(u)].seq = u /\ u # 0  BY <1>9 DEF UsedSeqs
      <4>2. PICK i \in Sure(k) : v = batch[i].seq  OBVIOUS
      <4>3. sent[Slot(v)].seq = 0  BY <1>1, <4>2 DEF Inv, Numbered
      <4> QED BY <4>1, <4>3
    <3> QED BY <2>2, <3>1, <3>2, <3>3
  <2> HIDE DEF B
  <2>3. h \in Injection(B, SlotIds)
    <3>1. h \in [B -> SlotIds]  BY <2>1
    <3>2. \A q, r \in B : h[q] = h[r] => q = r  BY <2>2
    <3> QED BY <3>1, <3>2 DEF Injection, IsInjective
  <2>4. IsFiniteSet(SlotIds) /\ Cardinality(SlotIds) = SlotCount
    <3>1. 0 \in Int /\ SlotCount - 1 \in Int /\ SlotCount \in Nat \ {0}  BY Consts
    <3>2. /\ IsFiniteSet(0..(SlotCount - 1))
          /\ Cardinality(0..(SlotCount - 1)) = IF 0 > SlotCount - 1 THEN 0 ELSE (SlotCount - 1) - 0 + 1
      BY <3>1, FS_Interval
    <3> QED BY <3>1, <3>2 DEF SlotIds
  <2>5. Cardinality(B) <= Cardinality(SlotIds)
    <3> HIDE DEF h
    <3> QED BY <2>3, <2>4, FS_Injection
  <2>6. Cardinality(B) = Len(b)
    <3>1. IsInjective(b)  BY <1>12, <1>14, RisingIsInjective
    <3> QED BY <1>14, <3>1, SizeOfInjective DEF B
  <2>7. Len(b) \in Nat  BY <1>14, ToSetOf
  <2> QED BY <2>4, <2>5, <2>6, <2>7
<1>16. LastOf(SlotCount, b) = b  BY <1>12, <1>14, <1>15, LastOfFacts
<1>17. TrackedAfter(k) = IF Len(a) <= SlotCount THEN a ELSE LastOf(SlotCount, b)
  BY DEF TrackedAfter, a, b, fresh, R
<1>18. CASE Len(a) <= SlotCount
  <2>1. TrackedAfter(k) = a  BY <1>17, <1>18
  <2> QED BY <1>9, <1>13, <1>18, <2>1
<1>19. CASE ~(Len(a) <= SlotCount)
  <2>1. TrackedAfter(k) = b  BY <1>16, <1>17, <1>19
  <2> QED BY <1>9, <1>14, <1>15, <2>1
<1> QED BY <1>18, <1>19

(* requeue_unsent_packet                                                    *)
LEMMA UnsentFacts ==
  ASSUME Inv, NEW k \in 0..Len(batch), NEW f \in Flows, NEW src \in Sources
  PROVE  /\ Unsent(k, f, src) \in Seq(Msgs) /\ IsInjective(Unsent(k, f, src))
         /\ ToSet(Unsent(k, f, src)) = UnsentOf(k, f, src)
         /\ UnsentOf(k, f, src) \subseteq TakenFrom(f, src)
<1> DEFINE L == Left(k)
           ss == [i \in DOMAIN L |-> L[i].items]
           S == {x \in [msg : DOMAIN info, src : {src}] : info[x.msg].flow = f}
           n == Len(batch) - k
           U == UNION {EntriesOf(i) : i \in (k + 1)..Len(batch)}
<1>1. /\ L \in Seq(Packet) /\ Len(L) = n /\ k \in Nat /\ Len(batch) \in Nat
      /\ \A i \in 1..n : k + i \in DOMAIN batch /\ L[i] = batch[k + i]
  BY TookFacts, BatchIsInjective
<1>2. DOMAIN L = 1..n /\ n \in Nat
  <2> HIDE DEF Packet, L
  <2> QED BY <1>1, ToSetOf
<1>3. \A i \in DOMAIN batch : batch[i].items \in Seq(Entry) /\ IsInjective(batch[i].items)
                              /\ ToSet(batch[i].items) \subseteq Packed
  BY PackedIsTyped DEF Inv, BatchHolds
<1> HIDE DEF L, n
<1>4. ss \in Seq(Seq(Entry)) /\ Len(ss) = n /\ \A i \in 1..n : ss[i] = batch[k + i].items
  BY <1>1, <1>2, <1>3
<1> HIDE DEF ss
<1>5. \A i \in 1..n : IsInjective(ss[i])  BY <1>1, <1>3, <1>4
<1>6. ASSUME NEW i \in 1..n, NEW j \in 1..n, i # j PROVE ToSet(ss[i]) \cap ToSet(ss[j]) = {}
  <2>1. k + i # k + j /\ k + i \in DOMAIN batch /\ k + j \in DOMAIN batch  BY <1>1, <1>2, <1>6
  <2>2. \A x \in ToSet(batch[k + i].items), y \in ToSet(batch[k + j].items) :
          x.msg = y.msg => x = y /\ k + i = k + j
    BY <2>1 DEF Inv, BatchHolds
  <2> QED BY <1>4, <2>1, <2>2
<1> DEFINE F == FlattenSeq(ss)
<1>7. F \in Seq(Entry) /\ IsInjective(F) /\ ToSet(F) = UNION {ToSet(ss[i]) : i \in 1..n}
  BY <1>4, <1>5, <1>6, FlattenFacts
<1>8. UNION {ToSet(ss[i]) : i \in 1..n} = U
  <2>1. \A x : x \in U <=> \E i \in (k + 1)..Len(batch) : x \in ToSet(batch[i].items)  BY DEF EntriesOf
  <2>2. \A x : x \in UNION {ToSet(ss[i]) : i \in 1..n} <=> \E i \in 1..n : x \in ToSet(batch[k + i].items)
    BY <1>4
  <2>3. ASSUME NEW i \in (k + 1)..Len(batch) PROVE i - k \in 1..n /\ k + (i - k) = i
    BY <1>1 DEF n
  <2>4. ASSUME NEW i \in 1..n PROVE k + i \in (k + 1)..Len(batch)
    BY <1>1 DEF n
  <2> HIDE DEF U
  <2>5. ASSUME NEW x PROVE x \in U <=> x \in UNION {ToSet(ss[i]) : i \in 1..n}
    <3>1. ASSUME x \in U PROVE x \in UNION {ToSet(ss[i]) : i \in 1..n}
      <4>1. PICK i \in (k + 1)..Len(batch) : x \in ToSet(batch[i].items)  BY <2>1, <3>1
      <4>2. i - k \in 1..n /\ x \in ToSet(batch[k + (i - k)].items)  BY <2>3, <4>1
      <4> QED BY <2>2, <4>2
    <3>2. ASSUME x \in UNION {ToSet(ss[i]) : i \in 1..n} PROVE x \in U
      <4>1. PICK i \in 1..n : x \in ToSet(batch[k + i].items)  BY <2>2, <3>2
      <4>2. k + i \in (k + 1)..Len(batch)  BY <2>4
      <4> QED BY <2>1, <4>1, <4>2
    <3> QED BY <3>1, <3>2
  <2> QED BY <2>5
<1>9. Unsent(k, f, src) = MsgSeq(Only(F, S))  BY DEF Unsent, MsgSeq, F, ss, L
<1>10. U \subseteq Packed
  <2>1. \A i \in (k + 1)..Len(batch) : i \in DOMAIN batch  BY <1>1, PackedIsTyped DEF Inv
  <2> QED BY <2>1 DEF EntriesOf, Packed
<1> HIDE DEF F, S
<1> DEFINE it == Only(F, S)
<1>11. it \in Seq(Entry) /\ IsInjective(it) /\ ToSet(it) = U \cap S
  <2> HIDE DEF U
  <2> QED BY <1>7, <1>8, OnlyFacts
<1>12. \A x, y \in ToSet(it) : x.msg = y.msg => x = y
  <2>1. \A x, y \in Packed : x.msg = y.msg => x = y  BY DEF Inv, BatchHolds, Packed
  <2>2. ToSet(it) \subseteq Packed
    <3> HIDE DEF U, it
    <3> QED BY <1>10, <1>11
  <2> HIDE DEF it
  <2> QED BY <2>1, <2>2
<1>13. \A x \in Entry : x.msg \in Msgs  BY DEF Entry
<1> HIDE DEF it
<1>14. MsgSeq(it) \in Seq(Msgs) /\ IsInjective(MsgSeq(it)) /\ ToSet(MsgSeq(it)) = {x.msg : x \in ToSet(it)}
  BY <1>11, <1>12, <1>13, MsgsOf
<1>15. {x.msg : x \in ToSet(it)} = UnsentOf(k, f, src)
  <2>1. \A x \in Packed : x \in Entry /\ x.msg \in DOMAIN info  BY PackedIsTyped DEF Inv, BatchHolds
  <2>2. \A x \in Entry : x.msg \in DOMAIN info /\ x.src = src => x \in [msg : DOMAIN info, src : {src}]
    BY DEF Entry
  <2>3. \A x \in U : x \in S <=> x.src = src /\ info[x.msg].flow = f
    <3> HIDE DEF U, Entry
    <3> QED BY <1>10, <2>1, <2>2 DEF S
  <2>4. UnsentOf(k, f, src) = {x.msg : x \in {y \in U : y.src = src /\ info[y.msg].flow = f}}
    BY DEF UnsentOf
  <2> HIDE DEF U
  <2> QED BY <1>11, <2>3, <2>4
<1>16. UnsentOf(k, f, src) \subseteq TakenFrom(f, src)
  <2>1. UnsentOf(k, f, src) = {x.msg : x \in {y \in U : y.src = src /\ info[y.msg].flow = f}}
    BY DEF UnsentOf
  <2> HIDE DEF U
  <2> QED BY <1>10, <2>1 DEF TakenFrom
<1> QED BY <1>9, <1>14, <1>15, <1>16 DEF it

LEMMA RequeuedFacts ==
  ASSUME Inv, NEW k \in 0..Len(batch), NEW f \in Flows, NEW src \in Sources
  PROVE  /\ Requeued(k, f, src) \in Seq(Msgs) /\ IsInjective(Requeued(k, f, src))
         /\ Len(Requeued(k, f, src)) <= RingCap
         /\ ToSet(Requeued(k, f, src)) = InRing(f, src) \cup UnsentOf(k, f, src)
         /\ ToSet(Unsent(k, f, src)) \subseteq ToSet(Requeued(k, f, src))
<1> DEFINE u == Unsent(k, f, src)
           q == queue[f][src]
           w == u \o q
<1>1. /\ u \in Seq(Msgs) /\ IsInjective(u) /\ ToSet(u) = UnsentOf(k, f, src)
      /\ UnsentOf(k, f, src) \subseteq TakenFrom(f, src)
  BY UnsentFacts
<1>2. q \in Seq(Msgs) /\ IsInjective(q) /\ ToSet(q) = InRing(f, src) /\ RingCap \in Nat
  BY Consts DEF Inv, Typed, RingsHold, InRing
<1>3. TakenFrom(f, src) \subseteq InBatch /\ InRing(f, src) \subseteq Queued /\ Queued \cap InBatch = {}
  BY PackedIsTyped DEF Inv, TakenFrom, Queued, Apart
<1>4. Requeued(k, f, src) = LastOf(RingCap, w)  BY DEF Requeued
<1> HIDE DEF u, q
<1>5. w \in Seq(Msgs) /\ IsInjective(w) /\ ToSet(w) = InRing(f, src) \cup UnsentOf(k, f, src)
  <2>1. ToSet(u) \cap ToSet(q) = {}  BY <1>1, <1>2, <1>3
  <2>2. w \in Seq(Msgs) /\ IsInjective(w) /\ ToSet(w) = ToSet(u) \cup ToSet(q)
    BY <1>1, <1>2, <2>1, ConcatFacts
  <2> QED BY <1>1, <1>2, <2>2
<1> HIDE DEF w
<1>6. Len(w) <= RingCap
  <2> DEFINE A == InRing(f, src) \cup TakenFrom(f, src)
             B == InRing(f, src) \cup UnsentOf(k, f, src)
  <2>1. A \in SUBSET Msgs /\ B \in SUBSET A /\ Cardinality(A) <= RingCap
    BY <1>1, PlacesAreMsgs DEF Inv, RoomLeft
  <2> HIDE DEF A, B
  <2>2. Cardinality(B) <= RingCap  BY <1>2, <2>1, SubsetFits
  <2>3. Cardinality(ToSet(w)) = Len(w)  BY <1>5, SizeOfInjective
  <2> QED BY <1>5, <2>2, <2>3 DEF B
<1>7. LastOf(RingCap, w) = w  BY <1>2, <1>5, <1>6, LastOfFacts
<1> QED BY <1>1, <1>4, <1>5, <1>6, <1>7 DEF u

LEMMA SendBatchKeeps ==
  ASSUME Inv, NEW k \in 0..Len(batch), SendBatch(k), filling' \in BOOLEAN,
         info' = info, cursor' = cursor, blocked' = blocked, firstSeq' = firstSeq, nextSeq' = nextSeq,
         lost' = lost, lateCount' = lateCount, heard' = heard, done' = done, expired' = expired
  PROVE  Inv'
<1> USE DEF Inv
<1>1. /\ queue' = [f \in Flows |-> [src \in Sources |-> Requeued(k, f, src)]]
      /\ sent' = SentAfter(k) /\ tracked' = TrackedAfter(k)
      /\ armed' = (armed \/ Recorded(k) # <<>>)
      /\ dropped' = dropped \cup {m \in Crowded(k) : Reliable(m)}
      /\ wire' = [s \in Seqs |->
                    wire[s] \cup UNION {Items(batch[i]) : i \in {j \in 1..k : batch[j].seq = s}}]
      /\ batch' = <<>>
  BY DEF SendBatch
<1>2. /\ batch \in Seq(Packet) /\ Len(batch) \in Nat /\ DOMAIN batch = 1..Len(batch) /\ k \in Nat
      /\ \A i \in DOMAIN batch :
           /\ batch[i] \in Packet /\ ItemsApart(batch[i]) /\ batch[i].items \in Seq(Entry)
           /\ Items(batch[i]) = {x.msg : x \in EntriesOf(i)} /\ EntriesOf(i) \subseteq Packed
           /\ IsInjective(batch[i].items) /\ Len(batch[i].items) <= RefsPerPacket
  BY PackedIsTyped DEF EntriesOf, BatchHolds, Typed
<1>3. \A i \in Sure(k) : /\ i \in DOMAIN batch /\ Carries(i) /\ batch[i].seq \in Nat /\ batch[i].seq # 0
                         /\ batch[i].seq \in Seqs /\ Slot(batch[i].seq) \in SlotIds /\ i \in 1..k
  BY RecordedFacts DEF Sure
<1>4. ASSUME NEW i \in DOMAIN batch
      PROVE  /\ PacketRefs(batch[i]) \in Seq(Msgs) /\ IsInjective(PacketRefs(batch[i]))
             /\ ToSet(PacketRefs(batch[i])) = {m \in Items(batch[i]) : Reliable(m)}
             /\ Len(PacketRefs(batch[i])) <= RefsPerPacket
             /\ (PacketRefs(batch[i]) # <<>> <=> Carries(i))
             /\ Items(batch[i]) \in SUBSET Msgs
  <2>1. batch[i] \in Packet /\ ItemsApart(batch[i])  BY <1>2
  <2> DEFINE p == batch[i]
  <2>2. p \in Packet /\ ItemsApart(p)  BY <2>1
  <2> HIDE DEF p
  <2>3. /\ PacketRefs(p) \in Seq(Msgs) /\ IsInjective(PacketRefs(p))
        /\ ToSet(PacketRefs(p)) = {m \in Items(p) : Reliable(m)}
        /\ Len(PacketRefs(p)) <= Len(p.items)
        /\ PacketRefs(p) # <<>> <=> \E x \in ToSet(p.items) : Reliable(x.msg)
        /\ Items(p) \in SUBSET Msgs /\ p.items \in Seq(Entry)
    BY <2>2, RefsOfPacket
  <2>4. Len(PacketRefs(p)) <= RefsPerPacket
    <3>1. Len(p.items) <= RefsPerPacket  BY <1>2 DEF p
    <3> DEFINE x == Len(PacketRefs(p))
               y == Len(p.items)
    <3>2. x \in Nat /\ y \in Nat  BY <2>3, ToSetOf
    <3>3. x <= y /\ y <= RefsPerPacket /\ RefsPerPacket \in Nat  BY <2>3, <3>1, Consts
    <3> HIDE DEF x, y
    <3>4. x <= RefsPerPacket  BY <3>2, <3>3
    <3> QED BY <3>4 DEF x
  <2>5. PacketRefs(p) # <<>> <=> Carries(i)  BY <2>3 DEF Carries, p
  <2> QED BY <2>3, <2>4, <2>5 DEF p
<1>5. /\ DOMAIN sent' = SlotIds
      /\ \A s \in SlotIds : (\A i \in Sure(k) : Slot(batch[i].seq) # s) => sent'[s] = sent[s]
      /\ \A i \in Sure(k) : sent'[Slot(batch[i].seq)] = [seq |-> batch[i].seq, refs |-> PacketRefs(batch[i])]
  BY <1>1, SentAfterFacts
<1>6. ASSUME NEW s \in SlotIds
      PROVE  \/ sent'[s] = sent[s] /\ \A i \in Sure(k) : Slot(batch[i].seq) # s
             \/ \E i \in Sure(k) : /\ Slot(batch[i].seq) = s /\ sent[s].seq = 0
                                   /\ sent'[s].seq = batch[i].seq /\ sent'[s].refs = PacketRefs(batch[i])
  <2>1. CASE \A i \in Sure(k) : Slot(batch[i].seq) # s  BY <1>5, <2>1
  <2>2. CASE \E i \in Sure(k) : Slot(batch[i].seq) = s
    <3>1. PICK i \in Sure(k) : Slot(batch[i].seq) = s  BY <2>2
    <3>2. sent[s].seq = 0  BY <1>3, <3>1 DEF Numbered
    <3>3. sent'[s] = [seq |-> batch[i].seq, refs |-> PacketRefs(batch[i])]  BY <1>5, <3>1
    <3>4. sent'[s].seq = batch[i].seq /\ sent'[s].refs = PacketRefs(batch[i])  BY <3>3
    <3> QED BY <3>1, <3>2, <3>4
  <2> QED BY <2>1, <2>2
<1> DEFINE Took1 == {m \in UNION {Items(batch[i]) : i \in 1..k} : Reliable(m)}
           U == UNION {EntriesOf(i) : i \in (k + 1)..Len(batch)}
<1>7. /\ queue' \in [Flows -> [Sources -> Seq(Msgs)]]
      /\ \A f \in Flows, src \in Sources :
           /\ IsInjective(queue'[f][src]) /\ Len(queue'[f][src]) <= RingCap
           /\ InRing(f, src)' = InRing(f, src) \cup UnsentOf(k, f, src)
           /\ UnsentOf(k, f, src) \subseteq TakenFrom(f, src)
           /\ ToSet(Unsent(k, f, src)) \subseteq ToSet(Requeued(k, f, src))
  <2>1. ASSUME NEW f \in Flows, NEW src \in Sources
        PROVE  /\ Requeued(k, f, src) \in Seq(Msgs) /\ IsInjective(Requeued(k, f, src))
               /\ Len(Requeued(k, f, src)) <= RingCap
               /\ ToSet(Requeued(k, f, src)) = InRing(f, src) \cup UnsentOf(k, f, src)
               /\ ToSet(Unsent(k, f, src)) \subseteq ToSet(Requeued(k, f, src))
               /\ UnsentOf(k, f, src) \subseteq TakenFrom(f, src)
               /\ queue'[f][src] = Requeued(k, f, src)
    BY <1>1, RequeuedFacts, UnsentFacts
  <2>2. \A f \in Flows, src \in Sources : InRing(f, src)' = ToSet(queue'[f][src])  BY DEF InRing
  <2> QED BY <1>1, <2>1, <2>2
<1>8. /\ \A f \in Flows, src \in Sources : UnsentOf(k, f, src) =
           {x.msg : x \in {y \in U : y.src = src /\ info[y.msg].flow = f}}
      /\ U \subseteq Packed
      /\ \A x \in Packed : x \in U \/ \E i \in 1..k : x \in EntriesOf(i)
  <2>1. \A i \in DOMAIN batch : i \in 1..k \/ i \in (k + 1)..Len(batch)  BY <1>2
  <2>2. \A i \in (k + 1)..Len(batch) : i \in DOMAIN batch  BY <1>2
  <2> QED BY <1>2, <2>1, <2>2 DEF UnsentOf, Packed, EntriesOf
<1> HIDE DEF U
<1>9. \A i \in 1..k : i \in DOMAIN batch  BY <1>2
<1>10. /\ Packed' = {} /\ InBatch' = {} /\ DOMAIN batch' = {}
  BY <1>1 DEF Packed, InBatch
<1>11. \A x \in Packed : /\ x \in Entry /\ x.msg \in DOMAIN info /\ x.msg \in InBatch
                         /\ (x.src = "unreliable" <=> ~Reliable(x.msg))
                         /\ x.src \in Sources /\ info[x.msg].flow \in Flows
  <2>1. \A x \in Packed : x \in Entry /\ x.msg \in InBatch  BY PackedIsTyped
  <2>2. \A x \in Packed : x.msg \in DOMAIN info /\ (x.src = "unreliable" <=> ~Reliable(x.msg))
    BY DEF BatchHolds
  <2>3. \A x \in Entry : x.src \in Sources  BY DEF Entry
  <2>4. \A m \in DOMAIN info : info[m].flow \in Flows  BY InfoIsTyped
  <2> QED BY <2>1, <2>2, <2>3, <2>4
<1>12. \A x, y \in Packed : x.msg = y.msg => x = y  BY DEF BatchHolds, Packed
<1>13. Took1 = {x.msg : x \in {y \in UNION {EntriesOf(i) : i \in 1..k} : Reliable(y.msg)}}
  <2> DEFINE V == {y \in UNION {EntriesOf(i) : i \in 1..k} : Reliable(y.msg)}
  <2>1. \A i \in 1..k : Items(batch[i]) = {x.msg : x \in EntriesOf(i)}  BY <1>2, <1>9
  <2>2. \A m : m \in Took1 <=> \E i \in 1..k : m \in Items(batch[i]) /\ Reliable(m)  OBVIOUS
  <2>3. \A y : y \in V <=> \E i \in 1..k : y \in EntriesOf(i) /\ Reliable(y.msg)  OBVIOUS
  <2> HIDE DEF Took1, V
  <2>4. ASSUME NEW m PROVE m \in Took1 <=> \E y \in V : m = y.msg
    <3>1. ASSUME m \in Took1 PROVE \E y \in V : m = y.msg
      <4>1. PICK i \in 1..k : m \in Items(batch[i]) /\ Reliable(m)  BY <2>2, <3>1
      <4>2. PICK y \in EntriesOf(i) : m = y.msg  BY <2>1, <4>1
      <4>3. Reliable(y.msg)  BY <4>1, <4>2
      <4> QED BY <2>3, <4>2, <4>3
    <3>2. ASSUME NEW y \in V, m = y.msg PROVE m \in Took1
      <4>1. PICK i \in 1..k : y \in EntriesOf(i) /\ Reliable(y.msg)  BY <2>3
      <4>2. m \in Items(batch[i]) /\ Reliable(m)  BY <2>1, <3>2, <4>1
      <4> QED BY <2>2, <4>2
    <3> QED BY <3>1, <3>2
  <2>5. Took1 = {x.msg : x \in V}  BY <2>4
  <2> QED BY <2>5 DEF V
<1>14. InFlight' = InFlight \cup Took1
  <2>1. \A m : m \in InFlight' <=> \E s \in SlotIds : m \in ToSet(sent'[s].refs)  BY DEF InFlight
  <2>2. \A m : m \in InFlight <=> \E s \in SlotIds : m \in ToSet(sent[s].refs)  BY DEF InFlight
  <2>3. \A m : m \in Took1 <=> \E i \in 1..k : m \in Items(batch[i]) /\ Reliable(m)  OBVIOUS
  <2>4. \A i \in 1..k : \A m \in Items(batch[i]) : Reliable(m) => i \in Sure(k)
    <3>1. \A i \in 1..k : \A m \in Items(batch[i]) : Reliable(m) => Carries(i)
      BY <1>2, <1>9 DEF Carries, EntriesOf
    <3> QED BY <3>1 DEF Sure
  <2>5. ASSUME NEW m \in InFlight' PROVE m \in InFlight \cup Took1
    <3>1. PICK s \in SlotIds : m \in ToSet(sent'[s].refs)  BY <2>1
    <3>2. CASE sent'[s] = sent[s]  BY <2>2, <3>1, <3>2
    <3>3. ASSUME NEW i \in Sure(k), sent'[s].refs = PacketRefs(batch[i]) PROVE m \in Took1
      BY <1>3, <1>4, <2>3, <3>1, <3>3
    <3> QED BY <1>6, <3>2, <3>3
  <2>6. ASSUME NEW m \in InFlight PROVE m \in InFlight'
    <3>1. PICK s \in SlotIds : m \in ToSet(sent[s].refs)  BY <2>2
    <3>2. sent[s].refs # <<>>  BY <3>1, EmptyToSet
    <3>3. sent[s].seq # 0  BY <3>2 DEF SlotsHold
    <3>4. sent'[s] = sent[s]  BY <1>6, <3>3
    <3> QED BY <2>1, <3>1, <3>4
  <2>7. ASSUME NEW m \in Took1 PROVE m \in InFlight'
    <3>1. PICK i \in 1..k : m \in Items(batch[i]) /\ Reliable(m)  BY <2>3
    <3>2. i \in Sure(k)  BY <2>4, <3>1
    <3>3. m \in ToSet(PacketRefs(batch[i]))  BY <1>4, <1>9, <3>1
    <3>4. PICK s \in SlotIds : s = Slot(batch[i].seq)  BY <1>3, <3>2
    <3>5. sent'[s] = [seq |-> batch[i].seq, refs |-> PacketRefs(batch[i])]  BY <1>5, <3>2, <3>4
    <3>6. sent'[s].refs = PacketRefs(batch[i])  BY <3>5
    <3>7. m \in ToSet(sent'[s].refs)  BY <3>3, <3>6
    <3> QED BY <2>1, <3>7
  <2> QED BY <2>5, <2>6, <2>7
<1>15. Queued' = Queued \cup {x.msg : x \in U}
  <2>1. \A m : m \in Queued' <=> \E f \in Flows, src \in Sources : m \in InRing(f, src)'  BY DEF Queued
  <2>2. \A m : m \in Queued <=> \E f \in Flows, src \in Sources : m \in InRing(f, src)  BY DEF Queued
  <2>3. \A m, f, src : f \in Flows /\ src \in Sources =>
          (m \in InRing(f, src)' <=> m \in InRing(f, src) \/ m \in UnsentOf(k, f, src))
    BY <1>7
  <2>4. \A m, f, src : f \in Flows /\ src \in Sources =>
          (m \in UnsentOf(k, f, src) <=> \E x \in U : m = x.msg /\ x.src = src /\ info[m].flow = f)
    BY <1>8
  <2>5. \A x \in U : x.src \in Sources /\ info[x.msg].flow \in Flows  BY <1>8, <1>11
  <2>6. \A m : (\E x \in U : m = x.msg) <=> \E f \in Flows, src \in Sources : m \in UnsentOf(k, f, src)
    BY <2>4, <2>5
  <2> QED BY <2>1, <2>2, <2>3, <2>6
<1>16. Crowded(k) = {}
  BY <1>7 DEF Crowded
<1>17. dropped' = dropped  BY <1>1, <1>16
<1>18. /\ wire' \in [Seqs -> SUBSET Msgs] /\ \A s \in Seqs : wire[s] \subseteq wire'[s]
       /\ \A i \in Sure(k) : Items(batch[i]) \subseteq wire'[batch[i].seq]
  <2> DEFINE New(s) == UNION {Items(batch[i]) : i \in {j \in 1..k : batch[j].seq = s}}
  <2>1. \A s : New(s) \in SUBSET Msgs  BY <1>4, <1>9
  <2>2. \A i \in Sure(k) : Items(batch[i]) \subseteq New(batch[i].seq)  BY <1>3
  <2>3. wire' = [s \in Seqs |-> wire[s] \cup New(s)]  BY <1>1
  <2> HIDE DEF New
  <2>4. wire \in [Seqs -> SUBSET Msgs]  BY DEF Typed
  <2> QED BY <1>3, <2>1, <2>2, <2>3, <2>4
<1>19. Typed'
  <2>1. sent' \in [SlotIds -> [seq : 0..MaxSeq, refs : Seq(Msgs)]]
    <3> DEFINE P == [seq : 0..MaxSeq, refs : Seq(Msgs)]
    <3>1. sent \in [SlotIds -> P]  BY DEF Typed
    <3>2. ASSUME NEW i \in Sure(k) PROVE [seq |-> batch[i].seq, refs |-> PacketRefs(batch[i])] \in P
      <4>1. batch[i].seq \in 0..MaxSeq /\ PacketRefs(batch[i]) \in Seq(Msgs)
        BY <1>3, <1>4, Consts DEF Seqs
      <4> QED BY <4>1
    <3>3. ASSUME NEW s \in SlotIds PROVE sent'[s] \in P
      <4>1. CASE \A i \in Sure(k) : Slot(batch[i].seq) # s  BY <1>5, <3>1, <4>1
      <4>2. CASE \E i \in Sure(k) : Slot(batch[i].seq) = s
        <5> HIDE DEF P
        <5> QED BY <1>5, <3>2, <4>2
      <4> QED BY <4>1, <4>2
    <3> HIDE DEF P
    <3>4. sent' = [s \in SlotIds |-> sent'[s]]
      <4>1. SentAfter(k) = [s \in SlotIds |-> SentAfter(k)[s]]  BY DEF SentAfter
      <4> QED BY <1>1, <4>1
    <3> QED BY <3>3, <3>4 DEF P
  <2>2. tracked' \in Seq(Seqs)  BY <1>1, TrackedAfterFacts
  <2>3. batch' \in Seq(Packet) /\ Len(batch') <= BatchSize
    <3>1. <<>> \in Seq(Packet) /\ Len(<<>>) = 0
      <4> HIDE DEF Packet
      <4> QED OBVIOUS
    <3> QED BY <1>1, <3>1, Consts
  <2>4. armed' \in BOOLEAN
    <3>1. (armed \/ Recorded(k) # <<>>) \in BOOLEAN  OBVIOUS
    <3> QED BY <1>1, <3>1
  <2>5. Len(info') <= MaxSent /\ info' \in Seq([flow : Flows, kind : Kinds])
        /\ cursor' \in Flows /\ blocked' \in BOOLEAN /\ firstSeq' \in 0..MaxSeq /\ nextSeq' \in 1..(MaxSeq + 1)
        /\ lost' \in [Msgs -> Seq(Seqs)] /\ (\A m \in Msgs : Len(lost'[m]) <= MaxLostSeqs)
        /\ heard' \subseteq Seqs /\ (done \cup expired \cup dropped)' \subseteq DOMAIN info'
    BY <1>17 DEF Typed
  <2> HIDE DEF Inv
  <2> QED BY <1>1, <1>7, <1>18, <2>1, <2>2, <2>3, <2>4, <2>5 DEF Typed
<1>20. \A f \in Flows, src \in Sources : \A m \in UnsentOf(k, f, src) :
          /\ m \in DOMAIN info /\ info[m].flow = f /\ (src = "unreliable" <=> ~Reliable(m)) /\ m \in InBatch
          /\ \E x \in U : x.msg = m /\ x.src = src
  BY <1>8, <1>11
<1>21. RingsHold'
  <2> SUFFICES ASSUME NEW g \in Flows, NEW t \in Sources
      PROVE /\ IsInjective(queue'[g][t]) /\ Len(queue'[g][t]) <= RingCap
            /\ \A x \in InRing(g, t)' :
                 x \in DOMAIN info' /\ info'[x].flow = g /\ (t = "unreliable" <=> ~Reliable(x)')
            /\ \A u \in Sources : u # t => InRing(g, t)' \cap InRing(g, u)' = {}
    BY DEF RingsHold
  <2>1. IsInjective(queue'[g][t]) /\ Len(queue'[g][t]) <= RingCap  BY <1>7
  <2>2. ASSUME NEW x \in InRing(g, t)'
        PROVE x \in DOMAIN info' /\ info'[x].flow = g /\ (t = "unreliable" <=> ~Reliable(x)')
    <3>1. x \in InRing(g, t) \/ x \in UnsentOf(k, g, t)  BY <1>7
    <3>2. x \in DOMAIN info /\ info[x].flow = g /\ (t = "unreliable" <=> ~Reliable(x))
      BY <1>20, <3>1 DEF RingsHold
    <3> QED BY <3>2 DEF Reliable
  <2>3. ASSUME NEW u \in Sources, u # t, NEW x \in InRing(g, t)', x \in InRing(g, u)' PROVE FALSE
    <3>1. (x \in InRing(g, t) \/ x \in UnsentOf(k, g, t)) /\ (x \in InRing(g, u) \/ x \in UnsentOf(k, g, u))
      BY <1>7, <2>3
    <3>2. InRing(g, t) \cap InRing(g, u) = {}  BY <2>3 DEF RingsHold
    <3>3. InRing(g, t) \cap InBatch = {} /\ InRing(g, u) \cap InBatch = {}  BY DEF Apart, Queued
    <3>4. ASSUME x \in UnsentOf(k, g, t), x \in UnsentOf(k, g, u) PROVE FALSE
      <4>1. PICK y \in U : y.msg = x /\ y.src = t  BY <1>20, <3>4
      <4>2. PICK z \in U : z.msg = x /\ z.src = u  BY <1>20, <3>4
      <4>3. y = z  BY <1>8, <1>12, <4>1, <4>2
      <4> QED BY <2>3, <4>1, <4>2, <4>3
    <3> QED BY <1>20, <3>1, <3>2, <3>3, <3>4
  <2> QED BY <2>1, <2>2, <2>3
<1>22. BatchHolds'  BY <1>10 DEF BatchHolds
<1>23. SlotsHold'
  <2>1. ASSUME NEW s \in SlotIds
        PROVE  /\ IsInjective(sent'[s].refs) /\ Len(sent'[s].refs) <= RefsPerPacket
               /\ \A m \in ToSet(sent'[s].refs) : m \in DOMAIN info /\ Reliable(m)
               /\ sent'[s].seq = 0 <=> sent'[s].refs = <<>>
               /\ sent'[s].seq # 0 => Slot(sent'[s].seq) = s
    <3>1. CASE sent'[s] = sent[s]  BY <3>1 DEF SlotsHold
    <3>2. ASSUME NEW i \in Sure(k), Slot(batch[i].seq) = s,
                 sent'[s].seq = batch[i].seq, sent'[s].refs = PacketRefs(batch[i])
          PROVE  /\ IsInjective(sent'[s].refs) /\ Len(sent'[s].refs) <= RefsPerPacket
                 /\ \A m \in ToSet(sent'[s].refs) : m \in DOMAIN info /\ Reliable(m)
                 /\ sent'[s].seq = 0 <=> sent'[s].refs = <<>>
                 /\ sent'[s].seq # 0 => Slot(sent'[s].seq) = s
      <4>1. i \in DOMAIN batch /\ Carries(i) /\ batch[i].seq # 0  BY <1>3
      <4>2. \A m \in Items(batch[i]) : m \in DOMAIN info
        <5>1. \A x \in EntriesOf(i) : x \in Packed  BY <1>2, <4>1
        <5> QED BY <1>2, <1>11, <4>1, <5>1
      <4> QED BY <1>4, <3>2, <4>1, <4>2
    <3> QED BY <1>6, <3>1, <3>2
  <2>2. ASSUME NEW s \in SlotIds, NEW t \in SlotIds, s # t,
               NEW m \in ToSet(sent'[s].refs), m \in ToSet(sent'[t].refs) PROVE FALSE
    <3>1. ASSUME NEW a \in SlotIds, NEW b \in SlotIds, sent'[a] = sent[a], m \in ToSet(sent'[a].refs),
                 NEW i \in Sure(k), sent'[b].refs = PacketRefs(batch[i]), m \in ToSet(sent'[b].refs)
          PROVE  FALSE
      <4>1. m \in InFlight  BY <3>1 DEF InFlight
      <4>2. m \in Items(batch[i])  BY <1>3, <1>4, <3>1
      <4>3. m \in InBatch  BY <1>3, <4>2 DEF InBatch
      <4> QED BY <4>1, <4>3 DEF Apart
    <3>2. ASSUME NEW i \in Sure(k), Slot(batch[i].seq) = s, sent'[s].refs = PacketRefs(batch[i]),
                 NEW j \in Sure(k), Slot(batch[j].seq) = t, sent'[t].refs = PacketRefs(batch[j])
          PROVE  FALSE
      <4>1. m \in Items(batch[i]) /\ m \in Items(batch[j])  BY <1>3, <1>4, <2>2, <3>2
      <4>2. PICK x \in EntriesOf(i), y \in EntriesOf(j) : x.msg = m /\ y.msg = m  BY <1>2, <1>3, <4>1
      <4>3. i = j  BY <1>3, <4>2 DEF BatchHolds, EntriesOf
      <4> QED BY <2>2, <3>2, <4>3
    <3>3. CASE sent'[s] = sent[s] /\ sent'[t] = sent[t]  BY <2>2, <3>3 DEF SlotsHold
    <3> QED BY <1>6, <2>2, <3>1, <3>2, <3>3
  <2> HIDE DEF Inv
  <2>3. \A q : Slot(q)' = Slot(q)  BY DEF Slot
  <2>4. \A m : Reliable(m)' <=> Reliable(m)  BY DEF Reliable
  <2> QED BY <2>1, <2>2, <2>3, <2>4 DEF SlotsHold
<1>24. Apart'
  <2>1. ASSUME NEW m \in Queued', m \in InFlight' PROVE FALSE
    <3>1. m \in Queued \/ \E x \in U : m = x.msg  BY <1>15
    <3>2. m \in InFlight \/ m \in Took1  BY <1>14, <2>1
    <3>3. m \in Took1 => m \in InBatch
      BY <1>2, <1>9 DEF InBatch
    <3>4. (\E x \in U : m = x.msg) => m \in InBatch  BY <1>8, <1>11
    <3>5. ASSUME m \in Took1, NEW x \in U, m = x.msg PROVE FALSE
      <4>1. PICK i \in 1..k : \E y \in EntriesOf(i) : y.msg = m  BY <1>13, <3>5
      <4>2. PICK y \in EntriesOf(i) : y.msg = m  BY <4>1
      <4>3. PICK j \in (k + 1)..Len(batch) : x \in EntriesOf(j)  BY DEF U
      <4>4. i \in DOMAIN batch /\ j \in DOMAIN batch /\ i # j  BY <1>2, <1>9
      <4> QED BY <3>5, <4>2, <4>3, <4>4 DEF BatchHolds, EntriesOf
    <3> QED BY <3>1, <3>2, <3>3, <3>4, <3>5 DEF Apart
  <2> QED BY <1>10, <2>1 DEF Apart
<1>25. Alive' \subseteq Alive /\ \A m \in Alive : Reliable(m) => m \in Alive'
  <2>1. Took1 \subseteq InBatch  BY <1>2, <1>9 DEF InBatch
  <2>2. {x.msg : x \in U} \subseteq InBatch  BY <1>8, <1>11
  <2>3. ASSUME NEW m \in InBatch, Reliable(m) PROVE m \in {x.msg : x \in U} \/ m \in Took1
    <3>1. PICK x \in Packed : m = x.msg  BY PackedIsTyped
    <3>2. CASE x \in U  BY <3>1, <3>2
    <3>3. CASE \E i \in 1..k : x \in EntriesOf(i)  BY <1>13, <2>3, <3>1, <3>3
    <3> QED BY <1>8, <3>2, <3>3
  <2>4. Alive' = Queued \cup {x.msg : x \in U} \cup (InFlight \cup Took1)
    BY <1>10, <1>14, <1>15 DEF Alive
  <2> HIDE DEF Took1
  <2> QED BY <2>1, <2>2, <2>3, <2>4 DEF Alive
<1>26. RoomLeft'
  <2>1. ASSUME NEW g \in Flows, NEW t \in Sources
        PROVE  Cardinality(InRing(g, t)' \cup TakenFrom(g, t)') <= RingCap
    <3>1. TakenFrom(g, t)' = {}  BY <1>10 DEF TakenFrom
    <3>2. InRing(g, t)' \cup TakenFrom(g, t)' \in SUBSET (InRing(g, t) \cup TakenFrom(g, t))
      BY <1>7, <3>1
    <3>3. Cardinality(InRing(g, t) \cup TakenFrom(g, t)) <= RingCap  BY DEF RoomLeft
    <3>4. InRing(g, t) \cup TakenFrom(g, t) \in SUBSET Msgs  BY PlacesAreMsgs
    <3>5. RingCap \in Nat  BY Consts
    <3> QED BY <3>2, <3>3, <3>4, <3>5, SubsetFits
  <2>2. Alive \in SUBSET Msgs /\ Alive' \in SUBSET Alive /\ MaxMessages \in Nat
    BY <1>25, PlacesAreMsgs, Consts
  <2>3. Cardinality(Alive') <= MaxMessages  BY <2>2, SubsetFits DEF RoomLeft
  <2> QED BY <2>1, <2>3 DEF RoomLeft
<1>27. Numbered'
  <2>1. /\ Rising(tracked') /\ Len(tracked') <= SlotCount
        /\ UsedSeqs \cup {batch[i].seq : i \in Sure(k)} \subseteq ToSet(tracked')
        /\ ToSet(tracked') \subseteq ToSet(tracked) \cup {batch[i].seq : i \in Sure(k)}
    BY <1>1, TrackedAfterFacts
  <2>2. ASSUME NEW q \in ToSet(tracked') PROVE q < nextSeq'
    <3>1. CASE q \in ToSet(tracked)  BY <3>1 DEF Numbered
    <3>2. CASE \E i \in Sure(k) : q = batch[i].seq  BY <1>3, <3>2 DEF Numbered
    <3> QED BY <2>1, <3>1, <3>2
  <2>3. ASSUME NEW s \in SlotIds, sent'[s].seq # 0 PROVE sent'[s].seq \in ToSet(tracked') /\ armed'
    <3>1. CASE sent'[s] = sent[s]  BY <1>1, <2>1, <2>3, <3>1 DEF Numbered, UsedSeqs
    <3>2. CASE \E i \in Sure(k) : sent'[s].seq = batch[i].seq
      <4>1. Recorded(k) # <<>>  BY <3>2, RecordedFacts
      <4> QED BY <1>1, <2>1, <3>2, <4>1
    <3> QED BY <1>6, <3>1, <3>2
  <2> HIDE DEF Inv
  <2> QED BY <1>10, <2>1, <2>2, <2>3 DEF Numbered
<1>28. Booked'
  <2>1. Gone' = Gone /\ Late' = Late  BY <1>17 DEF Gone, Late
  <2>2. \A m \in DOMAIN info' : Reliable(m)' => (m \in Alive' <=> m \notin Gone')
    BY <1>25, <2>1 DEF Booked, Reliable
  <2>3. ASSUME NEW m \in Lossy PROVE m \in Lossy'
    <3>1. CASE m \in InFlight  BY <1>14, <3>1 DEF Lossy
    <3>2. CASE \E x \in Packed : x.src = "retry" /\ m = x.msg
      <4>1. PICK x \in Packed : x.src = "retry" /\ m = x.msg  BY <3>2
      <4>2. Reliable(m)  BY <1>11, <4>1
      <4>3. CASE x \in U
        <5>1. PICK g \in Flows : info[m].flow = g  BY <1>11, <4>1
        <5>2. "retry" \in Sources  BY DEF Sources
        <5>3. m \in UnsentOf(k, g, "retry")  BY <1>8, <4>1, <4>3, <5>1, <5>2
        <5>4. m \in InRing(g, "retry")'  BY <1>7, <5>2, <5>3
        <5> QED BY <5>4 DEF Lossy
      <4>4. CASE \E i \in 1..k : x \in EntriesOf(i)
        <5>1. m \in Took1  BY <1>13, <4>1, <4>2, <4>4
        <5> QED BY <1>14, <5>1 DEF Lossy
      <4> QED BY <1>8, <4>3, <4>4
    <3>3. CASE \E g \in Flows : m \in InRing(g, "retry")
      <4>1. PICK g \in Flows : m \in InRing(g, "retry")  BY <3>3
      <4>2. "retry" \in Sources  BY DEF Sources
      <4>3. m \in InRing(g, "retry")'  BY <1>7, <4>1, <4>2
      <4> QED BY <4>3 DEF Lossy
    <3> QED BY <3>1, <3>2, <3>3 DEF Lossy
  <2> QED BY <2>1, <2>2, <2>3 DEF Booked
<1>29. Traced'
  <2>1. ASSUME NEW s \in SlotIds, NEW m \in ToSet(sent'[s].refs) PROVE m \in wire'[sent'[s].seq]
    <3>1. CASE sent'[s] = sent[s]
      <4>1. m \in wire[sent[s].seq]  BY <3>1 DEF Traced
      <4>2. sent[s].refs # <<>>  BY <3>1, EmptyToSet
      <4>3. sent[s].seq # 0 /\ sent[s].seq \in 0..MaxSeq  BY <4>2 DEF SlotsHold, Typed
      <4>4. sent[s].seq \in Seqs  BY <4>3, Consts DEF Seqs
      <4> QED BY <1>18, <3>1, <4>1, <4>4
    <3>2. ASSUME NEW i \in Sure(k), sent'[s].seq = batch[i].seq, sent'[s].refs = PacketRefs(batch[i])
          PROVE  m \in wire'[sent'[s].seq]
      BY <1>3, <1>4, <1>18, <3>2
    <3> QED BY <1>6, <3>1, <3>2
  <2>2. ASSUME NEW m \in Msgs, NEW q \in ToSet(lost'[m]) PROVE m \in wire'[q]
    <3>1. lost[m] \in Seq(Seqs) /\ q \in ToSet(lost[m])  BY DEF Typed
    <3>2. q \in Seqs  BY <3>1, ToSetOf
    <3> QED BY <1>18, <3>1, <3>2 DEF Traced
  <2>3. DoneArrived'
    <3>1. heard \subseteq Seqs  BY DEF Typed
    <3>2. DoneArrived  BY DEF Traced
    <3> QED BY <1>18, <3>1, <3>2 DEF DoneArrived
  <2> QED BY <2>1, <2>2, <2>3 DEF Traced
<1> HIDE DEF Inv
<1> QED BY <1>19, <1>21, <1>22, <1>23, <1>24, <1>26, <1>27, <1>28, <1>29 DEF Inv

LEMMA SendFullBatchKeeps == ASSUME Inv, NEW k \in 0..BatchSize, SendFullBatch(k) PROVE Inv'
<1>1. /\ SendBatch(k) /\ Len(batch) = BatchSize /\ filling' = (k = BatchSize)
      /\ info' = info /\ cursor' = cursor /\ blocked' = blocked /\ firstSeq' = firstSeq /\ nextSeq' = nextSeq
      /\ lost' = lost /\ lateCount' = lateCount /\ heard' = heard /\ done' = done /\ expired' = expired
  BY DEF SendFullBatch
<1>2. k \in 0..Len(batch)  BY <1>1
<1>3. filling' \in BOOLEAN
  <2>1. (k = BatchSize) \in BOOLEAN  OBVIOUS
  <2> QED BY <1>1, <2>1
<1> QED BY <1>1, <1>2, <1>3, SendBatchKeeps

LEMMA EndFlushKeeps == ASSUME Inv, NEW k \in 0..BatchSize, EndFlush(k) PROVE Inv'
<1>1. /\ SendBatch(k) /\ k <= Len(batch) /\ filling' = FALSE
      /\ info' = info /\ cursor' = cursor /\ blocked' = blocked /\ firstSeq' = firstSeq /\ nextSeq' = nextSeq
      /\ lost' = lost /\ lateCount' = lateCount /\ heard' = heard /\ done' = done /\ expired' = expired
  BY DEF EndFlush
<1>2. k \in 0..Len(batch)
  <2>1. Len(batch) \in Nat  BY BatchIsInjective
  <2> QED BY <1>1, <2>1, Consts
<1> QED BY <1>1, <1>2, SendBatchKeeps

LEMMA InitInv == ASSUME Init PROVE Inv
<1>1. /\ info = <<>>
      /\ queue = [f \in Flows |-> [s \in Sources |-> <<>>]]
      /\ cursor = 0 /\ filling = FALSE /\ blocked = FALSE /\ firstSeq = 0
      /\ batch = <<>> /\ nextSeq = 1
      /\ sent = [s \in SlotIds |-> [seq |-> 0, refs |-> <<>>]] /\ tracked = <<>> /\ armed = FALSE
      /\ lost = [m \in Msgs |-> <<>>] /\ lateCount = 0
      /\ wire = [s \in Seqs |-> {}] /\ heard = {}
      /\ done = {} /\ expired = {} /\ dropped = {}
  BY DEF Init, Unused
<1>2. Typed
  <2>1. 0 \in Flows /\ 0 \in 0..MaxSeq /\ 1 \in 1..(MaxSeq + 1) /\ 0 <= MaxLostSeqs /\ 0 <= MaxSent /\ 0 <= BatchSize
    BY Consts DEF Flows
  <2>2. \A X : <<>> \in Seq(X)  OBVIOUS
  <2>3. Len(<<>>) = 0 /\ <<>> \in Seq([flow : Flows, kind : Kinds]) /\ <<>> \in Seq(Packet)
        /\ <<>> \in Seq(Msgs) /\ <<>> \in Seq(Seqs)
    BY <2>2
  <2>4. sent \in [SlotIds -> [seq : 0..MaxSeq, refs : Seq(Msgs)]]  BY <1>1, <2>1, <2>3
  <2>5. queue \in [Flows -> [Sources -> Seq(Msgs)]]  BY <1>1, <2>3
  <2>6. lost \in [Msgs -> Seq(Seqs)] /\ \A m \in Msgs : Len(lost[m]) <= MaxLostSeqs  BY <1>1, <2>1, <2>3
  <2>7. wire \in [Seqs -> SUBSET Msgs]  BY <1>1
  <2> QED BY <1>1, <2>1, <2>3, <2>4, <2>5, <2>6, <2>7 DEF Typed
<1>3. /\ \A f \in Flows, s \in Sources : queue[f][s] = <<>> /\ InRing(f, s) = {}
      /\ \A s \in SlotIds : sent[s].seq = 0 /\ sent[s].refs = <<>>
  BY <1>1, EmptyToSet DEF InRing
<1>4. DOMAIN batch = {} /\ Packed = {} /\ InBatch = {}  BY <1>1, <1>2, EmptyBatch
<1>5. RingsHold  BY <1>3, EmptyToSet, Consts DEF RingsHold
<1>6. BatchHolds  BY <1>4 DEF BatchHolds
<1>7. SlotsHold  BY <1>3, EmptyToSet, Consts DEF SlotsHold
<1>8. Queued = {} /\ InFlight = {}  BY <1>3, EmptyToSet DEF Queued, InFlight
<1>9. Apart  BY <1>8 DEF Apart
<1>10. Cardinality({}) = 0  BY FS_EmptySet
<1>11. RoomLeft
  <2>1. \A f \in Flows, s \in Sources : TakenFrom(f, s) = {}  BY <1>4 DEF TakenFrom
  <2>2. Alive = {}  BY <1>4, <1>8 DEF Alive
  <2>3. \A f \in Flows, s \in Sources : InRing(f, s) \cup TakenFrom(f, s) = {}  BY <1>3, <2>1
  <2>4. 0 <= RingCap /\ 0 <= MaxMessages  BY Consts
  <2>5. \A f \in Flows, s \in Sources : Cardinality(InRing(f, s) \cup TakenFrom(f, s)) <= RingCap
    BY <1>10, <2>3, <2>4
  <2> QED BY <1>10, <2>2, <2>4, <2>5 DEF RoomLeft
<1>12. Numbered
  <2>1. Rising(<<>>) /\ Len(<<>>) = 0 /\ ToSet(<<>>) = {}  BY EmptyToSet DEF Rising
  <2> QED BY <1>1, <1>3, <1>4, <2>1, Consts DEF Numbered
<1>13. Late = {}  BY <1>1 DEF Late
<1>14. Booked  BY <1>1, <1>10, <1>13 DEF Booked
<1>15. Traced
  <2>1. \A m \in Msgs : lost[m] = <<>>  BY <1>1
  <2>2. DoneArrived  BY <1>1 DEF DoneArrived
  <2> QED BY <1>3, <2>1, <2>2, EmptyToSet DEF Traced
<1> QED BY <1>2, <1>5, <1>6, <1>7, <1>9, <1>11, <1>12, <1>14, <1>15 DEF Inv

LEMMA StutterKeeps == ASSUME Inv, UNCHANGED vars PROVE Inv'
<1>1. /\ info' = info /\ queue' = queue /\ batch' = batch /\ sent' = sent /\ armed' = armed
      /\ lost' = lost /\ lateCount' = lateCount /\ wire' = wire /\ done' = done /\ expired' = expired
      /\ dropped' = dropped /\ heard' = heard /\ cursor' = cursor /\ filling' = filling
      /\ blocked' = blocked /\ firstSeq' = firstSeq /\ nextSeq' = nextSeq /\ tracked' = tracked
  BY DEF vars, flush, flight, history
<1>2. Typed  BY DEF Inv
<1>3. heard \subseteq Seqs /\ nextSeq \in 1..(MaxSeq + 1) /\ nextSeq <= nextSeq
  BY <1>2, Consts DEF Typed
<1> QED BY <1>1, <1>2, <1>3, StillKeeps DEF Typed

LEMMA StepKeeps == ASSUME Inv, [Next]_vars PROVE Inv'
<1>1. ASSUME NEW f \in Flows, NEW kind \in Kinds, NEW replaced \in SUBSET InRing(f, "unreliable"),
             Send(f, kind, replaced) PROVE Inv'
  BY <1>1, SendKeeps
<1>2. ASSUME NEW n \in 0..SlotCount, StartFlush(n) PROVE Inv'  BY <1>2, StartFlushKeeps
<1>3. CASE StartFlushEarly  BY <1>3, StartFlushEarlyKeeps
<1>4. ASSUME NEW f \in Flows, ExpireHead(f) PROVE Inv'  BY <1>4, ExpireHeadKeeps
<1>5. ASSUME NEW f \in Flows, JoinPacket(f) PROVE Inv'  BY <1>5, JoinPacketKeeps
<1>6. ASSUME NEW f \in Flows, NewUnreliable(f) PROVE Inv'  BY <1>6, NewUnreliableKeeps
<1>7. ASSUME NEW f \in Flows, NewReliable(f) PROVE Inv'  BY <1>7, NewReliableKeeps
<1>8. ASSUME NEW f \in Flows, BlockReliable(f) PROVE Inv'  BY <1>8, BlockReliableKeeps
<1>9. ASSUME NEW k \in 0..BatchSize, SendFullBatch(k) PROVE Inv'  BY <1>9, SendFullBatchKeeps
<1>10. ASSUME NEW k \in 0..BatchSize, EndFlush(k) PROVE Inv'  BY <1>10, EndFlushKeeps
<1>11. ASSUME NEW seq \in Seqs, PeerRecords(seq) PROVE Inv'  BY <1>11, PeerRecordsKeeps
<1>12. ASSUME NEW a \in Acks, ReceiveAck(a) PROVE Inv'  BY <1>12, ReceiveAckKeeps
<1>13. CASE UNCHANGED vars  BY <1>13, StutterKeeps
<1> QED
  BY <1>1, <1>2, <1>3, <1>4, <1>5, <1>6, <1>7, <1>8, <1>9, <1>10, <1>11, <1>12, <1>13 DEF Next

(* The invariant of the send path: every place holds what it should, and    *)
(* holds it alone.                                                          *)
THEOREM SenderInvariant == Spec => []Inv
<1>1. Init => Inv  BY InitInv
<1>2. Inv /\ [Next]_vars => Inv'  BY StepKeeps
<1> QED BY <1>1, <1>2, PTL DEF Spec

(* TypeOK: in particular no ring, slot, batch, list of packets or list of   *)
(* lost numbers outgrows the array that the code gives it.                  *)
THEOREM SenderTypes == Spec => []TypeOK
<1>1. ASSUME Inv PROVE TypeOK
  <2> USE <1>1 DEF Inv
  <2>1. \A f \in Flows, src \in Sources : InRing(f, src) \subseteq DOMAIN info /\ Len(queue[f][src]) <= RingCap
    BY DEF RingsHold
  <2>2. \A i \in DOMAIN batch : batch[i].seq \in 0..MaxSeq
    <3>1. \A i \in DOMAIN batch : batch[i] \in Packet  BY BatchIsInjective
    <3> QED BY <3>1 DEF Packet
  <2>3. \A s \in SlotIds : sent[s].seq \in 0..MaxSeq /\ ToSet(sent[s].refs) \subseteq DOMAIN info
    BY DEF Typed, SlotsHold
  <2>4. lateCount \in 0..MaxSent
    <3>1. Late \in SUBSET Msgs /\ lateCount = Cardinality(Late)  BY DEF Late, Booked
    <3>2. lateCount \in Nat /\ lateCount <= MaxSent  BY <3>1, MsgsAreFinite
    <3> QED BY <3>2, Consts
  <2>5. tracked \in Seq(Seqs) /\ Len(tracked) <= SlotCount  BY DEF Typed, Numbered
  <2>6. \A m \in Msgs : lost[m] \in Seq(Seqs) /\ Len(lost[m]) <= MaxLostSeqs  BY DEF Typed
  <2> HIDE DEF Inv
  <2>7. /\ info \in Seq([flow : Flows, kind : Kinds]) /\ Len(info) <= MaxSent
        /\ cursor \in Flows /\ filling \in BOOLEAN /\ blocked \in BOOLEAN /\ armed \in BOOLEAN
        /\ firstSeq \in 0..MaxSeq /\ nextSeq \in 1..(MaxSeq + 1) /\ Len(batch) <= BatchSize
        /\ wire \in [Seqs -> SUBSET Msgs] /\ heard \subseteq Seqs
        /\ done \cup expired \cup dropped \subseteq DOMAIN info
    BY DEF Typed, Inv
  <2> QED BY <2>1, <2>2, <2>3, <2>4, <2>5, <2>6, <2>7 DEF TypeOK
<1> QED BY <1>1, SenderInvariant, PTL

LEMMA OneOrNone ==
  ASSUME NEW S, NEW a, S \subseteq {a}
  PROVE  Cardinality(S) = IF S = {} THEN 0 ELSE 1
<1>1. S = {} \/ S = {a}  OBVIOUS
<1> QED BY <1>1, FS_EmptySet, FS_Singleton

LEMMA OneHomeHolds == ASSUME Inv PROVE OneHome
<1> USE DEF Inv
<1> SUFFICES ASSUME NEW m \in DOMAIN info, Reliable(m)
    PROVE  Homes(m) = IF m \in done \cup expired \cup dropped THEN 0 ELSE 1
  BY DEF OneHome
<1> DEFINE A == {p \in Flows \X Sources \X (1..RingCap) :
                   p[3] \in DOMAIN queue[p[1]][p[2]] /\ queue[p[1]][p[2]][p[3]] = m}
           B == {i \in DOMAIN batch : m \in Items(batch[i])}
           C == {s \in SlotIds : m \in ToSet(sent[s].refs)}
<1>1. Homes(m) = Cardinality(A) + Cardinality(B) + Cardinality(C)  BY DEF Homes
<1>2. \A f \in Flows, src \in Sources :
        /\ queue[f][src] \in Seq(Msgs) /\ DOMAIN queue[f][src] = 1..Len(queue[f][src])
        /\ Len(queue[f][src]) \in Nat /\ Len(queue[f][src]) <= RingCap /\ IsInjective(queue[f][src])
        /\ InRing(f, src) = {queue[f][src][i] : i \in 1..Len(queue[f][src])}
  <2> SUFFICES ASSUME NEW f \in Flows, NEW src \in Sources
      PROVE  /\ queue[f][src] \in Seq(Msgs) /\ DOMAIN queue[f][src] = 1..Len(queue[f][src])
             /\ Len(queue[f][src]) \in Nat /\ Len(queue[f][src]) <= RingCap /\ IsInjective(queue[f][src])
             /\ InRing(f, src) = {queue[f][src][i] : i \in 1..Len(queue[f][src])}
    OBVIOUS
  <2>1. queue[f][src] \in Seq(Msgs) /\ Len(queue[f][src]) <= RingCap /\ IsInjective(queue[f][src])
    BY DEF Typed, RingsHold
  <2> DEFINE q == queue[f][src]
  <2>2. q \in Seq(Msgs)  BY <2>1
  <2> HIDE DEF q
  <2>3. DOMAIN q = 1..Len(q) /\ Len(q) \in Nat /\ ToSet(q) = {q[i] : i \in 1..Len(q)}  BY <2>2, ToSetOf
  <2> QED BY <2>1, <2>3 DEF InRing, q
<1>3. Cardinality(A) = IF m \in Queued THEN 1 ELSE 0
  <2>1. m \in Queued <=> \E f \in Flows, src \in Sources : m \in InRing(f, src)  BY DEF Queued
  <2>2. ASSUME NEW p \in A
        PROVE  /\ p \in Flows \X Sources \X (1..RingCap) /\ p[1] \in Flows /\ p[2] \in Sources
               /\ p = <<p[1], p[2], p[3]>> /\ p[3] \in 1..Len(queue[p[1]][p[2]])
               /\ m = queue[p[1]][p[2]][p[3]] /\ m \in InRing(p[1], p[2])
    <3>1. PICK f \in Flows, src \in Sources, i \in 1..RingCap : p = <<f, src, i>>  OBVIOUS
    <3>2. i \in DOMAIN queue[f][src] /\ queue[f][src][i] = m  BY <3>1
    <3>3. i \in 1..Len(queue[f][src])  BY <1>2, <3>2
    <3>4. m \in InRing(f, src)  BY <1>2, <3>2, <3>3
    <3> HIDE DEF A
    <3> QED BY <3>1, <3>2, <3>3, <3>4
  <2>3. ASSUME NEW p \in A, NEW r \in A PROVE p = r
    <3>0. /\ p[1] \in Flows /\ p[2] \in Sources /\ r[1] \in Flows /\ r[2] \in Sources
          /\ p = <<p[1], p[2], p[3]>> /\ r = <<r[1], r[2], r[3]>>
          /\ m \in InRing(p[1], p[2]) /\ m \in InRing(r[1], r[2])
          /\ p[3] \in 1..Len(queue[p[1]][p[2]]) /\ m = queue[p[1]][p[2]][p[3]]
          /\ r[3] \in 1..Len(queue[r[1]][r[2]]) /\ m = queue[r[1]][r[2]][r[3]]
      BY <2>2
    <3> HIDE DEF A
    <3>1. p[1] = r[1]
      <4>1. info[m].flow = p[1]  BY <3>0 DEF RingsHold
      <4>2. info[m].flow = r[1]  BY <3>0 DEF RingsHold
      <4> QED BY <4>1, <4>2
    <3>2. p[2] = r[2]
      <4>1. m \in InRing(p[1], r[2])  BY <3>0, <3>1
      <4>2. p[2] # r[2] => InRing(p[1], p[2]) \cap InRing(p[1], r[2]) = {}  BY <3>0 DEF RingsHold
      <4> QED BY <3>0, <4>1, <4>2
    <3>3. p[3] = r[3]
      <4> DEFINE q == queue[p[1]][p[2]]
                 i == p[3]
                 j == r[3]
      <4>1. IsInjective(q) /\ DOMAIN q = 1..Len(q)  BY <1>2, <3>0
      <4>2. i \in 1..Len(q) /\ j \in 1..Len(q) /\ q[i] = m /\ q[j] = m  BY <3>0, <3>1, <3>2
      <4> HIDE DEF q, i, j
      <4>3. i = j  BY <4>1, <4>2 DEF IsInjective
      <4> QED BY <4>3 DEF i, j
    <3> QED BY <3>0, <3>1, <3>2, <3>3
  <2>4. m \in Queued => A # {}
    <3> SUFFICES ASSUME m \in Queued PROVE A # {}  OBVIOUS
    <3>1. PICK f \in Flows, src \in Sources : m \in InRing(f, src)  BY <2>1
    <3>2. PICK i \in 1..Len(queue[f][src]) : m = queue[f][src][i]  BY <1>2, <3>1
    <3>3. i \in 1..RingCap  BY <1>2, Consts
    <3>4. <<f, src, i>> \in A  BY <1>2, <3>2, <3>3
    <3> QED BY <3>4
  <2>5. m \notin Queued => A = {}
    <3> HIDE DEF A
    <3> QED BY <2>1, <2>2
  <2> HIDE DEF A
  <2>6. CASE A = {}  BY <2>4, <2>6, FS_EmptySet
  <2>7. CASE A # {}
    <3>1. PICK p \in A : A \subseteq {p}  BY <2>3, <2>7
    <3>2. Cardinality(A) = 1  BY <2>7, <3>1, OneOrNone
    <3> QED BY <2>5, <2>7, <3>2
  <2> QED BY <2>6, <2>7
<1>4. Cardinality(B) = IF m \in InBatch THEN 1 ELSE 0
  <2>1. m \in InBatch <=> B # {}  BY DEF InBatch
  <2>2. ASSUME NEW i \in B, NEW j \in B PROVE i = j
    <3>1. i \in DOMAIN batch /\ j \in DOMAIN batch /\ m \in Items(batch[i]) /\ m \in Items(batch[j])
      OBVIOUS
    <3>2. /\ Items(batch[i]) = {x.msg : x \in ToSet(batch[i].items)}
          /\ Items(batch[j]) = {x.msg : x \in ToSet(batch[j].items)}
      BY <3>1, PackedIsTyped
    <3>3. PICK x \in ToSet(batch[i].items), y \in ToSet(batch[j].items) : x.msg = m /\ y.msg = m
      BY <3>1, <3>2
    <3> QED BY <3>1, <3>3 DEF BatchHolds
  <2> HIDE DEF B
  <2>3. CASE B = {}  BY <2>1, <2>3, FS_EmptySet
  <2>4. CASE B # {}
    <3>1. PICK i \in B : B \subseteq {i}  BY <2>2, <2>4
    <3> QED BY <2>1, <2>4, <3>1, OneOrNone
  <2> QED BY <2>3, <2>4
<1>5. Cardinality(C) = IF m \in InFlight THEN 1 ELSE 0
  <2>1. m \in InFlight <=> C # {}  BY DEF InFlight
  <2>2. ASSUME NEW s \in C, NEW t \in C PROVE s = t  BY DEF SlotsHold
  <2> HIDE DEF C
  <2>3. CASE C = {}  BY <2>1, <2>3, FS_EmptySet
  <2>4. CASE C # {}
    <3>1. PICK s \in C : C \subseteq {s}  BY <2>2, <2>4
    <3> QED BY <2>1, <2>4, <3>1, OneOrNone
  <2> QED BY <2>3, <2>4
<1>6. m \in Queued \cup InBatch \cup InFlight <=> m \notin done \cup expired \cup dropped
  BY DEF Booked, Alive, Gone
<1> HIDE DEF A, B, C
<1>7. /\ ~(m \in Queued /\ m \in InBatch) /\ ~(m \in Queued /\ m \in InFlight) /\ ~(m \in InBatch /\ m \in InFlight)
  BY DEF Apart
<1> QED BY <1>1, <1>3, <1>4, <1>5, <1>6, <1>7

(* BooksAgree: a reliable message is in one place until it is freed         *)
(* (OneHome), each sent packet is on the list of tracked numbers and under  *)
(* the timer (SentIsWatched), and late_ack_msg_count is what a count would  *)
(* find (LateCountExact).                                                   *)
THEOREM BooksAreKept == Spec => []BooksAgree
<1>1. ASSUME Inv PROVE BooksAgree
  <2>1. OneHome  BY <1>1, OneHomeHolds
  <2>2. SentIsWatched  BY <1>1 DEF Inv, SentIsWatched, SlotsHold, Numbered
  <2>3. {m \in Alive : lost[m] # <<>>} = Late
    <3>1. Lossy \subseteq Alive /\ \A m \in Alive : m \in Msgs  BY <1>1, LossyIsKnown DEF Inv
    <3>2. Late \subseteq Lossy  BY <1>1 DEF Inv, Booked
    <3> QED BY <3>1, <3>2 DEF Late
  <2>4. LateCountExact  BY <1>1, <2>3 DEF Inv, Booked, LateCountExact
  <2> QED BY <2>1, <2>2, <2>4 DEF BooksAgree
<1> QED BY <1>1, SenderInvariant, PTL

(* DoneArrived, the first half of NothingLost: release_acked_packets and    *)
(* release_late_acked_messages free a message as delivered only when a      *)
(* packet that carried it reached the peer, whatever was lost, retried,     *)
(* requeued and acknowledged late.                                          *)
THEOREM FreedMessagesArrived == Spec => []DoneArrived
<1>1. Inv => DoneArrived  BY DEF Inv, Traced
<1> QED BY <1>1, SenderInvariant, PTL

-----------------------------------------------------------------------------
(* The width of the window.                                                 *)

(* Packet numbers of reliable messages are consecutive: with one flow its   *)
(* reliable messages go before its unreliable ones in a flush, and with     *)
(* skip_unreliable_acks the latter have no number. coop_rudp's benchmark    *)
(* adapter has one flow, and more slots than the window.                    *)
Sequential == (SkipUnreliableAcks \/ NumFlows = 1) /\ AckWindow <= SlotCount

LEMMA SlotsDiffer ==
  ASSUME NEW x \in Nat, NEW y \in Nat, y < x, x - y < SlotCount
  PROVE  Slot(x) # Slot(y)
<1> SUFFICES ASSUME x % SlotCount = y % SlotCount PROVE FALSE  BY DEF Slot
<1> DEFINE S == SlotCount
           a == x \div S
           b == y \div S
<1>1. S \in Nat \ {0} /\ x \in Int /\ y \in Int  BY Consts
<1>2. a \in Int /\ x % S \in 0..(S - 1) /\ x = S * a + (x % S)  BY <1>1, DivMod
<1>3. b \in Int /\ y % S \in 0..(S - 1) /\ y = S * b + (y % S)  BY <1>1, DivMod
<1> HIDE DEF a, b, S
<1>4. x - y = S * (a - b)
  <2>1. x % S = y % S  BY DEF S
  <2>2. S * (a - b) = S * a - S * b  BY <1>1, <1>2, <1>3
  <2> QED BY <1>1, <1>2, <1>3, <2>1, <2>2
<1>5. CASE a - b <= 0
  <2>1. S * (a - b) <= 0  BY <1>1, <1>2, <1>3, <1>5
  <2> QED BY <1>4, <2>1
<1>6. CASE a - b >= 1
  <2>1. S * (a - b) >= S  BY <1>1, <1>2, <1>3, <1>6
  <2>2. x - y < S  BY DEF S
  <2> QED BY <1>1, <1>4, <2>1, <2>2
<1> QED BY <1>2, <1>3, <1>5, <1>6

LEMMA NumbersFacts ==
  ASSUME Inv
  PROVE  /\ \A y \in Numbers : y \in Nat /\ y # 0 /\ y < nextSeq
         /\ \A y \in Numbers : y \in UsedSeqs \/ \E i \in DOMAIN batch : Carries(i) /\ y = batch[i].seq
         /\ \A i \in DOMAIN batch : Carries(i) => batch[i].seq \in Numbers
         /\ \A x \in UsedSeqs : x \in ToSet(tracked) /\ x \in Nat /\ x # 0 /\ x \in Numbers
         /\ nextSeq \in Nat /\ firstSeq \in Nat /\ nextSeq >= 1 /\ AckWindow \in Nat /\ AckWindow >= 1
<1> USE DEF Inv
<1>1. \A x \in UsedSeqs : x \in ToSet(tracked) /\ x \in Nat /\ x # 0 /\ x \in Numbers /\ x < nextSeq
  <2>1. UsedSeqs \subseteq ToSet(tracked) /\ \A x \in UsedSeqs : x \in Seqs  BY LiveFacts
  <2> QED BY <2>1, Consts DEF Numbered, Numbers, Seqs
<1>2. \A i \in DOMAIN batch : batch[i].seq \in Nat  BY BatchIsInjective
<1>3. \A i \in DOMAIN batch : Carries(i) => batch[i].seq # 0 /\ batch[i].seq < nextSeq  BY DEF Numbered
<1>4. nextSeq \in Nat /\ firstSeq \in Nat /\ nextSeq >= 1 /\ AckWindow \in Nat /\ AckWindow >= 1
  BY Consts DEF Typed
<1> HIDE DEF Inv
<1> QED BY <1>1, <1>2, <1>3, <1>4 DEF Numbers

(* reliable_window_allows, for the next number.                             *)
LEMMA WindowNext ==
  ASSUME Inv, Windowed, AckWindow <= SlotCount, WindowAllows(nextSeq)
  PROVE  SlotAvailable(nextSeq) /\ \A y \in Numbers : nextSeq - y < AckWindow
<1>1. /\ LiveTracked \in Seq(Seqs) /\ Rising(LiveTracked) /\ ToSet(LiveTracked) = UsedSeqs
      /\ UsedSeqs \subseteq ToSet(tracked) /\ Seqs \subseteq Int /\ Seqs \subseteq Nat /\ 0 \notin Seqs
  BY LiveFacts, Consts DEF Inv, Seqs
<1>2. /\ \A y \in Numbers : y \in Nat /\ y # 0 /\ y < nextSeq
      /\ \A y \in Numbers : y \in UsedSeqs \/ \E i \in DOMAIN batch : Carries(i) /\ y = batch[i].seq
      /\ \A i \in DOMAIN batch : Carries(i) => batch[i].seq \in Numbers
      /\ \A x \in UsedSeqs : x \in ToSet(tracked) /\ x \in Nat /\ x # 0 /\ x \in Numbers
      /\ nextSeq \in Nat /\ firstSeq \in Nat /\ nextSeq >= 1 /\ AckWindow \in Nat /\ AckWindow >= 1
  BY NumbersFacts
<1>3. \A y \in Numbers : nextSeq - y < AckWindow
  <2>1. CASE LiveTracked # <<>>
    <3> DEFINE o == Head(LiveTracked)
    <3>1. o \in Seqs /\ o \in ToSet(LiveTracked) /\ \A x \in ToSet(LiveTracked) : o <= x
      <4> DEFINE l == LiveTracked
      <4>1. l \in Seq(Seqs) /\ l # <<>> /\ Rising(l) /\ Seqs \subseteq Int  BY <1>1, <2>1
      <4> HIDE DEF l
      <4>2. /\ Head(l) \in Seqs /\ ToSet(l) = {Head(l)} \cup ToSet(Tail(l))
            /\ \A x \in ToSet(l) : Head(l) <= x
        BY <4>1, HeadTailFacts
      <4> QED BY <4>2 DEF l
    <3>2. o \in Nat /\ o # 0 /\ o \in UsedSeqs  BY <1>1, <3>1
    <3>3. o # 0 => nextSeq - o < AckWindow  BY <2>1 DEF WindowAllows
    <3> HIDE DEF o
    <3>4. ASSUME NEW y \in Numbers PROVE o <= y
      <4>1. CASE y \in UsedSeqs  BY <1>1, <3>1, <4>1
      <4>2. ASSUME NEW i \in DOMAIN batch, Carries(i), y = batch[i].seq PROVE o <= y
        <5>1. y # 0 => o < y  BY <1>2, <3>2, <4>2 DEF Inv, Numbered
        <5> QED BY <1>2, <3>2, <5>1
      <4> QED BY <1>2, <4>1, <4>2
    <3> QED BY <1>2, <3>2, <3>3, <3>4
  <2>2. CASE LiveTracked = <<>>
    <3>1. UsedSeqs = {}  BY <1>1, <2>2, EmptyToSet
    <3>2. \A s \in SlotIds : sent[s].seq = 0  BY <3>1 DEF UsedSeqs
    <3>3. firstSeq # 0 => nextSeq - firstSeq < AckWindow  BY <2>2 DEF WindowAllows
    <3>4. ASSUME NEW y \in Numbers PROVE firstSeq # 0 /\ firstSeq <= y
      BY <1>2, <3>1, <3>2 DEF Windowed
    <3> QED BY <1>2, <3>3, <3>4
  <2> QED BY <2>1, <2>2
<1>4. \A y \in Numbers : Slot(y) # Slot(nextSeq)
  <2> SUFFICES ASSUME NEW y \in Numbers PROVE Slot(nextSeq) # Slot(y)  OBVIOUS
  <2>1. y \in Nat /\ y < nextSeq /\ nextSeq - y < SlotCount /\ nextSeq \in Nat
    BY <1>2, <1>3, Consts
  <2> QED BY <2>1, SlotsDiffer
<1>5. sent[Slot(nextSeq)].seq = 0
  <2>1. Slot(nextSeq) \in SlotIds  BY <1>2, SlotIsSlot
  <2> SUFFICES ASSUME sent[Slot(nextSeq)].seq # 0 PROVE FALSE  OBVIOUS
  <2>2. sent[Slot(nextSeq)].seq \in UsedSeqs /\ Slot(sent[Slot(nextSeq)].seq) = Slot(nextSeq)
    BY <2>1 DEF UsedSeqs, Inv, SlotsHold
  <2> QED BY <1>2, <1>4, <2>2
<1>6. \A i \in DOMAIN batch : PacketRefs(batch[i]) # <<>> => Slot(batch[i].seq) # Slot(nextSeq)
  BY <1>2, <1>4, PackedIsTyped DEF Inv
<1> QED BY <1>3, <1>5, <1>6 DEF SlotAvailable

(* An empty ring stays empty when nothing is put in it.                     *)
LEMMA QuietStays ==
  ASSUME Typed, Typed', \A g \in Flows, t \in Sources : InRing(g, t)' \subseteq InRing(g, t)
  PROVE  (\A f \in Flows : queue[f]["retry"] = <<>> /\ queue[f]["reliable"] = <<>>) =>
           \A f \in Flows : queue'[f]["retry"] = <<>> /\ queue'[f]["reliable"] = <<>>
<1>1. "retry" \in Sources /\ "reliable" \in Sources  BY DEF Sources
<1>2. ASSUME NEW f \in Flows, NEW t \in Sources, queue[f][t] = <<>> PROVE queue'[f][t] = <<>>
  <2>1. InRing(f, t) = {}  BY <1>2, EmptyToSet DEF InRing
  <2>2. ToSet(queue'[f][t]) = {}  BY <2>1 DEF InRing
  <2>3. queue'[f][t] \in Seq(Msgs)  BY DEF Typed
  <2> DEFINE z == queue'[f][t]
  <2> HIDE DEF z
  <2>4. z \in Seq(Msgs) /\ ToSet(z) = {}  BY <2>2, <2>3 DEF z
  <2>5. z = <<>>  BY <2>4, ToSetOf
  <2> QED BY <2>5 DEF z
<1> QED BY <1>1, <1>2

(* The batch is empty after the step.                                       *)
LEMMA WindowShrinks ==
  ASSUME Windowed, batch' = <<>>, Numbers' \subseteq Numbers, firstSeq' < nextSeq'
  PROVE  Windowed'
<1>1. DOMAIN batch' = {}  OBVIOUS
<1> QED BY <1>1 DEF Windowed

LEMMA FewerSent ==
  ASSUME Inv, batch' = <<>>, \A s \in SlotIds : sent'[s].seq \in {0, sent[s].seq}
  PROVE  Numbers' \subseteq Numbers
<1>1. DOMAIN batch' = {}  OBVIOUS
<1>2. UsedSeqs' \subseteq UsedSeqs  BY DEF UsedSeqs
<1> QED BY <1>1, <1>2 DEF Numbers

(* The batch, the packets and the numbers are left alone.                   *)
LEMMA WindowStays ==
  ASSUME Windowed, batch' = batch, sent' = sent, info' = info, firstSeq' < nextSeq',
         firstSeq' = firstSeq \/ batch = <<>>, blocked => blocked' \/ batch = <<>>,
         blocked' \/ batch = <<>> \/
           ((\A f \in Flows : queue[f]["retry"] = <<>> /\ queue[f]["reliable"] = <<>>) =>
              \A f \in Flows : queue'[f]["retry"] = <<>> /\ queue'[f]["reliable"] = <<>>)
  PROVE  Windowed'
<1>1. \A i : Carries(i)' <=> Carries(i)  BY DEF Carries, Reliable
<1>2. Numbers' = Numbers  BY <1>1 DEF Numbers, UsedSeqs
<1>3. batch = <<>> => DOMAIN batch = {}  OBVIOUS
<1>4. \A i \in DOMAIN batch' : Carries(i)' /\ (\A s \in SlotIds : sent'[s].seq = 0) =>
        firstSeq' # 0 /\ firstSeq' <= batch'[i].seq
  BY <1>1, <1>3 DEF Windowed
<1>5. \A i \in DOMAIN batch' : ~Carries(i)' =>
       \/ batch'[i].seq = 0 \/ blocked'
       \/ \A f \in Flows : queue'[f]["retry"] = <<>> /\ queue'[f]["reliable"] = <<>>
  BY <1>1, <1>3 DEF Windowed
<1> QED BY <1>2, <1>4, <1>5 DEF Windowed

(* A picked message leaves its ring.                                        *)
LEMMA TakenFacts ==
  ASSUME Inv, NEW f \in Flows, IsPicked(f), Take(f), info' = info
  PROVE  /\ \A g \in Flows, t \in Sources : InRing(g, t)' \subseteq InRing(g, t)
         /\ SourceOf(f) = "unreliable" <=> ~Reliable(Item(f).msg)
<1> DEFINE src == SourceOf(f)
           m == Head(queue[f][src])
<1> USE DEF Inv
<1>1. src \in Sources /\ queue[f][src] # <<>>  BY PickedFacts
<1>2. queue' = [queue EXCEPT ![f][src] = Tail(@)]  BY DEF Take
<1>3. Item(f).msg = m  BY ItemIsEntry
<1> HIDE DEF src
<1>4. /\ RingsHold' /\ queue' \in [Flows -> [Sources -> Seq(Msgs)]]
      /\ \A g \in Flows, t \in Sources : InRing(g, t)' = InRing(g, t) \ {m}
      /\ m \in InRing(f, src) /\ \A g \in Flows, t \in Sources : m \in InRing(g, t) => g = f /\ t = src
      /\ Queued' = Queued \ {m} /\ m \in Queued
      /\ m \in DOMAIN info /\ m \in Msgs /\ info[m].flow = f /\ (src = "unreliable" <=> ~Reliable(m))
      /\ m \notin InBatch /\ m \notin InFlight
  BY <1>1, <1>2, TakeRings
<1> HIDE DEF m
<1>5. \A g \in Flows, t \in Sources : InRing(g, t)' \subseteq InRing(g, t)  BY <1>4
<1> QED BY <1>3, <1>4, <1>5 DEF src

(* Each step keeps the window.                                              *)
LEMMA WindowOfJoin ==
  ASSUME Inv, Inv', Windowed, NEW f \in Flows, JoinPacket(f)
  PROVE  Windowed'
<1> DEFINE it == Item(f)
           src == SourceOf(f)
<1>0. PICK n : n = Len(batch)  OBVIOUS
<1>1. /\ IsPicked(f) /\ CanJoin(it.msg) /\ Take(f)
      /\ batch' = [batch EXCEPT ![n].items = Append(@, it)]
      /\ info' = info /\ blocked' = blocked /\ firstSeq' = firstSeq
      /\ nextSeq' = nextSeq /\ sent' = sent
  BY <1>0 DEF JoinPacket, Chosen, flight
<1>2. Typed /\ RingsHold /\ BatchHolds /\ SlotsHold /\ Apart /\ Typed'  BY DEF Inv
<1>3. it.msg = Head(queue[f][src]) /\ it.src = src /\ it.msg \in InRing(f, src) /\ src \in Sources /\ queue[f][src] # <<>>
      /\ it \in Entry /\ it.msg \notin InBatch
  BY <1>1, ItemIsEntry, PickedFacts
<1>4. /\ \A g \in Flows, t \in Sources : InRing(g, t)' \subseteq InRing(g, t)
      /\ (src = "unreliable" <=> ~Reliable(it.msg))
  BY <1>1, TakenFacts
<1>5. (\A g \in Flows : queue[g]["retry"] = <<>> /\ queue[g]["reliable"] = <<>>) =>
        \A g \in Flows : queue'[g]["retry"] = <<>> /\ queue'[g]["reliable"] = <<>>
  BY <1>2, <1>4, QuietStays
<1>6. batch \in Seq(Packet) /\ batch # <<>> /\ n \in Nat /\ n \in DOMAIN batch /\ DOMAIN batch = 1..n
  <2>1. batch \in Seq(Packet) /\ batch # <<>>  BY <1>1, <1>2 DEF Typed, CanJoin
  <2> HIDE DEF Packet
  <2> QED BY <1>0, <2>1, ToSetOf, EmptySeq
<1>7. Reliable(it.msg) => Carries(n) \/ batch[n].seq # 0
  BY <1>0, <1>1, <1>2, <1>6, PackedIsTyped DEF CanJoin, CanAddReliable, Last
<1> HIDE DEF it, src
<1>8. /\ DOMAIN batch' = DOMAIN batch
      /\ \A i \in DOMAIN batch' : batch'[i].seq = batch[i].seq
      /\ \A i \in DOMAIN batch' : i # n => batch'[i].items = batch[i].items
      /\ batch'[n].items = Append(batch[n].items, it)
  <2>1. \A i \in DOMAIN batch : batch[i] \in Packet /\ batch[i].items \in Seq(Entry)
    BY <1>2, PackedIsTyped
  <2>2. batch[n] \in [seq : 0..MaxSeq, items : Seq([msg : Msgs, src : Sources])]
    BY <1>6, <2>1 DEF Packet
  <2> DEFINE p == [batch[n] EXCEPT !.items = Append(@, it)]
  <2>3. p.seq = batch[n].seq /\ p.items = Append(batch[n].items, it)  BY <2>2
  <2>4. batch' = [batch EXCEPT ![n] = p]  BY <1>1
  <2> HIDE DEF p
  <2>5. DOMAIN batch' = DOMAIN batch /\ batch'[n] = p /\ \A i \in DOMAIN batch' : i # n => batch'[i] = batch[i]
    BY <1>6, <2>4
  <2> QED BY <2>3, <2>5
<1>9. ToSet(batch'[n].items) = ToSet(batch[n].items) \cup {it}
  <2>1. batch[n].items \in Seq(Entry)  BY <1>2, <1>6, PackedIsTyped
  <2> DEFINE e == batch[n].items
  <2>2. e \in Seq(Entry) /\ batch'[n].items = Append(e, it)  BY <1>8, <2>1
  <2> HIDE DEF e
  <2>3. ToSet(Append(e, it)) = ToSet(e) \cup {it}  BY <1>3, <2>2, AppendFacts
  <2> QED BY <2>2, <2>3 DEF e
<1>10. \A m : Reliable(m)' <=> Reliable(m)  BY <1>1 DEF Reliable
<1>11. \A i \in DOMAIN batch' : i # n => (Carries(i)' <=> Carries(i))
  BY <1>8, <1>10 DEF Carries
<1>12. Carries(n)' <=> Carries(n) \/ Reliable(it.msg)
  BY <1>9, <1>10 DEF Carries
<1>13. ASSUME Reliable(it.msg) PROVE Carries(n)
  <2> SUFFICES ASSUME ~Carries(n) PROVE FALSE  OBVIOUS
  <2>1. batch[n].seq # 0  BY <1>7, <1>13
  <2>2. blocked \/ (queue[f]["retry"] = <<>> /\ queue[f]["reliable"] = <<>>)
    BY <1>6, <2>1 DEF Windowed
  <2>3. src # "unreliable"  BY <1>4, <1>13
  <2> QED BY <2>2, <2>3 DEF src, SourceOf
<1>14. \A i \in DOMAIN batch' : Carries(i)' <=> Carries(i)  BY <1>11, <1>12, <1>13
<1>15. Numbers' = Numbers
  <2>1. UsedSeqs' = UsedSeqs  BY <1>1 DEF UsedSeqs
  <2> QED BY <1>8, <1>14, <2>1 DEF Numbers
<1>16. \A i \in DOMAIN batch' : Carries(i)' /\ (\A s \in SlotIds : sent'[s].seq = 0) =>
         firstSeq' # 0 /\ firstSeq' <= batch'[i].seq
  BY <1>1, <1>8, <1>14 DEF Windowed
<1>17. \A i \in DOMAIN batch' : ~Carries(i)' =>
         \/ batch'[i].seq = 0 \/ blocked'
         \/ \A g \in Flows : queue'[g]["retry"] = <<>> /\ queue'[g]["reliable"] = <<>>
  BY <1>1, <1>5, <1>8, <1>14 DEF Windowed
<1>18. firstSeq' < nextSeq'  BY <1>1 DEF Windowed
<1> QED BY <1>15, <1>16, <1>17, <1>18 DEF Windowed

LEMMA WindowOfUnreliable ==
  ASSUME Inv, Inv', Windowed, Sequential, NEW f \in Flows, NewUnreliable(f)
  PROVE  Windowed'
<1> DEFINE q == IF SkipUnreliableAcks THEN 0 ELSE nextSeq
           src == SourceOf(f)
<1>1. /\ Len(batch) < BatchSize /\ IsPicked(f) /\ Take(f)
      /\ ~Reliable(Item(f).msg) /\ nextSeq <= MaxSeq
      /\ batch' = Append(batch, [seq |-> q, items |-> <<Item(f)>>])
      /\ nextSeq' = (IF SkipUnreliableAcks THEN nextSeq ELSE nextSeq + 1)
      /\ info' = info /\ blocked' = blocked /\ firstSeq' = firstSeq /\ sent' = sent
  BY DEF NewUnreliable, Chosen, flight
<1>2. Typed /\ RingsHold /\ BatchHolds /\ SlotsHold /\ Apart /\ Typed'  BY DEF Inv
<1>3. nextSeq \in Nat /\ nextSeq >= 1 /\ firstSeq \in Nat /\ MaxSeq \in Nat  BY <1>2, Consts DEF Typed
<1>4. q \in 0..MaxSeq  BY <1>1, <1>3
<1>0. PICK k : k = Len(batch) + 1  OBVIOUS
<1>5. /\ DOMAIN batch' = 1..k /\ DOMAIN batch = 1..(k - 1) /\ k \in Nat \ {0}
      /\ \A i \in DOMAIN batch : batch'[i] = batch[i]
      /\ batch'[k].seq = q
      /\ \A i \in DOMAIN batch : Carries(i)' <=> Carries(i)
      /\ Carries(k)' <=> Reliable(Item(f).msg)
  <2> HIDE DEF q
  <2> QED BY <1>0, <1>1, <1>4, NewPacketGrows
<1>6. \A i \in DOMAIN batch' : i \in DOMAIN batch \/ i = k  BY <1>5
<1>7. \A i \in DOMAIN batch : i \in DOMAIN batch'  BY <1>5
<1>8. Numbers' = Numbers
  <2>1. UsedSeqs' = UsedSeqs  BY <1>1 DEF UsedSeqs
  <2>2. {i \in DOMAIN batch' : Carries(i)'} = {i \in DOMAIN batch : Carries(i)}
    BY <1>1, <1>5, <1>6, <1>7
  <2>3. \A i \in {j \in DOMAIN batch : Carries(j)} : batch'[i].seq = batch[i].seq  BY <1>5
  <2>4. {batch'[i].seq : i \in {j \in DOMAIN batch' : Carries(j)'}} = {batch[i].seq : i \in {j \in DOMAIN batch : Carries(j)}}
    BY <2>2, <2>3
  <2> QED BY <2>1, <2>4 DEF Numbers
<1>9. src \in Sources /\ queue[f][src] # <<>> /\ Item(f).msg = Head(queue[f][src])
  BY <1>1, ItemIsEntry, PickedFacts
<1>10. /\ \A g \in Flows, t \in Sources : InRing(g, t)' \subseteq InRing(g, t)
       /\ src = "unreliable"
  BY <1>1, TakenFacts
<1>11. (\A g \in Flows : queue[g]["retry"] = <<>> /\ queue[g]["reliable"] = <<>>) =>
         \A g \in Flows : queue'[g]["retry"] = <<>> /\ queue'[g]["reliable"] = <<>>
  BY <1>2, <1>10, QuietStays
<1>12. q = 0 \/ blocked \/ \A g \in Flows : queue[g]["retry"] = <<>> /\ queue[g]["reliable"] = <<>>
  <2> SUFFICES ASSUME ~SkipUnreliableAcks, ~blocked
               PROVE  \A g \in Flows : queue[g]["retry"] = <<>> /\ queue[g]["reliable"] = <<>>
    OBVIOUS
  <2>1. \A g \in Flows : g = f
    <3>1. NumFlows = 1  BY DEF Sequential
    <3> QED BY <3>1 DEF Flows
  <2>2. queue[f]["retry"] = <<>> /\ queue[f]["reliable"] = <<>>
    <3>1. SourceOf(f) = "unreliable"  BY <1>10
    <3> QED BY <3>1 DEF SourceOf
  <2> QED BY <2>1, <2>2
<1> HIDE DEF q, src
<1>13. ASSUME NEW i \in DOMAIN batch', ~Carries(i)'
       PROVE  \/ batch'[i].seq = 0 \/ blocked'
              \/ \A g \in Flows : queue'[g]["retry"] = <<>> /\ queue'[g]["reliable"] = <<>>
  <2>1. CASE i \in DOMAIN batch  BY <1>1, <1>5, <1>11, <1>13, <2>1 DEF Windowed
  <2>2. CASE i = k  BY <1>1, <1>5, <1>11, <1>12, <2>2
  <2> QED BY <1>6, <2>1, <2>2
<1>14. ASSUME NEW i \in DOMAIN batch', Carries(i)', \A s \in SlotIds : sent'[s].seq = 0
       PROVE  firstSeq' # 0 /\ firstSeq' <= batch'[i].seq
  <2>1. i \in DOMAIN batch  BY <1>1, <1>5, <1>6, <1>14
  <2>2. Carries(i) /\ \A s \in SlotIds : sent[s].seq = 0  BY <1>1, <1>5, <1>14, <2>1
  <2> QED BY <1>1, <1>5, <2>1, <2>2 DEF Windowed
<1>15. firstSeq' < nextSeq'  BY <1>1, <1>3 DEF Windowed
<1> QED BY <1>8, <1>13, <1>14, <1>15 DEF Windowed

LEMMA WindowOfReliable ==
  ASSUME Inv, Inv', Windowed, AckWindow <= SlotCount, NEW f \in Flows, NewReliable(f)
  PROVE  Windowed'
<1> DEFINE src == SourceOf(f)
<1>1. PICK q \in FreeFrom(nextSeq) :
        /\ Len(batch) < BatchSize /\ IsPicked(f) /\ Take(f) /\ WindowAllows(nextSeq)
        /\ q <= MaxSeq /\ \A s \in FreeFrom(nextSeq) : q <= s
        /\ Reliable(Item(f).msg)
        /\ batch' = Append(batch, [seq |-> q, items |-> <<Item(f)>>])
        /\ nextSeq' = q + 1 /\ firstSeq' = (IF firstSeq = 0 THEN q ELSE firstSeq)
        /\ info' = info /\ blocked' = blocked /\ sent' = sent
  BY DEF NewReliable, Chosen
<1>2. Typed /\ RingsHold /\ BatchHolds /\ SlotsHold /\ Apart /\ Typed'  BY DEF Inv
<1>3. nextSeq \in Nat /\ nextSeq >= 1 /\ firstSeq \in Nat /\ SlotCount \in Nat /\ SlotCount >= 1 /\ AckWindow \in Nat
      /\ AckWindow >= 1 /\ MaxSeq \in Nat
  BY <1>2, Consts DEF Typed
<1>4. SlotAvailable(nextSeq) /\ \A y \in Numbers : nextSeq - y < AckWindow  BY <1>1, WindowNext
<1>5. q = nextSeq
  <2>1. nextSeq \in nextSeq..(nextSeq + SlotCount - 1)  BY <1>3
  <2>2. nextSeq \in FreeFrom(nextSeq)  BY <1>4, <2>1 DEF FreeFrom
  <2>3. q <= nextSeq  BY <1>1, <2>2
  <2>4. q \in nextSeq..(nextSeq + SlotCount - 1)  BY DEF FreeFrom
  <2> QED BY <1>3, <2>3, <2>4
<1>6. q \in 0..MaxSeq  BY <1>1, <1>3, <1>5
<1>0. PICK k : k = Len(batch) + 1  OBVIOUS
<1>7. /\ DOMAIN batch' = 1..k /\ DOMAIN batch = 1..(k - 1) /\ k \in Nat \ {0}
      /\ \A i \in DOMAIN batch : batch'[i] = batch[i]
      /\ batch'[k].seq = q
      /\ \A i \in DOMAIN batch : Carries(i)' <=> Carries(i)
      /\ Carries(k)' <=> Reliable(Item(f).msg)
  BY <1>0, <1>1, <1>6, NewPacketGrows
<1>8. \A i \in DOMAIN batch' : i \in DOMAIN batch \/ i = k  BY <1>7
<1>9. Numbers' \subseteq Numbers \cup {nextSeq}
  <2>1. UsedSeqs' = UsedSeqs  BY <1>1 DEF UsedSeqs
  <2>2. ASSUME NEW i \in DOMAIN batch', Carries(i)' PROVE batch'[i].seq \in Numbers \cup {nextSeq}
    <3>1. CASE i \in DOMAIN batch  BY <1>7, <2>2, <3>1 DEF Numbers
    <3>2. CASE i = k  BY <1>5, <1>7, <3>2
    <3> QED BY <1>8, <3>1, <3>2
  <2> QED BY <2>1, <2>2 DEF Numbers
<1>10. \A x, y \in Numbers' : x - y < AckWindow
  <2>1. \A y \in Numbers : y \in Nat /\ y < nextSeq  BY NumbersFacts
  <2>2. ASSUME NEW x \in Numbers \cup {nextSeq}, NEW y \in Numbers \cup {nextSeq} PROVE x - y < AckWindow
    <3>1. CASE x \in Numbers /\ y \in Numbers  BY <3>1 DEF Windowed
    <3>2. CASE x = nextSeq /\ y \in Numbers  BY <1>4, <3>2
    <3>3. CASE x \in Numbers /\ y = nextSeq  BY <1>3, <2>1, <3>3
    <3>4. CASE x = nextSeq /\ y = nextSeq  BY <1>3, <3>4
    <3> QED BY <3>1, <3>2, <3>3, <3>4
  <2> QED BY <1>9, <2>2
<1>11. firstSeq < nextSeq  BY DEF Windowed
<1>12. firstSeq' < nextSeq' /\ firstSeq' # 0 /\ firstSeq' <= q /\ (firstSeq # 0 => firstSeq' = firstSeq)
  BY <1>1, <1>3, <1>5, <1>11
<1>13. ASSUME NEW i \in DOMAIN batch', Carries(i)', \A s \in SlotIds : sent'[s].seq = 0
       PROVE  firstSeq' # 0 /\ firstSeq' <= batch'[i].seq
  <2>1. CASE i \in DOMAIN batch
    <3>1. Carries(i) /\ \A s \in SlotIds : sent[s].seq = 0  BY <1>1, <1>7, <1>13, <2>1
    <3>2. firstSeq # 0 /\ firstSeq <= batch[i].seq  BY <2>1, <3>1 DEF Windowed
    <3> QED BY <1>7, <1>12, <2>1, <3>2
  <2>2. CASE i = k  BY <1>7, <1>12, <2>2
  <2> QED BY <1>8, <2>1, <2>2
<1>14. src \in Sources /\ queue[f][src] # <<>> /\ Item(f).msg = Head(queue[f][src])
  BY <1>1, ItemIsEntry, PickedFacts
<1>15. \A g \in Flows, t \in Sources : InRing(g, t)' \subseteq InRing(g, t)
  BY <1>1, TakenFacts
<1>16. (\A g \in Flows : queue[g]["retry"] = <<>> /\ queue[g]["reliable"] = <<>>) =>
         \A g \in Flows : queue'[g]["retry"] = <<>> /\ queue'[g]["reliable"] = <<>>
  BY <1>2, <1>15, QuietStays
<1>17. ASSUME NEW i \in DOMAIN batch', ~Carries(i)'
       PROVE  \/ batch'[i].seq = 0 \/ blocked'
              \/ \A g \in Flows : queue'[g]["retry"] = <<>> /\ queue'[g]["reliable"] = <<>>
  <2>1. i \in DOMAIN batch  BY <1>1, <1>7, <1>8, <1>17
  <2> QED BY <1>1, <1>7, <1>16, <1>17, <2>1 DEF Windowed
<1> QED BY <1>10, <1>12, <1>13, <1>17 DEF Windowed

LEMMA WindowOfSend ==
  ASSUME Inv, Windowed, NEW f \in Flows, NEW kind \in Kinds, NEW replaced, Send(f, kind, replaced)
  PROVE  Windowed'
<1>1. ~filling /\ batch' = batch /\ sent' = sent /\ firstSeq' = firstSeq /\ nextSeq' = nextSeq
  BY DEF Send, flush, flight
<1>2. batch' = <<>>  BY <1>1 DEF Inv, Typed
<1>3. \A s \in SlotIds : sent'[s].seq \in {0, sent[s].seq}  BY <1>1
<1>4. firstSeq' < nextSeq'  BY <1>1 DEF Windowed
<1> QED BY <1>2, <1>3, <1>4, FewerSent, WindowShrinks

LEMMA WindowOfStart ==
  ASSUME Inv, Windowed, StartFlushEarly \/ \E n \in 0..SlotCount : StartFlush(n)
  PROVE  Windowed'
<1>1. /\ ~filling /\ batch' = batch /\ firstSeq' = 0 /\ nextSeq' = nextSeq
      /\ sent' = sent \/ \E S : sent' = [s \in SlotIds |-> IF sent[s].seq \in S THEN Unused ELSE sent[s]]
  <2>1. CASE StartFlushEarly  BY <2>1 DEF StartFlushEarly, flight
  <2>2. ASSUME NEW n \in 0..SlotCount, StartFlush(n)
        PROVE  /\ ~filling /\ batch' = batch /\ firstSeq' = 0 /\ nextSeq' = nextSeq
               /\ \E S : sent' = [s \in SlotIds |-> IF sent[s].seq \in S THEN Unused ELSE sent[s]]
    BY <2>2 DEF StartFlush
  <2> QED BY <2>1, <2>2
<1>2. batch' = <<>>  BY <1>1 DEF Inv, Typed
<1>3. \A s \in SlotIds : sent'[s].seq \in {0, sent[s].seq}  BY <1>1 DEF Unused
<1>4. firstSeq' < nextSeq'  BY <1>1, Consts DEF Inv, Typed
<1> QED BY <1>2, <1>3, <1>4, FewerSent, WindowShrinks

LEMMA WindowOfAck ==
  ASSUME Inv, Windowed, NEW a \in Acks, ReceiveAck(a)
  PROVE  Windowed'
<1>1. /\ ~filling /\ batch' = batch /\ firstSeq' = firstSeq /\ nextSeq' = nextSeq
      /\ \A s \in SlotIds : sent'[s] = Unused \/ \E r : sent'[s] = [sent[s] EXCEPT !.refs = r]
  BY DEF ReceiveAck, flush
<1>2. batch' = <<>>  BY <1>1 DEF Inv, Typed
<1>3. ASSUME NEW s \in SlotIds PROVE sent'[s].seq \in {0, sent[s].seq}
  <2>1. sent[s] \in [seq : 0..MaxSeq, refs : Seq(Msgs)]  BY DEF Inv, Typed
  <2>2. CASE sent'[s] = Unused  BY <2>2 DEF Unused
  <2>3. ASSUME NEW r, sent'[s] = [sent[s] EXCEPT !.refs = r] PROVE sent'[s].seq = sent[s].seq
    BY <2>1, <2>3
  <2> QED BY <1>1, <2>2, <2>3
<1>4. firstSeq' < nextSeq'  BY <1>1 DEF Windowed
<1> QED BY <1>2, <1>3, <1>4, FewerSent, WindowShrinks

(* The packets the socket takes keep their numbers.                         *)
LEMMA NumbersOfBatch ==
  ASSUME Inv, NEW k \in 0..Len(batch), SendBatch(k)
  PROVE  batch' = <<>> /\ Numbers' \subseteq Numbers
<1>1. batch' = <<>> /\ sent' = SentAfter(k)  BY DEF SendBatch
<1>2. DOMAIN batch' = {}  BY <1>1
<1>3. /\ \A s \in SlotIds : (\A i \in Sure(k) : Slot(batch[i].seq) # s) => SentAfter(k)[s] = sent[s]
      /\ \A i \in Sure(k) : SentAfter(k)[Slot(batch[i].seq)] =
                              [seq |-> batch[i].seq, refs |-> PacketRefs(batch[i])]
  BY SentAfterFacts
<1>4. \A i \in Sure(k) : i \in DOMAIN batch /\ Carries(i)  BY RecordedFacts
<1>5. ASSUME NEW s \in SlotIds, sent'[s].seq # 0 PROVE sent'[s].seq \in Numbers
  <2>1. CASE \A i \in Sure(k) : Slot(batch[i].seq) # s
    BY <1>1, <1>3, <1>5, <2>1 DEF Numbers, UsedSeqs
  <2>2. ASSUME NEW i \in Sure(k), Slot(batch[i].seq) = s PROVE sent'[s].seq \in Numbers
    <3>0. SentAfter(k)[Slot(batch[i].seq)] = [seq |-> batch[i].seq, refs |-> PacketRefs(batch[i])]
      BY <1>3
    <3>1. sent'[s].seq = batch[i].seq
      <4>1. SentAfter(k)[s] = [seq |-> batch[i].seq, refs |-> PacketRefs(batch[i])]  BY <2>2, <3>0
      <4>2. SentAfter(k)[s].seq = batch[i].seq  BY <4>1
      <4> QED BY <1>1, <4>2
    <3> QED BY <1>4, <3>1 DEF Numbers
  <2> QED BY <2>1, <2>2
<1> QED BY <1>1, <1>2, <1>5 DEF Numbers, UsedSeqs

LEMMA WindowOfBatch ==
  ASSUME Inv, Windowed, NEW k \in 0..BatchSize, SendFullBatch(k) \/ EndFlush(k)
  PROVE  Windowed'
<1>1. SendBatch(k) /\ firstSeq' = firstSeq /\ nextSeq' = nextSeq /\ k <= Len(batch)
  BY DEF SendFullBatch, EndFlush
<1>2. k \in 0..Len(batch)
  <2>1. Len(batch) \in Nat  BY BatchIsInjective
  <2> QED BY <1>1, <2>1, Consts
<1>3. firstSeq' < nextSeq'  BY <1>1 DEF Windowed
<1> QED BY <1>1, <1>2, <1>3, NumbersOfBatch, WindowShrinks

LEMMA WindowOfOthers ==
  ASSUME Inv, Inv', Windowed,
         (\E f \in Flows : ExpireHead(f) \/ BlockReliable(f)) \/ (\E q \in Seqs : PeerRecords(q))
           \/ UNCHANGED vars
  PROVE  Windowed'
<1>1. firstSeq \in Nat /\ nextSeq \in Nat /\ SlotCount \in Nat /\ firstSeq < nextSeq
  BY Consts DEF Inv, Typed, Windowed
<1>2. ASSUME NEW f \in Flows, ExpireHead(f) PROVE Windowed'
  <2>1. /\ IsPicked(f) /\ Take(f) /\ info' = info /\ batch' = batch /\ sent' = sent
        /\ firstSeq' = firstSeq /\ nextSeq' = nextSeq /\ blocked' = blocked
    BY <1>2 DEF ExpireHead, Take, flush
  <2>2. Typed /\ Typed'  BY DEF Inv
  <2>3. (\A g \in Flows : queue[g]["retry"] = <<>> /\ queue[g]["reliable"] = <<>>) =>
          \A g \in Flows : queue'[g]["retry"] = <<>> /\ queue'[g]["reliable"] = <<>>
    BY <2>1, <2>2, TakenFacts, QuietStays
  <2>4. firstSeq' < nextSeq'  BY <1>1, <2>1
  <2> HIDE DEF Inv
  <2> QED BY <2>1, <2>3, <2>4, WindowStays
<1>3. ASSUME NEW f \in Flows, BlockReliable(f) PROVE Windowed'
  <2>1. /\ info' = info /\ batch' = batch /\ sent' = sent /\ firstSeq' = firstSeq /\ blocked'
        /\ nextSeq' = (IF WindowAllows(nextSeq) THEN nextSeq + SlotCount ELSE nextSeq)
    BY <1>3 DEF BlockReliable
  <2>2. firstSeq' < nextSeq'  BY <1>1, <2>1
  <2> QED BY <2>1, <2>2, WindowStays
<1>4. ASSUME queue' = queue, info' = info, batch' = batch, sent' = sent, firstSeq' = firstSeq,
             blocked' = blocked, nextSeq' = nextSeq
      PROVE  Windowed'
  <2>1. firstSeq' < nextSeq'  BY <1>1, <1>4
  <2> QED BY <1>4, <2>1, WindowStays
<1>5. ASSUME NEW q \in Seqs, PeerRecords(q) PROVE Windowed'
  BY <1>4, <1>5 DEF PeerRecords, flush, flight
<1>6. CASE UNCHANGED vars  BY <1>4, <1>6 DEF vars, flush, flight
<1> QED BY <1>2, <1>3, <1>5, <1>6

LEMMA WindowStep == ASSUME Inv, Inv', Windowed, Sequential, [Next]_vars PROVE Windowed'
<1>1. ASSUME NEW f \in Flows, NEW kind \in Kinds, NEW replaced \in SUBSET InRing(f, "unreliable"),
             Send(f, kind, replaced) PROVE Windowed'
  BY <1>1, WindowOfSend
<1>2. CASE StartFlushEarly \/ \E n \in 0..SlotCount : StartFlush(n)  BY <1>2, WindowOfStart
<1>3. ASSUME NEW f \in Flows, JoinPacket(f) PROVE Windowed'  BY <1>3, WindowOfJoin
<1>4. ASSUME NEW f \in Flows, NewUnreliable(f) PROVE Windowed'  BY <1>4, WindowOfUnreliable
<1>5. ASSUME NEW f \in Flows, NewReliable(f) PROVE Windowed'  BY <1>5, WindowOfReliable DEF Sequential
<1>6. ASSUME NEW k \in 0..BatchSize, SendFullBatch(k) \/ EndFlush(k) PROVE Windowed'  BY <1>6, WindowOfBatch
<1>7. ASSUME NEW a \in Acks, ReceiveAck(a) PROVE Windowed'  BY <1>7, WindowOfAck
<1>8. CASE (\E f \in Flows : ExpireHead(f) \/ BlockReliable(f)) \/ (\E q \in Seqs : PeerRecords(q))
             \/ UNCHANGED vars
  BY <1>8, WindowOfOthers
<1> QED
  BY <1>1, <1>2, <1>3, <1>4, <1>5, <1>6, <1>7, <1>8 DEF Next

(* WithinAckWindow: reliable_window_allows keeps the packets in flight      *)
(* within the width of the bitmap, where the window is at most the number   *)
(* of slots and unreliable packets get no numbers or there is one flow.     *)
THEOREM WindowIsKept == ASSUME Sequential PROVE Spec => []WithinAckWindow
<1>1. Init => Inv /\ Windowed
  <2> SUFFICES ASSUME Init PROVE Inv /\ Windowed  OBVIOUS
  <2>1. Inv  BY InitInv
  <2>2. firstSeq = 0 /\ nextSeq = 1 /\ batch = <<>> /\ \A s \in SlotIds : sent[s].seq = 0
    BY DEF Init, Unused
  <2>3. DOMAIN batch = {} /\ Numbers = {}  BY <2>2 DEF Numbers, UsedSeqs
  <2> QED BY <2>1, <2>2, <2>3 DEF Windowed
<1>2. Inv /\ Windowed /\ [Next]_vars => Inv' /\ Windowed'
  <2> SUFFICES ASSUME Inv, Windowed, [Next]_vars PROVE Inv' /\ Windowed'  OBVIOUS
  <2>1. Inv'  BY StepKeeps
  <2> QED BY <2>1, WindowStep
<1>3. Windowed => WithinAckWindow
  BY DEF Windowed, WithinAckWindow, Numbers, UsedSeqs
<1> QED BY <1>1, <1>2, <1>3, PTL DEF Spec

-----------------------------------------------------------------------------
(* The room for retransmissions.                                            *)

(* Sets that sequences of at most R entries cover.                          *)
LEMMA CoveredFits ==
  ASSUME NEW N, IsFiniteSet(N), NEW R \in Nat, NEW X, NEW C \in [N -> Seq(X)],
         \A q \in N : Len(C[q]) <= R, NEW M, \A m \in M : \E q \in N : m \in ToSet(C[q])
  PROVE  IsFiniteSet(M) /\ Cardinality(M) <= Cardinality(N) * R
<1> DEFINE I == 1..R
           J == {p \in N \X I : p[2] <= Len(C[p[1]])}
           T == {C[p[1]][p[2]] : p \in J}
           g == [p \in J |-> C[p[1]][p[2]]]
<1>1. IsFiniteSet(I) /\ Cardinality(I) = R
  <2>1. IsFiniteSet(1..R) /\ Cardinality(1..R) = IF 1 > R THEN 0 ELSE R - 1 + 1
    <3>1. 1 \in Int /\ R \in Int  OBVIOUS
    <3> QED BY <3>1, FS_Interval
  <2> QED BY <2>1
<1>2. IsFiniteSet(N \X I) /\ Cardinality(N \X I) = Cardinality(N) * R
  <2> HIDE DEF I
  <2>1. IsFiniteSet(N \X I) /\ Cardinality(N \X I) = Cardinality(N) * Cardinality(I)
    BY <1>1, FS_Product
  <2> QED BY <1>1, <2>1
<1>3. IsFiniteSet(J) /\ Cardinality(J) <= Cardinality(N) * R /\ Cardinality(J) \in Nat
  <2>1. J \subseteq N \X I  OBVIOUS
  <2> HIDE DEF J, I
  <2> QED BY <1>2, <2>1, FS_Subset, FS_CardinalityType
<1>4. g \in Surjection(J, T)
  <2>1. g \in [J -> T] /\ \A t \in T : \E p \in J : g[p] = t  OBVIOUS
  <2> HIDE DEF g, J, T
  <2> QED BY <2>1 DEF Surjection
<1>5. IsFiniteSet(T) /\ Cardinality(T) <= Cardinality(J)
  <2> HIDE DEF g, J, T
  <2> QED BY <1>3, <1>4, FS_Surjection
<1>6. M \subseteq T
  <2> SUFFICES ASSUME NEW m \in M PROVE m \in T  OBVIOUS
  <2>1. PICK q \in N : m \in ToSet(C[q])  OBVIOUS
  <2> DEFINE s == C[q]
  <2>2. s \in Seq(X) /\ Len(s) <= R /\ m \in ToSet(s)  BY <2>1
  <2>3. PICK i \in 1..Len(s) : m = s[i]
    <3> HIDE DEF s
    <3> QED BY <2>2, ToSetOf
  <2>4. i \in I /\ i <= Len(s)
    <3>1. Len(s) \in Nat
      <4> HIDE DEF s
      <4> QED BY <2>2, ToSetOf
    <3> QED BY <2>2, <3>1
  <2>5. <<q, i>> \in J  BY <2>4
  <2>6. PICK p : p = <<q, i>>  OBVIOUS
  <2>7. p[1] = q /\ p[2] = i  BY <2>6
  <2>8. p \in J /\ m = C[p[1]][p[2]]  BY <2>3, <2>5, <2>6, <2>7
  <2> HIDE DEF J
  <2> QED BY <2>8
<1> HIDE DEF I, J, T, g
<1>7. IsFiniteSet(M) /\ Cardinality(M) <= Cardinality(T)  BY <1>5, <1>6, FS_Subset
<1>8. Cardinality(M) \in Nat /\ Cardinality(T) \in Nat /\ Cardinality(N) \in Nat
  BY <1>5, <1>7, FS_CardinalityType
<1>9. Cardinality(N) * R \in Nat  BY <1>8
<1> QED BY <1>3, <1>5, <1>7, <1>8, <1>9

(* The packets have slots of their own.                                     *)
LEMMA NumbersFit == ASSUME Inv PROVE IsFiniteSet(Numbers) /\ Cardinality(Numbers) <= SlotCount
<1> DEFINE h == [q \in Numbers |-> Slot(q)]
           N == Numbers
<1>1. /\ \A y \in Numbers : y \in Nat /\ y # 0 /\ y < nextSeq
      /\ \A y \in Numbers : y \in UsedSeqs \/ \E i \in DOMAIN batch : Carries(i) /\ y = batch[i].seq
  BY NumbersFacts
<1>2. \A q \in UsedSeqs : q # 0 /\ sent[Slot(q)].seq = q
  <2>1. \A q \in UsedSeqs : q \in Seqs /\ Slot(q) \in SlotIds /\ sent[Slot(q)].seq = q  BY LiveFacts DEF Inv
  <2> QED BY <2>1, Consts DEF Seqs
<1>3. ASSUME NEW q \in Numbers, NEW r \in Numbers, Slot(q) = Slot(r) PROVE q = r
  <2>1. CASE q \in UsedSeqs /\ r \in UsedSeqs  BY <1>2, <1>3, <2>1
  <2>2. ASSUME q \in UsedSeqs, NEW i \in DOMAIN batch, Carries(i), r = batch[i].seq PROVE q = r
    BY <1>2, <1>3, <2>2 DEF Inv, Numbered
  <2>3. ASSUME r \in UsedSeqs, NEW i \in DOMAIN batch, Carries(i), q = batch[i].seq PROVE q = r
    BY <1>2, <1>3, <2>3 DEF Inv, Numbered
  <2>4. ASSUME NEW i \in DOMAIN batch, Carries(i), q = batch[i].seq,
               NEW j \in DOMAIN batch, Carries(j), r = batch[j].seq PROVE q = r
    BY <1>3, <2>4 DEF Inv, Numbered
  <2> QED BY <1>1, <2>1, <2>2, <2>3, <2>4
<1>4. \A q \in Numbers : Slot(q) \in SlotIds  BY <1>1, SlotIsSlot
<1>5. IsFiniteSet(SlotIds) /\ Cardinality(SlotIds) = SlotCount
  <2>1. SlotCount \in Nat /\ SlotCount >= 1  BY Consts
  <2>2. IsFiniteSet(0..(SlotCount - 1)) /\ Cardinality(0..(SlotCount - 1)) = IF 0 > SlotCount - 1 THEN 0 ELSE (SlotCount - 1) - 0 + 1
    <3>1. 0 \in Int /\ SlotCount - 1 \in Int  BY <2>1
    <3> QED BY <3>1, FS_Interval
  <2> QED BY <2>1, <2>2 DEF SlotIds
<1> HIDE DEF Numbers
<1>6. h \in Injection(N, SlotIds)
  <2>1. h \in [N -> SlotIds] /\ \A a, b \in N : h[a] = h[b] => a = b  BY <1>3, <1>4
  <2> HIDE DEF h, N
  <2> QED BY <2>1 DEF Injection, IsInjective
<1> HIDE DEF h
<1>7. IsFiniteSet(N) /\ Cardinality(N) <= Cardinality(SlotIds)
  <2> HIDE DEF N
  <2> QED BY <1>5, <1>6, FS_Injection
<1> QED BY <1>5, <1>7

(* The window bounds them too.                                              *)
LEMMA NumbersNarrow == ASSUME Inv, Windowed PROVE Cardinality(Numbers) <= AckWindow
<1>1. \A y \in Numbers : y \in Nat  BY NumbersFacts
<1>2. AckWindow \in Nat /\ AckWindow >= 1  BY Consts
<1>3. \A x, y \in Numbers : x - y < AckWindow  BY DEF Windowed
<1>4. CASE Numbers = {}  BY <1>2, <1>4, FS_EmptySet
<1>5. CASE Numbers # {}
  <2> DEFINE N == Numbers
  <2>1. N \in SUBSET Nat /\ N # {}  BY <1>1, <1>5
  <2>2. PICK o \in N : \A y \in N : o <= y
    <3> HIDE DEF N
    <3> QED BY <2>1, LeastExists
  <2> DEFINE b == o + AckWindow - 1
             W == o..b
  <2>3. o \in Nat /\ b \in Int /\ o <= b  BY <1>2, <2>1
  <2>4. N \subseteq W  BY <1>2, <1>3, <2>1, <2>2
  <2>5. IsFiniteSet(W) /\ Cardinality(W) = AckWindow
    <3>1. IsFiniteSet(o..b) /\ Cardinality(o..b) = IF o > b THEN 0 ELSE b - o + 1
      <4> HIDE DEF b
      <4>1. o \in Int  BY <2>3
      <4> QED BY <2>3, <4>1, FS_Interval
    <3>2. b - o + 1 = AckWindow  BY <1>2, <2>3
    <3> HIDE DEF b
    <3>3. ~(o > b)  BY <2>3
    <3> QED BY <3>1, <3>2, <3>3
  <2> HIDE DEF N, W
  <2>6. Cardinality(N) <= Cardinality(W)  BY <2>4, <2>5, FS_Subset
  <2> QED BY <2>5, <2>6 DEF N
<1> QED BY <1>4, <1>5

LEMMA TimesGrows ==
  ASSUME NEW a \in Nat, NEW b \in Nat, NEW r \in Nat, a <= b
  PROVE  a * r <= b * r
OBVIOUS

(* What the packets carry.                                                  *)
Load(q) ==
  CHOOSE s \in Seq(Msgs) :
    /\ Len(s) <= RefsPerPacket
    /\ q \in UsedSeqs => ToSet(Refs(q)) \subseteq ToSet(s)
    /\ \A i \in DOMAIN batch : Carries(i) /\ q = batch[i].seq => ToSet(PacketRefs(batch[i])) \subseteq ToSet(s)

LEMMA LoadFacts ==
  ASSUME Inv, NEW q \in Numbers
  PROVE  /\ Load(q) \in Seq(Msgs) /\ Len(Load(q)) <= RefsPerPacket
         /\ q \in UsedSeqs => ToSet(Refs(q)) \subseteq ToSet(Load(q))
         /\ \A i \in DOMAIN batch : Carries(i) /\ q = batch[i].seq =>
              ToSet(PacketRefs(batch[i])) \subseteq ToSet(Load(q))
<1> USE DEF Inv
<1>1. q \in Nat /\ q # 0 /\ (q \in UsedSeqs \/ \E i \in DOMAIN batch : Carries(i) /\ q = batch[i].seq)
  BY NumbersFacts
<1>2. \A i \in DOMAIN batch : Carries(i) /\ q = batch[i].seq =>
        sent[Slot(q)].seq = 0 /\ \A j \in DOMAIN batch : Carries(j) /\ q = batch[j].seq => j = i
  BY DEF Numbered
<1>3. \A x \in UsedSeqs : x \in Seqs /\ Slot(x) \in SlotIds /\ sent[Slot(x)].seq = x  BY LiveFacts
<1> DEFINE Fits(s) ==
      /\ Len(s) <= RefsPerPacket
      /\ q \in UsedSeqs => ToSet(Refs(q)) \subseteq ToSet(s)
      /\ \A i \in DOMAIN batch : Carries(i) /\ q = batch[i].seq => ToSet(PacketRefs(batch[i])) \subseteq ToSet(s)
<1>4. \E s \in Seq(Msgs) : Fits(s)
  <2>1. CASE q \in UsedSeqs
    <3>1. Refs(q) \in Seq(Msgs) /\ Len(Refs(q)) <= RefsPerPacket
      BY <1>3, <2>1 DEF Refs, Typed, SlotsHold
    <3>2. \A i \in DOMAIN batch : ~(Carries(i) /\ q = batch[i].seq)  BY <1>1, <1>2, <1>3, <2>1
    <3> QED BY <3>1, <3>2
  <2>2. ASSUME q \notin UsedSeqs, NEW i \in DOMAIN batch, Carries(i), q = batch[i].seq
        PROVE  \E s \in Seq(Msgs) : Fits(s)
    <3>1. batch[i] \in Packet /\ ItemsApart(batch[i]) /\ Len(batch[i].items) <= RefsPerPacket
      BY PackedIsTyped DEF BatchHolds
    <3> DEFINE p == batch[i]
    <3>2. p \in Packet /\ ItemsApart(p)  BY <3>1
    <3> HIDE DEF p
    <3>3. PacketRefs(p) \in Seq(Msgs) /\ Len(PacketRefs(p)) <= Len(p.items) /\ p.items \in Seq(Entry)
      BY <3>2, RefsOfPacket
    <3>4. Len(PacketRefs(p)) \in Nat /\ Len(p.items) \in Nat  BY <3>3, ToSetOf
    <3>5. Len(PacketRefs(p)) <= RefsPerPacket
      <4>1. Len(p.items) <= RefsPerPacket  BY <3>1 DEF p
      <4> QED BY <3>3, <3>4, <4>1, Consts
    <3>6. \A j \in DOMAIN batch : Carries(j) /\ q = batch[j].seq => j = i  BY <1>2, <2>2
    <3>7. Fits(PacketRefs(p))  BY <2>2, <3>5, <3>6 DEF p
    <3> QED BY <3>3, <3>7
  <2> QED BY <1>1, <2>1, <2>2
<1>5. Load(q) = CHOOSE s \in Seq(Msgs) : Fits(s)  BY DEF Load
<1> HIDE DEF Fits
<1>6. Load(q) \in Seq(Msgs) /\ Fits(Load(q))  BY <1>4, <1>5
<1> QED BY <1>6 DEF Fits

LEMMA CarriedFits ==
  ASSUME Inv
  PROVE  Cardinality({m \in InBatch \cup InFlight : Reliable(m)}) <= Cardinality(Numbers) * RefsPerPacket
<1> DEFINE M == {m \in InBatch \cup InFlight : Reliable(m)}
           C == [q \in Numbers |-> Load(q)]
<1>1. /\ \A q \in Numbers : Load(q) \in Seq(Msgs) /\ Len(Load(q)) <= RefsPerPacket
      /\ \A q \in Numbers : q \in UsedSeqs => ToSet(Refs(q)) \subseteq ToSet(Load(q))
      /\ \A q \in Numbers : \A i \in DOMAIN batch : Carries(i) /\ q = batch[i].seq =>
           ToSet(PacketRefs(batch[i])) \subseteq ToSet(Load(q))
  BY LoadFacts
<1>2. C \in [Numbers -> Seq(Msgs)] /\ \A q \in Numbers : C[q] = Load(q) /\ Len(C[q]) <= RefsPerPacket
  BY <1>1
<1>3. IsFiniteSet(Numbers) /\ RefsPerPacket \in Nat  BY NumbersFit, Consts
<1>4. ASSUME NEW m \in M PROVE \E q \in Numbers : m \in ToSet(C[q])
  <2>1. CASE m \in InFlight
    <3>1. PICK s \in SlotIds : m \in ToSet(sent[s].refs)  BY <2>1 DEF InFlight
    <3>2. sent[s].refs # <<>>  BY <3>1, EmptyToSet
    <3>3. sent[s].seq # 0 /\ Slot(sent[s].seq) = s  BY <3>2 DEF Inv, SlotsHold
    <3>4. sent[s].seq \in UsedSeqs /\ sent[s].seq \in Numbers  BY <3>3 DEF UsedSeqs, Numbers
    <3>5. Refs(sent[s].seq) = sent[s].refs  BY <3>3 DEF Refs
    <3>6. m \in ToSet(Load(sent[s].seq))
      <4>1. ToSet(Refs(sent[s].seq)) \subseteq ToSet(Load(sent[s].seq))  BY <1>1, <3>4
      <4>2. m \in ToSet(Refs(sent[s].seq))  BY <3>1, <3>5
      <4> QED BY <4>1, <4>2
    <3>7. C[sent[s].seq] = Load(sent[s].seq)  BY <1>2, <3>4
    <3>8. m \in ToSet(C[sent[s].seq])  BY <3>6, <3>7
    <3> QED BY <3>4, <3>8
  <2>2. CASE m \in InBatch
    <3>1. PICK i \in DOMAIN batch : m \in Items(batch[i])  BY <2>2 DEF InBatch
    <3>2. batch[i] \in Packet /\ ItemsApart(batch[i]) /\ Items(batch[i]) = {x.msg : x \in ToSet(batch[i].items)}
      BY PackedIsTyped DEF Inv
    <3>3. Reliable(m)  OBVIOUS
    <3>4. Carries(i)  BY <3>1, <3>2, <3>3 DEF Carries
    <3>5. ToSet(PacketRefs(batch[i])) = {z \in Items(batch[i]) : Reliable(z)}
      <4> DEFINE p == batch[i]
      <4>1. p \in Packet /\ ItemsApart(p)  BY <3>2
      <4> HIDE DEF p
      <4>2. ToSet(PacketRefs(p)) = {z \in Items(p) : Reliable(z)}  BY <4>1, RefsOfPacket
      <4> QED BY <4>2 DEF p
    <3>6. batch[i].seq \in Numbers  BY <3>4 DEF Numbers
    <3>7. ToSet(PacketRefs(batch[i])) \subseteq ToSet(Load(batch[i].seq))  BY <1>1, <3>4, <3>6
    <3>8. m \in ToSet(C[batch[i].seq])  BY <1>2, <3>1, <3>3, <3>5, <3>6, <3>7
    <3> QED BY <3>6, <3>8
  <2> QED BY <2>1, <2>2
<1> HIDE DEF C, M, Inv
<1>5. Cardinality(M) <= Cardinality(Numbers) * RefsPerPacket
  <2> DEFINE N == Numbers
  <2>1. /\ IsFiniteSet(N) /\ RefsPerPacket \in Nat /\ C \in [N -> Seq(Msgs)]
        /\ \A q \in N : Len(C[q]) <= RefsPerPacket
        /\ \A m \in M : \E q \in N : m \in ToSet(C[q])
    BY <1>2, <1>3, <1>4
  <2> HIDE DEF N
  <2>2. Cardinality(M) <= Cardinality(N) * RefsPerPacket  BY <2>1, CoveredFits
  <2> QED BY <2>2 DEF N
<1> QED BY <1>5 DEF M

(* The room of a retry ring, in either of three ways. The benchmark adapter *)
(* has 4096 messages and 4096 slots for rings of as little as 1024 entries, *)
(* but a window of 64 packets of 16 messages: the third way, with nothing   *)
(* to spare.                                                                *)
RetryFits ==
  \/ MaxMessages <= RingCap
  \/ SlotCount * RefsPerPacket <= RingCap
  \/ Sequential /\ AckWindow * RefsPerPacket <= RingCap

LEMMA RetryFacts ==
  ASSUME Inv, NEW f \in Flows
  PROVE  /\ MayRetry(f) = {m \in InBatch \cup InFlight \cup InRing(f, "retry") : info[m].flow = f /\ Reliable(m)}
         /\ MayRetry(f) \subseteq Alive /\ MayRetry(f) \in SUBSET Msgs /\ IsFiniteSet(MayRetry(f))
<1>1. \A g \in Flows : \A m \in InRing(g, "retry") : info[m].flow = g
  <2>1. "retry" \in Sources  BY DEF Sources
  <2> QED BY <2>1 DEF Inv, RingsHold
<1>2. \A g \in Flows : InRing(g, "retry") \subseteq Queued
  <2>1. "retry" \in Sources  BY DEF Sources
  <2> QED BY <2>1 DEF Queued
<1>3. MayRetry(f) \subseteq Alive  BY <1>2 DEF MayRetry, Alive
<1>4. Alive \in SUBSET Msgs  BY PlacesAreMsgs DEF Inv
<1>5. MayRetry(f) \in SUBSET Msgs  BY <1>3, <1>4
<1>6. IsFiniteSet(MayRetry(f))  BY <1>5, MsgsAreFinite
<1>7. MayRetry(f) = {m \in InBatch \cup InFlight \cup InRing(f, "retry") : info[m].flow = f /\ Reliable(m)}
  BY <1>1 DEF MayRetry
<1> QED BY <1>3, <1>5, <1>6, <1>7

(* A flow with nothing to retry has room for all that is on its way.        *)
LEMMA RoomForFlight ==
  Inv /\ (Sequential => Windowed) /\ RetryFits =>
    \A f \in Flows : InRing(f, "retry") = {} => Cardinality(MayRetry(f)) <= RingCap
<1> SUFFICES ASSUME Inv, Sequential => Windowed, RetryFits, NEW f \in Flows, InRing(f, "retry") = {}
             PROVE  Cardinality(MayRetry(f)) <= RingCap
  OBVIOUS
<1>1. /\ MayRetry(f) = {m \in InBatch \cup InFlight \cup InRing(f, "retry") : info[m].flow = f /\ Reliable(m)}
      /\ MayRetry(f) \subseteq Alive /\ MayRetry(f) \in SUBSET Msgs
  BY RetryFacts
<1>2. RingCap \in Nat /\ RefsPerPacket \in Nat /\ SlotCount \in Nat /\ AckWindow \in Nat /\ MaxMessages \in Nat
  BY Consts
<1>3. CASE MaxMessages <= RingCap
  <2>1. Alive \in SUBSET Msgs /\ Cardinality(Alive) <= MaxMessages  BY PlacesAreMsgs DEF Inv, RoomLeft
  <2>2. Cardinality(MayRetry(f)) <= MaxMessages  BY <1>1, <1>2, <2>1, SubsetFits
  <2>3. Cardinality(MayRetry(f)) \in Nat  BY <1>1, MsgsAreFinite
  <2> QED BY <1>2, <1>3, <2>2, <2>3
<1> DEFINE B == {m \in InBatch \cup InFlight : Reliable(m)}
           n == Cardinality(Numbers)
<1>4. MayRetry(f) \in SUBSET B  BY <1>1
<1>5. n \in Nat /\ n <= SlotCount /\ (Sequential => n <= AckWindow)
  <2>1. n \in Nat /\ n <= SlotCount  BY NumbersFit, FS_CardinalityType
  <2>2. Sequential => n <= AckWindow  BY NumbersNarrow
  <2> QED BY <2>1, <2>2
<1>6. Cardinality(B) <= n * RefsPerPacket  BY CarriedFits
<1>7. B \in SUBSET Msgs
  <2>1. B \subseteq Alive  BY DEF Alive
  <2> QED BY <2>1, PlacesAreMsgs DEF Inv
<1> HIDE DEF n, B
<1>8. Cardinality(MayRetry(f)) <= n * RefsPerPacket
  <2>1. n * RefsPerPacket \in Nat  BY <1>2, <1>5
  <2> QED BY <1>4, <1>6, <1>7, <2>1, SubsetFits
<1>9. Cardinality(MayRetry(f)) \in Nat /\ n * RefsPerPacket \in Nat  BY <1>1, <1>2, <1>5, MsgsAreFinite
<1>10. CASE SlotCount * RefsPerPacket <= RingCap
  <2>1. n * RefsPerPacket <= SlotCount * RefsPerPacket  BY <1>2, <1>5, TimesGrows
  <2>2. SlotCount * RefsPerPacket \in Nat  BY <1>2
  <2> QED BY <1>2, <1>8, <1>9, <1>10, <2>1, <2>2
<1>11. CASE Sequential /\ AckWindow * RefsPerPacket <= RingCap
  <2>1. n * RefsPerPacket <= AckWindow * RefsPerPacket  BY <1>2, <1>5, <1>11, TimesGrows
  <2>2. AckWindow * RefsPerPacket \in Nat  BY <1>2
  <2> QED BY <1>2, <1>8, <1>9, <1>11, <2>1, <2>2
<1> QED BY <1>3, <1>10, <1>11 DEF RetryFits

LEMMA RoomForFlightNext ==
  (Inv /\ (Sequential => Windowed) /\ RetryFits)' =>
    (\A f \in Flows : InRing(f, "retry") = {} => Cardinality(MayRetry(f)) <= RingCap)'
BY RoomForFlight, PTL

(* The reliable messages that are on their way, or are to go again.         *)
OnWay == {m \in InBatch \cup InFlight \cup UNION {InRing(g, "retry") : g \in Flows} : Reliable(m)}

LEMMA OnWayFacts ==
  Inv => /\ OnWay \subseteq Alive /\ OnWay \subseteq DOMAIN info /\ OnWay \in SUBSET Msgs
         /\ \A f \in Flows : MayRetry(f) = {m \in OnWay : info[m].flow = f}
         /\ \A f \in Flows : \A m \in InRing(f, "retry") : info[m].flow = f /\ m \in OnWay
         /\ \A m : m \in OnWay <=>
              /\ m \in InBatch \/ m \in InFlight \/ \E g \in Flows : m \in InRing(g, "retry")
              /\ Reliable(m)
<1> HAVE Inv
<1>1. "retry" \in Sources  BY DEF Sources
<1>2. \A g \in Flows : InRing(g, "retry") \subseteq Queued  BY <1>1 DEF Queued
<1>3. OnWay \subseteq Alive  BY <1>2 DEF OnWay, Alive
<1>4. \A m \in Alive : m \in DOMAIN info /\ m \in Msgs  BY LossyIsKnown DEF Inv
<1>5. \A f \in Flows : MayRetry(f) = {m \in OnWay : info[m].flow = f}  BY DEF MayRetry, OnWay
<1>6. ASSUME NEW f \in Flows, NEW m \in InRing(f, "retry") PROVE info[m].flow = f /\ m \in OnWay
  <2>1. info[m].flow = f /\ Reliable(m)  BY <1>1 DEF Inv, RingsHold
  <2> QED BY <2>1 DEF OnWay
<1>7. \A m : m \in OnWay <=>
              /\ m \in InBatch \/ m \in InFlight \/ \E g \in Flows : m \in InRing(g, "retry")
              /\ Reliable(m)
  BY DEF OnWay
<1> QED BY <1>3, <1>4, <1>5, <1>6, <1>7

LEMMA OnWayNext ==
  Inv' => /\ (\A f \in Flows : MayRetry(f) = {m \in OnWay : info[m].flow = f})'
          /\ (\A f \in Flows : \A m \in InRing(f, "retry") : info[m].flow = f /\ m \in OnWay)'
          /\ (\A m : m \in OnWay <=>
              /\ m \in InBatch \/ m \in InFlight \/ \E g \in Flows : m \in InRing(g, "retry")
              /\ Reliable(m))'
<1>1. Inv => /\ (\A f \in Flows : MayRetry(f) = {m \in OnWay : info[m].flow = f})
             /\ (\A f \in Flows : \A m \in InRing(f, "retry") : info[m].flow = f /\ m \in OnWay)
             /\ (\A m : m \in OnWay <=>
                  /\ m \in InBatch \/ m \in InFlight \/ \E g \in Flows : m \in InRing(g, "retry")
                  /\ Reliable(m))
  BY OnWayFacts
<1> QED BY <1>1, PTL

(* Nothing new is on its way, in one flow or in all.                        *)
LEMMA FlowShrinks ==
  ASSUME Inv, Inv', RetryRoom, NEW f \in Flows, MayRetry(f)' \subseteq MayRetry(f)
  PROVE  Cardinality(MayRetry(f)') <= RingCap
<1>1. MayRetry(f) \in SUBSET Msgs /\ MayRetry(f)' \in SUBSET MayRetry(f) /\ RingCap \in Nat
  BY RetryFacts, Consts
<1>2. Cardinality(MayRetry(f)) <= RingCap  BY DEF RetryRoom
<1> HIDE DEF MayRetry
<1> QED BY <1>1, <1>2, SubsetFits

LEMMA WayShrinks ==
  ASSUME Inv, Inv', RetryRoom, OnWay' \subseteq OnWay,
         \A m \in DOMAIN info : info'[m].flow = info[m].flow
  PROVE  RetryRoom'
<1>1. ASSUME NEW f \in Flows PROVE Cardinality(MayRetry(f)') <= RingCap
  <2>1. MayRetry(f)' = {m \in OnWay' : info'[m].flow = f}  BY OnWayNext
  <2>2. MayRetry(f) = {m \in OnWay : info[m].flow = f} /\ OnWay \subseteq DOMAIN info  BY OnWayFacts
  <2>3. MayRetry(f)' \subseteq MayRetry(f)  BY <2>1, <2>2
  <2> QED BY <2>3, FlowShrinks
<1> QED BY <1>1 DEF RetryRoom

(* A step that takes one message of flow f to the batch: the others shrink. *)
LEMMA WayGains ==
  ASSUME Inv, Inv', RetryRoom, Sequential => Windowed', RetryFits, info' = info,
         NEW f \in Flows, NEW m \in DOMAIN info, info[m].flow = f, OnWay' \subseteq OnWay \cup {m},
         InRing(f, "retry")' = {}
  PROVE  RetryRoom'
<1>1. RetryFits' <=> RetryFits  BY DEF RetryFits, Sequential
<1>2. (\A g \in Flows : InRing(g, "retry") = {} => Cardinality(MayRetry(g)) <= RingCap)'
  <2>1. Sequential' <=> Sequential  BY DEF Sequential
  <2> QED BY <1>1, <2>1, RoomForFlightNext
<1>3. ASSUME NEW g \in Flows PROVE Cardinality(MayRetry(g)') <= RingCap
  <2>1. CASE g = f  BY <1>2, <2>1
  <2>2. CASE g # f
    <3>1. MayRetry(g)' = {x \in OnWay' : info'[x].flow = g}  BY OnWayNext
    <3>2. MayRetry(g) = {x \in OnWay : info[x].flow = g}  BY OnWayFacts
    <3>3. MayRetry(g)' \subseteq MayRetry(g)  BY <2>2, <3>1, <3>2
    <3> QED BY <3>3, FlowShrinks
  <2> QED BY <2>1, <2>2
<1> QED BY <1>3 DEF RetryRoom

(* The room is there when packets are lost.                                 *)
LEMMA NoneIsDropped ==
  ASSUME Inv, RetryRoom, NEW gone, Losable(gone)
  PROVE  NoRoom(gone) = {}
<1> USE DEF Inv
<1>1. ToSet(LostMsgs(gone)) = LM(gone) /\ \A m \in LM(gone) : m \in InFlight /\ m \in DOMAIN info /\ Reliable(m)
  BY LostMsgsFacts
<1>2. ASSUME NEW m \in LM(gone) PROVE \E f \in Flows : m \in ToSet(RetryAfter(gone, f))
  <2>1. PICK f \in Flows : f = info[m].flow  BY <1>1, InfoIsTyped
  <2> DEFINE L == {x \in LM(gone) : info[x].flow = f}
  <2>2. /\ \A R : /\ IsFiniteSet(R) /\ Cardinality(R) <= RingCap
                  /\ InRing(f, "retry") \cup {x \in LM(gone) : info[x].flow = f} \subseteq R
               => {x \in LM(gone) : info[x].flow = f} \subseteq ToSet(RetryAfter(gone, f))
    BY RetryAfterFacts
  <2>3. MayRetry(f) = {x \in OnWay : info[x].flow = f} /\ \A x \in InRing(f, "retry") : info[x].flow = f /\ x \in OnWay
    BY OnWayFacts
  <2>4. \A x \in LM(gone) : x \in OnWay  BY <1>1 DEF OnWay
  <2>5. InRing(f, "retry") \cup L \subseteq MayRetry(f)  BY <2>3, <2>4
  <2>6. IsFiniteSet(MayRetry(f)) /\ Cardinality(MayRetry(f)) <= RingCap  BY RetryFacts DEF RetryRoom
  <2>7. L \subseteq ToSet(RetryAfter(gone, f))  BY <2>2, <2>5, <2>6
  <2> QED BY <2>1, <2>7
<1> QED BY <1>1, <1>2 DEF NoRoom

(* What is lost goes to the retry rings or is freed; nothing else comes.    *)
LEMMA WayOfLoss ==
  ASSUME Inv, Inv', RetryRoom, NEW gone, Losable(gone), info' = info, batch' = <<>>,
         \A s \in SlotIds : ToSet(sent'[s].refs) \subseteq ToSet(sent[s].refs),
         \A g \in Flows : InRing(g, "retry")' \subseteq ToSet(RetryAfter(gone, g))
  PROVE  RetryRoom'
<1> USE DEF Inv
<1>1. ToSet(LostMsgs(gone)) = LM(gone) /\ \A m \in LM(gone) : m \in InFlight /\ Reliable(m)
  BY LostMsgsFacts
<1>2. \A g \in Flows : ToSet(RetryAfter(gone, g)) =
         InRing(g, "retry") \cup {m \in LM(gone) \ NoRoom(gone) : info[m].flow = g}
  BY RetryAfterFacts
<1>3. InFlight' \subseteq InFlight  BY DEF InFlight
<1>4. InBatch' = {}  BY DEF InBatch
<1>5. \A m : Reliable(m)' <=> Reliable(m)  BY SameInfo
<1> HIDE DEF Inv
<1>6. ASSUME NEW m \in OnWay' PROVE m \in OnWay
  <2>1. m \in InFlight' \/ \E g \in Flows : m \in InRing(g, "retry")'
    BY <1>4, <1>5, OnWayNext
  <2>2. Reliable(m)  BY <1>5, OnWayNext
  <2>3. m \in InFlight \/ \E g \in Flows : m \in InRing(g, "retry")  BY <1>1, <1>2, <1>3, <2>1
  <2> QED BY <2>2, <2>3, OnWayFacts
<1> QED BY <1>6, WayShrinks

LEMMA RoomOfStart ==
  ASSUME Inv, Inv', RetryRoom, NEW n \in 0..SlotCount, StartFlush(n)
  PROVE  RetryRoom' /\ dropped' = dropped
<1> DEFINE gone == SubSeq(LiveTracked, 1, n)
<1>1. LiveTracked \in Seq(Seqs) /\ IsInjective(LiveTracked) /\ ToSet(LiveTracked) = UsedSeqs
  BY LiveFacts DEF Inv
<1>2. Len(LiveTracked) \in Nat  BY <1>1, ToSetOf
<1>3. n \in 0..Len(LiveTracked)  BY <1>2 DEF StartFlush
<1>4. gone \in Seq(Seqs) /\ IsInjective(gone) /\ ToSet(gone) \subseteq UsedSeqs  BY <1>1, <1>3, CutFacts
<1>5. /\ ~filling
      /\ sent' = [s \in SlotIds |-> IF sent[s].seq \in ToSet(gone) THEN Unused ELSE sent[s]]
      /\ queue' = [f \in Flows |-> [queue[f] EXCEPT !["retry"] = RetryAfter(gone, f)]]
      /\ dropped' = dropped \cup NoRoom(gone) /\ info' = info /\ batch' = batch
  BY DEF StartFlush
<1> HIDE DEF gone
<1>6. Losable(gone)  BY <1>4 DEF Losable
<1>7. NoRoom(gone) = {}  BY <1>6, NoneIsDropped
<1>8. batch' = <<>>  BY <1>5 DEF Inv, Typed
<1>9. \A s \in SlotIds : ToSet(sent'[s].refs) \subseteq ToSet(sent[s].refs)
  <2> SUFFICES ASSUME NEW s \in SlotIds PROVE ToSet(sent'[s].refs) \subseteq ToSet(sent[s].refs)  OBVIOUS
  <2>1. sent'[s] = sent[s] \/ sent'[s] = Unused  BY <1>5
  <2>2. Unused.refs = <<>>  BY DEF Unused
  <2> QED BY <2>1, <2>2, EmptyToSet
<1>10. \A g \in Flows : InRing(g, "retry")' \subseteq ToSet(RetryAfter(gone, g))
  <2> SUFFICES ASSUME NEW g \in Flows PROVE InRing(g, "retry")' \subseteq ToSet(RetryAfter(gone, g))  OBVIOUS
  <2>1. queue \in [Flows -> [Sources -> Seq(Msgs)]] /\ "retry" \in Sources  BY DEF Inv, Typed, Sources
  <2>2. queue'[g]["retry"] = RetryAfter(gone, g)  BY <1>5, <2>1
  <2> QED BY <2>2 DEF InRing
<1>11. RetryRoom'  BY <1>5, <1>6, <1>8, <1>9, <1>10, WayOfLoss
<1> QED BY <1>5, <1>7, <1>11

LEMMA RoomOfAck ==
  ASSUME Inv, Inv', RetryRoom, NEW a \in Acks, ReceiveAck(a)
  PROVE  RetryRoom' /\ dropped' = dropped
<1> DEFINE Covered == {s \in Seqs : Covers(a, s)}
           Behind == {s \in Seqs : a.ack - s >= LossThreshold}
           covered == Only(LiveTracked, Covered)
           gone == Only(LiveTracked, Behind \ Covered)
           acked == ToSet(LostMsgs(covered))
           full == NoRoom(gone)
           counted == lateCount + Cardinality(NewlyLost(gone))
                      - Cardinality({m \in acked \cup full : LostAfter(gone, m) # <<>>})
           CoveredLate(m) == \E i \in DOMAIN LostAfter(gone, m) : Covers(a, LostAfter(gone, m)[i])
           late == IF counted = 0 THEN {} ELSE {m \in Alive \ (acked \cup full) : CoveredLate(m)}
           freed == acked \cup full \cup late
           Kept(refs) == Only(refs, Msgs \ freed)
<1>1. LiveTracked \in Seq(Seqs) /\ IsInjective(LiveTracked) /\ ToSet(LiveTracked) = UsedSeqs
  BY LiveFacts DEF Inv
<1>2. /\ ~filling
      /\ sent' = [s \in SlotIds |->
                   IF sent[s].seq \in ToSet(covered \o gone) \/ Kept(sent[s].refs) = <<>>
                   THEN Unused ELSE [sent[s] EXCEPT !.refs = Kept(@)]]
      /\ queue' = [f \in Flows |->
                    [queue[f] EXCEPT !["retry"] = Kept(RetryAfter(gone, f))]]
      /\ dropped' = dropped \cup full /\ info' = info /\ batch' = batch
  BY DEF ReceiveAck, flush
<1> DEFINE Free == Msgs \ freed
<1>3. \A refs : Kept(refs) = Only(refs, Free)  OBVIOUS
<1>4. gone \in Seq(Seqs) /\ IsInjective(gone) /\ ToSet(gone) \subseteq UsedSeqs
  <2> DEFINE P == Behind \ Covered
  <2> HIDE DEF P
  <2>1. gone = Only(LiveTracked, P)  BY DEF P
  <2> HIDE DEF gone
  <2> QED BY <1>1, <2>1, OnlyFacts
<1> HIDE DEF freed, gone, Kept, covered, Free
<1>6. Losable(gone)  BY <1>4 DEF Losable
<1>7. full = {}  BY <1>6, NoneIsDropped
<1>8. batch' = <<>>  BY <1>2 DEF Inv, Typed
<1>9. \A s \in SlotIds : ToSet(sent'[s].refs) \subseteq ToSet(sent[s].refs)
  <2> SUFFICES ASSUME NEW s \in SlotIds PROVE ToSet(sent'[s].refs) \subseteq ToSet(sent[s].refs)  OBVIOUS
  <2>1. sent'[s] = [sent[s] EXCEPT !.refs = Kept(sent[s].refs)] \/ sent'[s] = Unused  BY <1>2
  <2>2. Unused.refs = <<>>  BY DEF Unused
  <2>3. sent[s] \in [seq : 0..MaxSeq, refs : Seq(Msgs)]  BY DEF Inv, Typed
  <2>4. sent[s].refs \in Seq(Msgs)  BY <2>3
  <2>5. ToSet(Kept(sent[s].refs)) \subseteq ToSet(sent[s].refs)  BY <1>3, <2>4, OnlyFacts
  <2>6. [sent[s] EXCEPT !.refs = Kept(sent[s].refs)].refs = Kept(sent[s].refs)  BY <2>3
  <2> QED BY <2>1, <2>2, <2>5, <2>6, EmptyToSet
<1>10. \A g \in Flows : InRing(g, "retry")' \subseteq ToSet(RetryAfter(gone, g))
  <2> SUFFICES ASSUME NEW g \in Flows PROVE InRing(g, "retry")' \subseteq ToSet(RetryAfter(gone, g))  OBVIOUS
  <2>1. queue \in [Flows -> [Sources -> Seq(Msgs)]] /\ "retry" \in Sources  BY DEF Inv, Typed, Sources
  <2>2. queue'[g]["retry"] = Kept(RetryAfter(gone, g))  BY <1>2, <2>1
  <2>3. RetryAfter(gone, g) \in Seq(Msgs)  BY <1>6, RetryAfterFacts DEF Inv
  <2>4. ToSet(Kept(RetryAfter(gone, g))) \subseteq ToSet(RetryAfter(gone, g))  BY <1>3, <2>3, OnlyFacts
  <2> QED BY <2>2, <2>4 DEF InRing
<1>11. RetryRoom'  BY <1>2, <1>6, <1>8, <1>9, <1>10, WayOfLoss
<1> QED BY <1>2, <1>7, <1>11

(* A message is taken from its ring into the batch.                         *)
LEMMA RoomOfTake ==
  ASSUME Inv, Inv', RetryRoom, Sequential => Windowed', RetryFits,
         NEW f \in Flows, IsPicked(f), Take(f), info' = info, sent' = sent,
         InBatch' \subseteq InBatch \cup {Item(f).msg}
  PROVE  RetryRoom'
<1>0. PICK m : m = Item(f).msg  OBVIOUS
<1>1. /\ \A g \in Flows, t \in Sources : InRing(g, t)' \subseteq InRing(g, t)
      /\ SourceOf(f) = "unreliable" <=> ~Reliable(m)
  BY <1>0, TakenFacts
<1>2. m \in DOMAIN info /\ info[m].flow = f /\ m \in InRing(f, SourceOf(f)) /\ "retry" \in Sources
  BY <1>0, ItemIsEntry DEF Sources
<1>3. InFlight' = InFlight /\ \A x : Reliable(x)' <=> Reliable(x)  BY SameInfo DEF InFlight
<1>4. \A x \in OnWay' : Reliable(x) /\ (x \in OnWay \/ x = m)
  <2> SUFFICES ASSUME NEW x \in OnWay' PROVE Reliable(x) /\ (x \in OnWay \/ x = m)  OBVIOUS
  <2>1. Reliable(x) /\ (x \in InBatch' \/ x \in InFlight' \/ \E g \in Flows : x \in InRing(g, "retry")')
    BY <1>3, OnWayNext
  <2>2. x \in InBatch \/ x = m \/ x \in InFlight \/ \E g \in Flows : x \in InRing(g, "retry")
    BY <1>0, <1>1, <1>2, <1>3, <2>1
  <2> QED BY <2>1, <2>2, OnWayFacts
<1>5. CASE SourceOf(f) = "unreliable"
  <2>1. OnWay' \subseteq OnWay  BY <1>1, <1>4, <1>5
  <2> QED BY <2>1, WayShrinks
<1>6. CASE SourceOf(f) = "retry"
  <2>1. m \in OnWay  BY <1>2, <1>6, OnWayFacts
  <2>2. OnWay' \subseteq OnWay  BY <1>4, <2>1
  <2> QED BY <2>2, WayShrinks
<1>7. CASE SourceOf(f) = "reliable"
  <2>1. queue[f]["retry"] = <<>>  BY <1>7 DEF SourceOf
  <2>2. InRing(f, "retry") = {}  BY <2>1, EmptyToSet DEF InRing
  <2>3. InRing(f, "retry")' = {}  BY <1>1, <1>2, <2>2
  <2>4. OnWay' \subseteq OnWay \cup {m}  BY <1>4
  <2> QED BY <1>2, <2>3, <2>4, WayGains
<1> QED BY <1>5, <1>6, <1>7 DEF SourceOf

LEMMA RoomOfSend ==
  ASSUME Inv, Inv', RetryRoom, NEW f \in Flows, NEW kind \in Kinds,
         NEW replaced \in SUBSET InRing(f, "unreliable"), Send(f, kind, replaced)
  PROVE  RetryRoom'
<1> DEFINE src == IF kind = "unreliable" THEN "unreliable" ELSE "reliable"
           kept == Only(queue[f][src], Msgs \ replaced)
<1>0. PICK m : m = Len(info) + 1  OBVIOUS
<1>1. /\ info' = Append(info, [flow |-> f, kind |-> kind])
      /\ queue' = [queue EXCEPT ![f][src] = Append(kept, m)]
      /\ batch' = batch /\ sent' = sent
  BY <1>0 DEF Send, flush, flight
<1>2. src # "retry" /\ "retry" \in Sources  BY DEF Sources
<1> HIDE DEF src, kept
<1>3. info \in Seq([flow : Flows, kind : Kinds]) /\ queue \in [Flows -> [Sources -> Seq(Msgs)]]
  BY DEF Inv, Typed
<1>4. \A x \in DOMAIN info : info'[x] = info[x]
  <2> DEFINE R == [flow : Flows, kind : Kinds]
             r == [flow |-> f, kind |-> kind]
  <2>1. r \in R /\ info \in Seq(R) /\ info' = Append(info, r)  BY <1>1, <1>3
  <2> HIDE DEF R, r
  <2> QED BY <2>1
<1>5. \A g \in Flows : queue'[g]["retry"] = queue[g]["retry"]
  <2> SUFFICES ASSUME NEW g \in Flows PROVE queue'[g]["retry"] = queue[g]["retry"]  OBVIOUS
  <2>1. CASE g = f
    <3>1. queue'[f] = [queue[f] EXCEPT ![src] = Append(kept, m)]  BY <1>1, <1>3
    <3>2. queue[f] \in [Sources -> Seq(Msgs)]  BY <1>3
    <3> QED BY <1>2, <2>1, <3>1, <3>2
  <2>2. CASE g # f  BY <1>1, <1>3, <2>2
  <2> QED BY <2>1, <2>2
<1>6. \A g \in Flows : InRing(g, "retry")' = InRing(g, "retry")  BY <1>5 DEF InRing
<1>7. InBatch' = InBatch /\ InFlight' = InFlight
  <2>1. \A p : Items(p)' = Items(p)  BY DEF Items
  <2> QED BY <1>1, <2>1 DEF InBatch, InFlight
<1>8. \A x \in DOMAIN info : Reliable(x)' <=> Reliable(x)  BY <1>4 DEF Reliable
<1>9. Queued \cup InBatch \cup InFlight \subseteq DOMAIN info
  BY LossyIsKnown DEF Alive, Inv
<1>10. \A g \in Flows : InRing(g, "retry") \subseteq Queued  BY <1>2 DEF Queued
<1>11. ASSUME NEW x \in OnWay' PROVE x \in OnWay
  <2>1. Reliable(x)' /\ (x \in InBatch' \/ x \in InFlight' \/ \E g \in Flows : x \in InRing(g, "retry")')
    BY OnWayNext
  <2>2. x \in InBatch \/ x \in InFlight \/ \E g \in Flows : x \in InRing(g, "retry")
    BY <1>6, <1>7, <2>1
  <2>3. x \in DOMAIN info  BY <1>9, <1>10, <2>2
  <2> QED BY <1>8, <2>1, <2>2, <2>3, OnWayFacts
<1> QED BY <1>4, <1>11, WayShrinks

LEMMA RoomOfJoin ==
  ASSUME Inv, Inv', RetryRoom, Sequential => Windowed', RetryFits, NEW f \in Flows, JoinPacket(f)
  PROVE  RetryRoom'
<1> DEFINE it == Item(f)
<1>0. PICK n : n = Len(batch)  OBVIOUS
<1>1. /\ IsPicked(f) /\ CanJoin(it.msg) /\ Take(f)
      /\ batch' = [batch EXCEPT ![n].items = Append(@, it)]
      /\ info' = info /\ sent' = sent
  BY <1>0 DEF JoinPacket, Chosen, flight
<1>2. Typed /\ BatchHolds  BY DEF Inv
<1>3. it \in Entry  BY <1>1, ItemIsEntry
<1>4. batch \in Seq(Packet) /\ batch # <<>> /\ n \in DOMAIN batch
  <2>1. batch \in Seq(Packet) /\ batch # <<>>  BY <1>1, <1>2 DEF Typed, CanJoin
  <2> HIDE DEF Packet
  <2> QED BY <1>0, <2>1, ToSetOf, EmptySeq
<1>5. batch[n] \in Packet /\ batch[n].items \in Seq(Entry) /\ Items(batch[n]) = {x.msg : x \in ToSet(batch[n].items)}
  BY <1>2, <1>4, PackedIsTyped
<1> HIDE DEF it
<1> DEFINE p == [batch[n] EXCEPT !.items = Append(@, it)]
<1>6. p.items = Append(batch[n].items, it)
  <2>1. batch[n] \in [seq : 0..MaxSeq, items : Seq([msg : Msgs, src : Sources])]  BY <1>5 DEF Packet
  <2> QED BY <2>1
<1>7. batch' = [batch EXCEPT ![n] = p]  BY <1>1
<1> HIDE DEF p
<1>8. DOMAIN batch' = DOMAIN batch /\ batch'[n] = p /\ \A i \in DOMAIN batch' : i # n => batch'[i] = batch[i]
  BY <1>4, <1>7
<1>9. Items(p) \subseteq Items(batch[n]) \cup {it.msg}
  <2> DEFINE e == batch[n].items
             a == Append(e, it)
  <2>1. e \in Seq(Entry) /\ p.items = a  BY <1>5, <1>6
  <2> HIDE DEF e
  <2>2. a \in Seq(Entry) /\ ToSet(a) = ToSet(e) \cup {it}  BY <1>3, <2>1, AppendFacts
  <2> HIDE DEF a
  <2>3. DOMAIN a = 1..Len(a) /\ ToSet(a) = {a[i] : i \in 1..Len(a)}  BY <2>2, ToSetOf
  <2>4. \A y \in Items(p) : \E z \in ToSet(a) : y = z.msg  BY <2>1, <2>3 DEF Items
  <2>5. Items(batch[n]) = {x.msg : x \in ToSet(e)}  BY <1>5 DEF e
  <2> QED BY <2>2, <2>4, <2>5
<1>10. InBatch' \subseteq InBatch \cup {it.msg}
  <2>1. \A y \in InBatch' : \E i \in DOMAIN batch' : y \in Items(batch'[i])
    BY DEF InBatch, Items
  <2>2. \A i \in DOMAIN batch : Items(batch[i]) \subseteq InBatch  BY DEF InBatch
  <2> QED BY <1>4, <1>8, <1>9, <2>1, <2>2
<1> QED BY <1>1, <1>10, RoomOfTake DEF it

LEMMA RoomOfNew ==
  ASSUME Inv, Inv', RetryRoom, Sequential => Windowed', RetryFits, NEW f \in Flows,
         NewUnreliable(f) \/ NewReliable(f)
  PROVE  RetryRoom'
<1> DEFINE it == Item(f)
<1>0. PICK n : n = Len(batch)  OBVIOUS
<1>1. IsPicked(f) /\ Take(f) /\ info' = info /\ sent' = sent /\ Len(batch) < BatchSize
  BY DEF NewUnreliable, NewReliable, Chosen, flight
<1>2. PICK q : batch' = Append(batch, [seq |-> q, items |-> <<it>>])
  BY DEF NewUnreliable, NewReliable
<1>3. it \in Entry  BY <1>1, ItemIsEntry
<1> HIDE DEF it
<1> DEFINE p == [seq |-> q, items |-> <<it>>]
<1>4. Items(p) = {it.msg}
  <2>1. p.items = <<it>>  OBVIOUS
  <2> QED BY <2>1 DEF Items
<1>5. batch' = Append(batch, p)  BY <1>2
<1> HIDE DEF p
<1>6. batch \in Seq(Packet)  BY DEF Inv, Typed
<1>7. \A i \in DOMAIN batch' : batch'[i] = p \/ (i \in DOMAIN batch /\ batch'[i] = batch[i])
  <2> HIDE DEF Packet
  <2> QED BY <1>5, <1>6
<1>8. InBatch' \subseteq InBatch \cup {it.msg}
  <2>1. \A y \in InBatch' : \E i \in DOMAIN batch' : y \in Items(batch'[i])
    BY DEF InBatch, Items
  <2>2. \A i \in DOMAIN batch : Items(batch[i]) \subseteq InBatch  BY DEF InBatch
  <2> QED BY <1>4, <1>7, <2>1, <2>2
<1> QED BY <1>1, <1>8, RoomOfTake DEF it

LEMMA RoomOfBatch ==
  ASSUME Inv, Inv', RetryRoom, NEW k \in 0..Len(batch), SendBatch(k), info' = info
  PROVE  RetryRoom' /\ dropped' = dropped
<1> USE DEF Inv
<1>1. /\ queue' = [f \in Flows |-> [src \in Sources |-> Requeued(k, f, src)]]
      /\ sent' = SentAfter(k) /\ dropped' = dropped \cup {m \in Crowded(k) : Reliable(m)} /\ batch' = <<>>
  BY DEF SendBatch
<1>2. \A f \in Flows, src \in Sources :
        /\ ToSet(Requeued(k, f, src)) = InRing(f, src) \cup UnsentOf(k, f, src)
        /\ ToSet(Unsent(k, f, src)) \subseteq ToSet(Requeued(k, f, src))
        /\ UnsentOf(k, f, src) \subseteq TakenFrom(f, src)
  BY RequeuedFacts, UnsentFacts
<1>3. dropped' = dropped
  <2>1. Crowded(k) = {}  BY <1>2 DEF Crowded
  <2> QED BY <1>1, <2>1
<1>4. InBatch = {x.msg : x \in Packed}
      /\ \A i \in DOMAIN batch : batch[i] \in Packet /\ ItemsApart(batch[i])
  BY PackedIsTyped
<1>5. \A f \in Flows : InRing(f, "retry")' \subseteq InRing(f, "retry") \cup InBatch
  <2> SUFFICES ASSUME NEW f \in Flows PROVE InRing(f, "retry")' \subseteq InRing(f, "retry") \cup InBatch
    OBVIOUS
  <2>1. "retry" \in Sources  BY DEF Sources
  <2>2. queue'[f]["retry"] = Requeued(k, f, "retry")  BY <1>1, <2>1
  <2>3. InRing(f, "retry")' = ToSet(Requeued(k, f, "retry"))  BY <2>2 DEF InRing
  <2>4. TakenFrom(f, "retry") \subseteq InBatch  BY <1>4 DEF TakenFrom
  <2> QED BY <1>2, <2>1, <2>3, <2>4
<1>6. InFlight' \subseteq InFlight \cup InBatch
  <2> SUFFICES ASSUME NEW m \in InFlight' PROVE m \in InFlight \cup InBatch  OBVIOUS
  <2>1. PICK s \in SlotIds : m \in ToSet(sent'[s].refs)  BY DEF InFlight
  <2>2. CASE \A i \in Sure(k) : Slot(batch[i].seq) # s
    <3>1. sent'[s] = sent[s]  BY <1>1, <2>2, SentAfterFacts
    <3> QED BY <2>1, <3>1 DEF InFlight
  <2>3. ASSUME NEW i \in Sure(k), Slot(batch[i].seq) = s PROVE m \in InBatch
    <3>1. i \in DOMAIN batch  BY RecordedFacts
    <3>2. sent'[Slot(batch[i].seq)] = [seq |-> batch[i].seq, refs |-> PacketRefs(batch[i])]
      BY <1>1, SentAfterFacts
    <3>3. sent'[s].refs = PacketRefs(batch[i])  BY <2>3, <3>2
    <3> DEFINE p == batch[i]
    <3>4. p \in Packet /\ ItemsApart(p) /\ m \in ToSet(PacketRefs(p))  BY <1>4, <2>1, <3>1, <3>3
    <3> HIDE DEF p
    <3>5. ToSet(PacketRefs(p)) = {z \in Items(p) : Reliable(z)}  BY <3>4, RefsOfPacket
    <3>6. m \in Items(p)  BY <3>4, <3>5
    <3> QED BY <3>1, <3>6 DEF InBatch, p
  <2> QED BY <2>2, <2>3
<1>7. InBatch' = {}  BY <1>1 DEF InBatch
<1>8. \A m : Reliable(m)' <=> Reliable(m)  BY SameInfo
<1> HIDE DEF Inv
<1>9. ASSUME NEW m \in OnWay' PROVE m \in OnWay
  <2>1. Reliable(m) /\ (m \in InFlight' \/ \E g \in Flows : m \in InRing(g, "retry")')
    BY <1>7, <1>8, OnWayNext
  <2>2. m \in InBatch \/ m \in InFlight \/ \E g \in Flows : m \in InRing(g, "retry")
    BY <1>5, <1>6, <2>1
  <2> QED BY <2>1, <2>2, OnWayFacts
<1> QED BY <1>3, <1>9, WayShrinks

(* A step that fills no ring but takes from them, and leaves the packets.   *)
LEMMA RoomOfRest ==
  ASSUME Inv, Inv', RetryRoom, info' = info, batch' = batch, sent' = sent,
         \A g \in Flows : InRing(g, "retry")' \subseteq InRing(g, "retry")
  PROVE  RetryRoom'
<1>1. \A m : Reliable(m)' <=> Reliable(m)  BY SameInfo
<1>2. InBatch' = InBatch /\ InFlight' = InFlight
  <2>1. \A p : Items(p)' = Items(p)  BY DEF Items
  <2> QED BY <2>1 DEF InBatch, InFlight
<1>3. ASSUME NEW x \in OnWay' PROVE x \in OnWay
  <2>1. Reliable(x) /\ (x \in InBatch \/ x \in InFlight \/ \E g \in Flows : x \in InRing(g, "retry"))
    BY <1>1, <1>2, OnWayNext
  <2> QED BY <2>1, OnWayFacts
<1> QED BY <1>3, WayShrinks

LEMMA RoomStep ==
  ASSUME Inv, Inv', RetryRoom, Sequential => Windowed', RetryFits, [Next]_vars
  PROVE  RetryRoom' /\ dropped' = dropped
<1>1. ASSUME NEW f \in Flows, NEW kind \in Kinds, NEW replaced \in SUBSET InRing(f, "unreliable"),
             Send(f, kind, replaced)
      PROVE  RetryRoom' /\ dropped' = dropped
  <2>1. dropped' = dropped  BY <1>1 DEF Send
  <2> QED BY <1>1, <2>1, RoomOfSend
<1>2. ASSUME NEW n \in 0..SlotCount, StartFlush(n) PROVE RetryRoom' /\ dropped' = dropped
  BY <1>2, RoomOfStart
<1>3. ASSUME queue' = queue, info' = info, batch' = batch, sent' = sent PROVE RetryRoom'
  <2>1. \A g \in Flows : InRing(g, "retry")' = InRing(g, "retry")  BY <1>3 DEF InRing
  <2> QED BY <1>3, <2>1, RoomOfRest
<1>4. CASE StartFlushEarly  BY <1>3, <1>4 DEF StartFlushEarly, flight, history
<1>5. ASSUME NEW f \in Flows, ExpireHead(f) PROVE RetryRoom' /\ dropped' = dropped
  <2>1. IsPicked(f) /\ Take(f) /\ info' = info /\ batch' = batch /\ sent' = sent /\ dropped' = dropped
    BY <1>5 DEF ExpireHead, Take, flush
  <2>2. "retry" \in Sources  BY DEF Sources
  <2>3. \A g \in Flows, t \in Sources : InRing(g, t)' \subseteq InRing(g, t)  BY <2>1, TakenFacts
  <2> QED BY <2>1, <2>2, <2>3, RoomOfRest
<1>6. ASSUME NEW f \in Flows, JoinPacket(f) PROVE RetryRoom' /\ dropped' = dropped
  <2>1. dropped' = dropped  BY <1>6 DEF JoinPacket, history
  <2> QED BY <1>6, <2>1, RoomOfJoin
<1>7. ASSUME NEW f \in Flows, NewUnreliable(f) \/ NewReliable(f) PROVE RetryRoom' /\ dropped' = dropped
  <2>1. dropped' = dropped  BY <1>7 DEF NewUnreliable, NewReliable, history
  <2> QED BY <1>7, <2>1, RoomOfNew
<1>8. ASSUME NEW f \in Flows, BlockReliable(f) PROVE RetryRoom' /\ dropped' = dropped
  BY <1>3, <1>8 DEF BlockReliable, history
<1>9. ASSUME NEW k \in 0..BatchSize, SendFullBatch(k) \/ EndFlush(k) PROVE RetryRoom' /\ dropped' = dropped
  <2>1. SendBatch(k) /\ info' = info  BY <1>9 DEF SendFullBatch, EndFlush
  <2>2. k \in 0..Len(batch)
    <3>1. batch \in Seq(Packet)  BY DEF Inv, Typed
    <3>2. Len(batch) \in Nat  BY <3>1, ToSetOf
    <3> QED BY <1>9, <3>2, Consts DEF SendFullBatch, EndFlush
  <2> QED BY <2>1, <2>2, RoomOfBatch
<1>10. ASSUME NEW q \in Seqs, PeerRecords(q) PROVE RetryRoom' /\ dropped' = dropped
  BY <1>3, <1>10 DEF PeerRecords, flush, flight
<1>11. ASSUME NEW a \in Acks, ReceiveAck(a) PROVE RetryRoom' /\ dropped' = dropped
  BY <1>11, RoomOfAck
<1>12. CASE UNCHANGED vars  BY <1>3, <1>12 DEF vars, flush, flight, history
<1> QED
  BY <1>1, <1>2, <1>4, <1>5, <1>6, <1>7, <1>8, <1>9, <1>10, <1>11, <1>12 DEF Next

LEMMA WindowStarts == ASSUME Init PROVE Windowed
<1>1. firstSeq = 0 /\ nextSeq = 1 /\ batch = <<>> /\ \A s \in SlotIds : sent[s].seq = 0
  BY DEF Init, Unused
<1>2. DOMAIN batch = {} /\ Numbers = {}  BY <1>1 DEF Numbers, UsedSeqs
<1> QED BY <1>1, <1>2 DEF Windowed

LEMMA RoomStarts == ASSUME Init PROVE RetryRoom /\ dropped = {}
<1>1. batch = <<>> /\ dropped = {} /\ (\A s \in SlotIds : sent[s].refs = <<>>)
      /\ \A f \in Flows, src \in Sources : queue[f][src] = <<>>
  BY DEF Init, Unused
<1>2. InBatch = {}  BY <1>1 DEF InBatch
<1>3. InFlight = {}
  <2>1. \A s \in SlotIds : ToSet(sent[s].refs) = {}  BY <1>1, EmptyToSet
  <2> QED BY <2>1 DEF InFlight
<1>4. "retry" \in Sources  BY DEF Sources
<1>5. \A f \in Flows : InRing(f, "retry") = {}
  <2>1. \A f \in Flows : queue[f]["retry"] = <<>>  BY <1>1, <1>4
  <2> QED BY <2>1, EmptyToSet DEF InRing
<1>6. \A f \in Flows : MayRetry(f) = {}  BY <1>2, <1>3, <1>5 DEF MayRetry
<1>7. Cardinality({}) = 0 /\ 0 <= RingCap  BY FS_EmptySet, Consts
<1> QED BY <1>1, <1>6, <1>7 DEF RetryRoom

(* NothingLost: where the retry ring has room for all messages, or for all  *)
(* that the packets in flight carry, mark_packet_lost,                      *)
(* requeue_unsent_packet and release_acked_packets drop no reliable         *)
(* message, and free none that did not arrive.                              *)
THEOREM NothingIsLost == ASSUME RetryFits PROVE Spec => []NothingLost
<1> DEFINE I == Inv /\ (Sequential => Windowed) /\ RetryRoom /\ dropped = {}
<1>1. Init => I  BY InitInv, WindowStarts, RoomStarts
<1>2. I /\ [Next]_vars => I'
  <2> SUFFICES ASSUME I, [Next]_vars PROVE I'  OBVIOUS
  <2>1. Inv'  BY StepKeeps
  <2>2. Sequential => Windowed'  BY <2>1, WindowStep
  <2>3. RetryRoom' /\ dropped' = dropped  BY <2>1, <2>2, RoomStep
  <2>4. Sequential' <=> Sequential  BY DEF Sequential
  <2> QED BY <2>1, <2>2, <2>3, <2>4
<1>3. I => NothingLost  BY DEF Inv, Traced, NothingLost, NothingDropped
<1> QED BY <1>1, <1>2, <1>3, PTL DEF Spec
=============================================================================
