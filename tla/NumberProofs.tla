---------------------------- MODULE NumberProofs ----------------------------
(***************************************************************************)
(* Facts about numbers that the proofs of several components rest on: what  *)
(* the half-space comparison of coop_rudp decides about two positions of a  *)
(* stream from their wire forms alone, for every even width; the least and  *)
(* the greatest of a set of numbers; and what a sum over a set counts.      *)
(***************************************************************************)
EXTENDS SerialNumbers, FiniteSetsExt, FiniteSetTheorems, WellFoundedInduction, TLAPS

-----------------------------------------------------------------------------
(* Numbers on the wire                                                     *)

(* Euclidean division, with the quotient named: the form in which the       *)
(* arithmetic provers can use it.                                           *)
LEMMA Division ==
  ASSUME NEW S \in Nat, S > 1, NEW a \in Int
  PROVE  \E q \in Int, r \in 0..(S-1) : a = S * q + r /\ a % S = r
<1>1. a \div S \in Int /\ a % S \in 0..(S-1) /\ a = S * (a \div S) + (a % S)
  OBVIOUS
<1> QED BY <1>1

LEMMA MultipleIsLarge ==
  ASSUME NEW S \in Nat, S > 1, NEW k \in Int, k >= 1
  PROVE  S * k >= S
<1>1. S * k = S * (k - 1) + S  OBVIOUS
<1>2. S * (k - 1) >= 0  OBVIOUS
<1> QED BY <1>1, <1>2

(* Quotient and remainder are unique.                                       *)
LEMMA Remainder ==
  ASSUME NEW S \in Nat, S > 1, NEW a \in Int, NEW q \in Int, NEW r \in 0..(S-1),
         a = S * q + r
  PROVE  a % S = r
<1>1. PICK q2 \in Int, r2 \in 0..(S-1) : a = S * q2 + r2 /\ a % S = r2
  BY Division
<1> DEFINE k == q - q2
<1>2. k \in Int /\ S * k = r2 - r  BY <1>1
<1>3. S * (-k) = r - r2  BY <1>2
<1> HIDE DEF k
<1>4. ~(k >= 1)  BY <1>2, MultipleIsLarge
<1>5. ~(-k >= 1)  BY <1>2, <1>3, MultipleIsLarge
<1>6. k = 0  BY <1>2, <1>4, <1>5
<1>7. q = q2  BY <1>6 DEF k
<1> QED BY <1>1, <1>7

(* The same for any divisor, and for the quotient as well.                  *)
LEMMA DivMod ==
  ASSUME NEW S \in Nat \ {0}, NEW a \in Int
  PROVE  a \div S \in Int /\ a % S \in 0..(S-1) /\ a = S * (a \div S) + (a % S)
<1>1. CASE S = 1
  <2>1. a \div 1 = a /\ a % 1 = 0  OBVIOUS
  <2> QED BY <1>1, <2>1
<1>2. CASE S # 1
  <2>1. S \in Nat /\ S > 1  BY <1>2
  <2> QED BY <2>1
<1> QED BY <1>1, <1>2

LEMMA NatDivMod ==
  ASSUME NEW S \in Nat \ {0}, NEW a \in Nat
  PROVE  a \div S \in Nat /\ S * (a \div S) <= a /\ a < S * (a \div S) + S
<1> DEFINE q == a \div S
<1>1. a \in Int /\ S \in Int  OBVIOUS
<1>2. q \in Int /\ a % S \in 0..(S-1) /\ a = S * q + (a % S)  BY DivMod
<1> HIDE DEF q
<1>3. S * q <= a /\ a < S * q + S  BY <1>2
<1>4. q >= 0
  <2> SUFFICES ASSUME q <= -1 PROVE FALSE  BY <1>2
  <2> DEFINE p == -(q + 1)
  <2>1. p \in Nat /\ q = -p - 1  BY <1>2
  <2> HIDE DEF p
  <2>2. S * q + S = -(S * p) /\ S * p \in Nat  BY <2>1
  <2> QED BY <1>3, <2>2
<1> QED BY <1>2, <1>3, <1>4 DEF q

LEMMA Quotient ==
  ASSUME NEW S \in Nat \ {0}, NEW a \in Int, NEW q \in Int, NEW r \in 0..(S-1),
         a = S * q + r
  PROVE  a \div S = q /\ a % S = r
<1> DEFINE p == a \div S
           t == a % S
           k == q - p
<1>1. p \in Int /\ t \in 0..(S-1) /\ a = S * p + t  BY DivMod
<1> HIDE DEF p, t
<1>2. k \in Int /\ S * k = t - r  BY <1>1
<1> HIDE DEF k
<1>3. ~(k >= 1)
  <2>1. S * k = S * (k - 1) + S  BY <1>2
  <2>2. k >= 1 => S * (k - 1) >= 0  BY <1>2
  <2> QED BY <1>1, <1>2, <2>1, <2>2
<1>4. ~(k <= -1)
  <2>1. S * k = S * (k + 1) - S  BY <1>2
  <2>2. k <= -1 => S * (k + 1) <= 0  BY <1>2
  <2> QED BY <1>1, <1>2, <2>1, <2>2
<1>5. k = 0  BY <1>2, <1>3, <1>4
<1>6. q = p  BY <1>1, <1>5 DEF k
<1> QED BY <1>1, <1>6 DEF p, t

(* So many times I is closer to D than I only for the quotient of D by I,    *)
(* rounded down or up.                                                      *)
LEMMA CountInRange ==
  ASSUME NEW D \in Nat, NEW I \in Nat, I >= 1, NEW k \in Nat, k * I > D - I, k * I < D + I
  PROVE  k \in (D \div I)..((D + I - 1) \div I)
<1> DEFINE q == D \div I
           c == (D + I - 1) \div I
<1>1. q \in Nat /\ D >= q * I
  <2>1. CASE I > 1
    <3>1. D \div I \in Int /\ D % I \in 0..(I - 1) /\ D = I * (D \div I) + (D % I)  BY <2>1
    <3> HIDE DEF q
    <3>2. q \in Int /\ D >= I * q /\ I * q > D - I  BY <3>1 DEF q
    <3>3. q >= 0
      <4> SUFFICES ASSUME q <= -1 PROVE FALSE  BY <3>2
      <4>1. I * q = (q + 1) * I - I /\ (q + 1) * I <= 0  BY <3>2
      <4> QED BY <3>2, <4>1
    <3> QED BY <3>2, <3>3
  <2>2. CASE I = 1  BY <2>2
  <2> QED BY <2>1, <2>2
<1>2. c \in Int /\ (c + 1) * I > D + I - 1
  <2>1. CASE I > 1
    <3> DEFINE a == D + I - 1
    <3>1. a \in Int /\ c = a \div I  OBVIOUS
    <3>2. a \div I \in Int /\ a % I \in 0..(I - 1) /\ a = I * (a \div I) + (a % I)
      <4> HIDE DEF a
      <4> QED BY <2>1, <3>1
    <3> HIDE DEF a, c
    <3>3. c \in Int /\ a < I * c + I  BY <3>1, <3>2
    <3>4. (c + 1) * I = I * c + I  BY <3>3
    <3> QED BY <3>3, <3>4 DEF a
  <2>2. CASE I = 1
    <3>1. c = D  BY <2>2
    <3> QED BY <2>2, <3>1
  <2> QED BY <2>1, <2>2
<1> HIDE DEF q, c
<1>3. q <= k
  <2> SUFFICES ASSUME k + 1 <= q PROVE FALSE  BY <1>1
  <2>1. q - k - 1 \in Nat  BY <1>1
  <2>2. (q - k - 1) * I >= 0 /\ (q - k - 1) * I = q * I - k * I - I  BY <1>1, <2>1
  <2> QED BY <1>1, <2>2
<1>4. k <= c
  <2> SUFFICES ASSUME c + 1 <= k PROVE FALSE  BY <1>2
  <2>1. k - c - 1 \in Nat  BY <1>2
  <2>2. (k - c - 1) * I >= 0 /\ (k - c - 1) * I = k * I - (c + 1) * I  BY <1>2, <2>1
  <2> QED BY <1>2, <2>2
<1> QED BY <1>1, <1>2, <1>3, <1>4 DEF q, c

(* Incrementing the wire form is the wire form of the next number.          *)
LEMMA SuccOfWire ==
  ASSUME NEW S \in Nat, S > 1, NEW n \in Nat
  PROVE  Succ(Wire(n, S), S) = Wire(n + 1, S)
<1>0. n \in Int  OBVIOUS
<1>1. PICK q \in Int, r \in 0..(S-1) : n = S * q + r /\ n % S = r
  BY <1>0, Division
<1>2. PICK p \in Int, t \in 0..(S-1) : r + 1 = S * p + t /\ (r + 1) % S = t
  BY Division
<1>3. n + 1 = S * (q + p) + t  BY <1>1, <1>2
<1>4. n + 1 \in Int /\ q + p \in Int  BY <1>1, <1>2
<1>5. (n + 1) % S = t  BY <1>3, <1>4, Remainder
<1> QED BY <1>1, <1>2, <1>5 DEF Succ, Wire

LEMMA WireType ==
  ASSUME NEW S \in Nat, S > 1, NEW n \in Nat
  PROVE  Wire(n, S) \in 0..(S-1)
BY Division DEF Wire

(* The difference of two wire forms is the difference of the numbers when   *)
(* the first is ahead by less than the whole space.                         *)
LEMMA WireDifference ==
  ASSUME NEW S \in Nat, S > 1, NEW a \in Nat, NEW b \in Nat,
         NEW d \in 0..(S-1), a = b + d
  PROVE  (Wire(a, S) - Wire(b, S)) % S = d
<1>1. PICK qa \in Int, ra \in 0..(S-1) : a = S * qa + ra /\ a % S = ra
  BY Division
<1>2. PICK qb \in Int, rb \in 0..(S-1) : b = S * qb + rb /\ b % S = rb
  BY Division
<1>3. ra - rb = S * (qb - qa) + d
  <2>1. S * (qb - qa) = S * qb - S * qa  BY <1>1, <1>2
  <2> QED BY <1>1, <1>2, <2>1
<1>4. ra - rb \in Int /\ qb - qa \in Int  BY <1>1, <1>2
<1>5. (ra - rb) % S = d  BY <1>3, <1>4, Remainder
<1> QED BY <1>1, <1>2, <1>5 DEF Wire

(* Two numbers less than the whole space apart have different wire forms.   *)
LEMMA WireInjective ==
  ASSUME NEW S \in Nat, S > 1, NEW a \in Nat, NEW b \in Nat,
         a - b < S, b - a < S, Wire(a, S) = Wire(b, S)
  PROVE  a = b
<1>0. 0 % S = 0
  <2>1. 0 = S * 0 + 0 /\ 0 \in 0..(S-1)  OBVIOUS
  <2> QED BY <2>1, Remainder
<1>1. CASE a >= b
  <2>1. a - b \in 0..(S-1) /\ a = b + (a - b)  BY <1>1
  <2>2. (Wire(a, S) - Wire(b, S)) % S = a - b  BY <2>1, WireDifference
  <2>3. Wire(a, S) - Wire(b, S) = 0  BY WireType
  <2> QED BY <2>2, <2>3, <1>0
<1>2. CASE b > a
  <2>1. b - a \in 0..(S-1) /\ b = a + (b - a)  BY <1>2
  <2>2. (Wire(b, S) - Wire(a, S)) % S = b - a  BY <2>1, WireDifference
  <2>3. Wire(b, S) - Wire(a, S) = 0  BY WireType
  <2> QED BY <2>2, <2>3, <1>0, <1>2
<1> QED BY <1>1, <1>2

(* seq16_after / seq32_after on wire forms decide which of two positions of *)
(* a stream is the later one, for positions at most half the space apart.   *)
THEOREM SeqAfterIsLater ==
  ASSUME NEW S \in Nat, S > 1, S % 2 = 0, NEW a \in Nat, NEW b \in Nat,
         a - b < S \div 2, b - a <= S \div 2
  PROVE  SeqAfter(Wire(a, S), Wire(b, S), S) <=> a > b
<1>1. S = 2 * (S \div 2) /\ S \div 2 \in Nat  OBVIOUS
<1> DEFINE H == S \div 2
<1>2. H \in Nat /\ S = 2 * H /\ H > 0 /\ a - b < H /\ b - a <= H  BY <1>1
<1> HIDE DEF H
<1>3. CASE a > b
  <2>1. a - b \in 0..(S-1) /\ a = b + (a - b)  BY <1>2, <1>3
  <2>2. (Wire(a, S) - Wire(b, S)) % S = a - b  BY <2>1, WireDifference
  <2>3. Wire(a, S) # Wire(b, S)  BY <1>2, <1>3, WireInjective
  <2>4. (Wire(a, S) - Wire(b, S)) % S < H  BY <2>2, <1>2
  <2> QED BY <2>3, <2>4, <1>3 DEF SeqAfter, H
<1>4. CASE a = b
  BY <1>4 DEF SeqAfter
<1>5. CASE b > a
  <2> DEFINE e == a + S - b
  <2>1. e \in 0..(S-1) /\ a + S = b + e /\ e >= H /\ a + S \in Nat  BY <1>2, <1>5
  <2>2. (Wire(a + S, S) - Wire(b, S)) % S = e  BY <2>1, WireDifference
  <2>3. Wire(a + S, S) = Wire(a, S)
    <3> HIDE DEF e
    <3>0. a \in Int  OBVIOUS
    <3>1. PICK q \in Int, r \in 0..(S-1) : a = S * q + r /\ a % S = r
      BY <3>0, Division
    <3>2. a + S = S * (q + 1) + r /\ q + 1 \in Int  BY <3>1
    <3>3. a + S \in Int  OBVIOUS
    <3>4. (a + S) % S = r  BY <3>2, <3>3, Remainder
    <3> QED BY <3>1, <3>4 DEF Wire
  <2>4. ~((Wire(a, S) - Wire(b, S)) % S < H)
    <3> HIDE DEF e
    <3> QED BY <2>1, <2>2, <2>3, <1>2
  <2> QED BY <2>4, <1>5 DEF SeqAfter, H
<1> QED BY <1>3, <1>4, <1>5

-----------------------------------------------------------------------------
(* The least and the greatest of a set of numbers                           *)

LEMMA LeastExists ==
  ASSUME NEW S \in SUBSET Nat, S # {} PROVE \E x \in S : \A y \in S : x <= y
<1> DEFINE R == OpToRel(<, Nat)
<1>1. IsWellFoundedOn(R, Nat)  BY NatLessThanWellFounded
<1>2. ASSUME NEW x \in Nat, NEW y \in Nat, y < x PROVE <<y, x>> \in R
  <2>1. <<y, x>> \in Nat \X Nat  OBVIOUS
  <2> QED BY <1>2, <2>1 DEF OpToRel
<1> HIDE DEF R
<1>3. PICK x \in S : \A y \in S : ~(<<y, x>> \in R)  BY <1>1, WFMin
<1>4. \A y \in S : ~(y < x)  BY <1>2, <1>3
<1>5. \A y \in S : x <= y  BY <1>4
<1> QED BY <1>5

LEMMA MinIsIn == ASSUME NEW S \in SUBSET Nat, S # {} PROVE Min(S) \in S
BY LeastExists DEF Min

LEMMA GreatestExists ==
  ASSUME NEW n \in Nat, NEW S \in SUBSET (0..n), S # {}
  PROVE  \E x \in S : \A y \in S : x >= y
<1> DEFINE T == {n - x : x \in S}
<1>1. T \in SUBSET Nat /\ T # {}
  <2>1. \A x \in S : n - x \in Nat  OBVIOUS
  <2>2. PICK x \in S : TRUE  OBVIOUS
  <2>3. n - x \in T  OBVIOUS
  <2> QED BY <2>1, <2>3
<1>2. PICK t \in T : \A u \in T : t <= u  BY <1>1, LeastExists
<1>3. PICK x \in S : t = n - x  BY <1>2
<1>4. ASSUME NEW y \in S PROVE x >= y
  <2>1. n - y \in T  OBVIOUS
  <2>2. n - x <= n - y  BY <1>2, <1>3, <2>1
  <2> QED BY <2>2
<1> QED BY <1>4

LEMMA MaxIsIn ==
  ASSUME NEW n \in Nat, NEW S \in SUBSET (0..n), S # {}
  PROVE  Max(S) \in S /\ \A y \in S : Max(S) >= y
BY GreatestExists DEF Max

LEMMA MaxOfTwo ==
  ASSUME NEW i \in Nat, NEW j \in Nat PROVE Max({i, j}) = IF j >= i THEN j ELSE i
<1> DEFINE n == IF j >= i THEN j ELSE i
           S == {i, j}
<1>1. S \in SUBSET (0..n) /\ S # {} /\ n \in Nat  OBVIOUS
<1> HIDE DEF n
<1>2. Max(S) \in S /\ \A y \in S : Max(S) >= y
  <2> HIDE DEF S
  <2> QED BY <1>1, MaxIsIn
<1> DEFINE k == Max(S)
<1>3. k \in {i, j} /\ k >= i /\ k >= j  BY <1>2
<1> HIDE DEF k
<1>4. k = IF j >= i THEN j ELSE i  BY <1>3
<1> QED BY <1>4 DEF k

-----------------------------------------------------------------------------
(* A sum counts what lies under the graph of the function.                  *)

(* The pairs of a family of sets: an index and an element of its set.        *)
Pairs(S, T, F) == {t \in S \X T : t[2] \in F[t[1]]}

LEMMA SumOfSizes ==
  ASSUME NEW S, IsFiniteSet(S), NEW T, NEW F \in [S -> SUBSET T],
         \A x \in S : IsFiniteSet(F[x]),
         NEW g \in [S -> Nat], \A x \in S : g[x] = Cardinality(F[x])
  PROVE  IsFiniteSet(Pairs(S, T, F)) /\ SumFunction(g) = Cardinality(Pairs(S, T, F))
<1> DEFINE Part(s) == {t \in s \X T : t[2] \in F[t[1]]}
           Bar(x) == {x} \X F[x]
           pick(s) == CHOOSE x \in s : TRUE
           Count == [s \in SUBSET S |-> Cardinality(Part(s))]
           iter == CHOOSE iter : iter = [s \in SUBSET S |->
                     IF s = {} THEN 0 ELSE g[pick(s)] + iter[s \ {pick(s)}]]
<1>1. ASSUME NEW x \in S PROVE IsFiniteSet(Bar(x)) /\ Cardinality(Bar(x)) = g[x]
  <2>1. g[x] \in Nat  OBVIOUS
  <2>2. IsFiniteSet(F[x]) /\ Cardinality(F[x]) = g[x]  OBVIOUS
  <2>3. IsFiniteSet({x}) /\ Cardinality({x}) = 1  BY FS_Singleton
  <2>4. IsFiniteSet(Bar(x)) /\ Cardinality(Bar(x)) = 1 * g[x]  BY <2>2, <2>3, FS_Product
  <2> QED BY <2>1, <2>4
<1>2. ASSUME NEW s \in SUBSET S, NEW x \in s
      PROVE  Part(s) = Part(s \ {x}) \cup Bar(x) /\ Part(s \ {x}) \cap Bar(x) = {}
  <2>1. F[x] \subseteq T  OBVIOUS
  <2>2. \A t : t \in Bar(x) <=> t \in s \X T /\ t[1] = x /\ t[2] \in F[x]
    BY <2>1
  <2> QED BY <2>2
<1>3. IsFiniteSet(Part(S))
  <2> DEFINE f == [x \in S |-> Bar(x)]
             R == {Bar(x) : x \in S}
  <2>1. f \in Surjection(S, R)  BY DEF Surjection
  <2>2. IsFiniteSet(R)  BY <2>1, FS_Surjection
  <2>3. \A B \in R : IsFiniteSet(B)  BY <1>1
  <2>4. IsFiniteSet(UNION R)  BY <2>2, <2>3, FS_UNION
  <2>5. Part(S) \subseteq UNION R
    <3> SUFFICES ASSUME NEW t \in Part(S) PROVE t \in UNION R  OBVIOUS
    <3>1. t[1] \in S /\ t[2] \in F[t[1]] /\ t = <<t[1], t[2]>>  OBVIOUS
    <3>2. t \in Bar(t[1])  BY <3>1
    <3> QED BY <3>1, <3>2
  <2> QED BY <2>4, <2>5, FS_Subset
<1>4. ASSUME NEW s \in SUBSET S PROVE IsFiniteSet(Part(s))
  <2>1. Part(s) \in SUBSET Part(S)  OBVIOUS
  <2> QED BY <1>3, <2>1, FS_Subset
<1>5. ASSUME NEW s \in SUBSET S, NEW x \in s
      PROVE  Cardinality(Part(s)) = g[x] + Cardinality(Part(s \ {x}))
  <2>1. s \ {x} \in SUBSET S /\ x \in S  OBVIOUS
  <2>2. IsFiniteSet(Part(s \ {x}))  BY <1>4, <2>1
  <2>3. IsFiniteSet(Bar(x)) /\ Cardinality(Bar(x)) = g[x]  BY <1>1, <2>1
  <2>4. Part(s) = Part(s \ {x}) \cup Bar(x) /\ Part(s \ {x}) \cap Bar(x) = {}  BY <1>2
  <2>5. g[x] \in Nat  BY <2>1
  <2> HIDE DEF Part, Bar
  <2>6. Cardinality(Part(s \ {x}) \cap Bar(x)) = 0  BY <2>4, FS_EmptySet
  <2>7. Cardinality(Part(s \ {x})) \in Nat  BY <2>2, FS_CardinalityType
  <2> DEFINE P == Part(s \ {x})
             B == Bar(x)
  <2>8. Cardinality(P \cup B) = Cardinality(P) + Cardinality(B) - Cardinality(P \cap B)
    <3> HIDE DEF P, B
    <3> QED BY <2>2, <2>3, FS_Union DEF P, B
  <2> QED BY <2>3, <2>4, <2>5, <2>6, <2>7, <2>8
<1>6. ASSUME NEW s \in SUBSET S, s # {} PROVE pick(s) \in s  BY <1>6
<1>7. Count = [s \in SUBSET S |-> IF s = {} THEN 0 ELSE g[pick(s)] + Count[s \ {pick(s)}]]
  <2>1. ASSUME NEW s \in SUBSET S
        PROVE  Count[s] = IF s = {} THEN 0 ELSE g[pick(s)] + Count[s \ {pick(s)}]
    <3>1. CASE s = {}
      <4>1. Part(s) = {}  BY <3>1
      <4>2. Cardinality(Part(s)) = 0  BY <4>1, FS_EmptySet
      <4> QED BY <3>1, <4>2
    <3>2. CASE s # {}
      <4>1. pick(s) \in s  BY <1>6, <3>2
      <4> HIDE DEF pick
      <4>2. Cardinality(Part(s)) = g[pick(s)] + Cardinality(Part(s \ {pick(s)}))  BY <1>5, <4>1
      <4>3. s \ {pick(s)} \in SUBSET S  OBVIOUS
      <4>4. Count[s] = Cardinality(Part(s)) /\ Count[s \ {pick(s)}] = Cardinality(Part(s \ {pick(s)}))
        BY <4>3
      <4> QED BY <3>2, <4>2, <4>4
    <3> QED BY <3>1, <3>2
  <2> HIDE DEF pick, Part
  <2> QED BY <2>1
<1> HIDE DEF Count
<1>8. iter = [s \in SUBSET S |-> IF s = {} THEN 0 ELSE g[pick(s)] + iter[s \ {pick(s)}]]
  <2> DEFINE IsCount(h) == h = [s \in SUBSET S |-> IF s = {} THEN 0 ELSE g[pick(s)] + h[s \ {pick(s)}]]
  <2>1. IsCount(Count)  BY <1>7
  <2> HIDE DEF IsCount
  <2>2. IsCount(CHOOSE h : IsCount(h))  BY <2>1
  <2> QED BY <2>2 DEF IsCount
<1>9. iter[S] = Cardinality(Part(S))
  <2> DEFINE Bad == {s \in SUBSET S : iter[s] # Cardinality(Part(s))}
             Sizes == {Cardinality(s) : s \in Bad}
  <2> HIDE DEF iter
  <2>1. SUFFICES ASSUME Bad # {} PROVE FALSE  OBVIOUS
  <2>2. \A s \in SUBSET S : IsFiniteSet(s) /\ Cardinality(s) \in Nat  BY FS_Subset, FS_CardinalityType
  <2>3. Sizes \in SUBSET Nat /\ Sizes # {}
    <3>1. Bad \subseteq SUBSET S  OBVIOUS
    <3> HIDE DEF Bad
    <3> QED BY <2>1, <2>2, <3>1
  <2>4. PICK k \in Sizes : \A y \in Sizes : k <= y  BY <2>3, LeastExists
  <2>5. PICK s \in Bad : Cardinality(s) = k  BY <2>4
  <2>6. s \in SUBSET S /\ IsFiniteSet(s) /\ Cardinality(s) \in Nat  BY <2>2
  <2>7. iter[s] = IF s = {} THEN 0 ELSE g[pick(s)] + iter[s \ {pick(s)}]  BY <1>8, <2>6
  <2>8. CASE s = {}
    <3>1. Part(s) = {}  BY <2>8
    <3>2. Cardinality(Part(s)) = 0  BY <3>1, FS_EmptySet
    <3> QED BY <2>5, <2>7, <2>8, <3>2
  <2>9. CASE s # {}
    <3>1. pick(s) \in s  BY <1>6, <2>6, <2>9
    <3> DEFINE x == pick(s)
    <3> HIDE DEF pick
    <3>2. s \ {x} \in SUBSET S /\ x \in s  BY <2>6, <3>1
    <3> HIDE DEF x
    <3>3. Cardinality(s \ {x}) = Cardinality(s) - 1  BY <2>6, <3>2, FS_RemoveElement
    <3>4. s \ {x} \notin Bad
      <4>1. s \ {x} \in Bad => k <= Cardinality(s \ {x})
        <5> HIDE DEF Bad
        <5> QED BY <2>4
      <4> QED BY <2>5, <2>6, <3>3, <4>1
    <3>5. iter[s \ {x}] = Cardinality(Part(s \ {x}))  BY <3>2, <3>4
    <3>6. iter[s] = g[x] + iter[s \ {x}]  BY <2>7, <2>9 DEF x
    <3>7. Cardinality(Part(s)) = g[x] + Cardinality(Part(s \ {x}))  BY <1>5, <2>6, <3>2
    <3> QED BY <2>5, <3>5, <3>6, <3>7
  <2> QED BY <2>8, <2>9
<1>10. SumFunction(g) = iter[S]
  BY DEF SumFunction, SumFunctionOnSet, FoldFunctionOnSet, MapThenFoldSet
<1>11. Pairs(S, T, F) = Part(S)  BY DEF Pairs
<1> QED BY <1>3, <1>9, <1>10, <1>11

-----------------------------------------------------------------------------
(* Sums over finite sets                                                    *)

(* A family of subsets that has {} and grows by one element has the set.    *)
LEMMA FiniteInduct ==
  ASSUME NEW S, IsFiniteSet(S), NEW T \in SUBSET SUBSET S, {} \in T,
         \A s \in T : \A x \in S \ s : s \union {x} \in T
  PROVE  S \in T
<1> DEFINE Bad == {s \in SUBSET S : s \notin T}
           Sizes == {Cardinality(s) : s \in Bad}
<1>1. SUFFICES ASSUME Bad # {} PROVE FALSE  OBVIOUS
<1>2. \A s \in SUBSET S : IsFiniteSet(s) /\ Cardinality(s) \in Nat
  BY FS_Subset, FS_CardinalityType
<1>3. Bad \subseteq SUBSET S /\ \A s \in Bad : s \notin T  OBVIOUS
<1>4. \A s \in SUBSET S : s \notin Bad => s \in T  OBVIOUS
<1> HIDE DEF Bad
<1>5. Sizes \in SUBSET Nat /\ Sizes # {}  BY <1>1, <1>2, <1>3
<1>6. PICK k \in Sizes : \A y \in Sizes : k <= y  BY <1>5, LeastExists
<1>7. PICK s \in Bad : Cardinality(s) = k  BY <1>6
<1>8. PICK x \in s : TRUE  BY <1>3, <1>7
<1> DEFINE t == s \ {x}
<1>9. s \in SUBSET S /\ IsFiniteSet(s) /\ t \in SUBSET S /\ x \in S \ t /\ t \union {x} = s
  BY <1>2, <1>3, <1>7, <1>8
<1>10. Cardinality(t) = Cardinality(s) - 1  BY <1>8, <1>9, FS_RemoveElement
<1>11. Cardinality(s) \in Nat /\ Cardinality(t) \in Nat  BY <1>2, <1>9
<1> HIDE DEF t
<1>12. t \in Bad => k <= Cardinality(t)  BY <1>6
<1>13. t \in T  BY <1>4, <1>7, <1>9, <1>10, <1>11, <1>12
<1>14. s \in T  BY <1>9, <1>13
<1> QED BY <1>3, <1>14

LEMMA SumCounts ==
  ASSUME NEW S, IsFiniteSet(S), NEW g \in [S -> Nat]
  PROVE  LET F == [x \in S |-> 1..g[x]]
         IN IsFiniteSet(Pairs(S, Nat, F)) /\ SumFunction(g) = Cardinality(Pairs(S, Nat, F))
<1> DEFINE F == [x \in S |-> 1..g[x]]
<1>1. F \in [S -> SUBSET Nat]  OBVIOUS
<1>2. ASSUME NEW x \in S PROVE IsFiniteSet(F[x]) /\ g[x] = Cardinality(F[x])
  <2>1. g[x] \in Nat /\ F[x] = 1..g[x]  OBVIOUS
  <2>2. IsFiniteSet(1..g[x]) /\ Cardinality(1..g[x]) = IF 1 > g[x] THEN 0 ELSE g[x] - 1 + 1
    BY <2>1, FS_Interval
  <2> QED BY <2>1, <2>2
<1> HIDE DEF F
<1>3. IsFiniteSet(Pairs(S, Nat, F)) /\ SumFunction(g) = Cardinality(Pairs(S, Nat, F))
  BY <1>1, <1>2, SumOfSizes
<1> QED BY <1>3 DEF F

LEMMA SumType == ASSUME NEW S, IsFiniteSet(S), NEW g \in [S -> Nat] PROVE SumFunction(g) \in Nat
BY SumCounts, FS_CardinalityType

LEMMA SumEmpty == ASSUME NEW g, g = [x \in {} |-> 0] PROVE SumFunction(g) = 0
<1> DEFINE F == [x \in {} |-> 1..g[x]]
<1>1. g \in [{} -> Nat] /\ IsFiniteSet({})  BY FS_EmptySet
<1>2. SumFunction(g) = Cardinality(Pairs({}, Nat, F))  BY <1>1, SumCounts
<1>3. Pairs({}, Nat, F) = {}  BY DEF Pairs
<1> QED BY <1>2, <1>3, FS_EmptySet

On(g, s) == [x \in s |-> g[x]]

LEMMA SumRemove ==
  ASSUME NEW S, IsFiniteSet(S), NEW g \in [S -> Nat], NEW x \in S
  PROVE  SumFunction(g) = g[x] + SumFunction(On(g, S \ {x}))
<1> DEFINE R == S \ {x}
           h == On(g, R)
           F == [y \in S |-> 1..g[y]]
           H == [y \in R |-> 1..h[y]]
           B == {x} \X (1..g[x])
<1>1. IsFiniteSet(R) /\ h \in [R -> Nat] /\ g[x] \in Nat  BY FS_RemoveElement DEF On
<1>2. IsFiniteSet(Pairs(S, Nat, F)) /\ SumFunction(g) = Cardinality(Pairs(S, Nat, F))
  BY SumCounts
<1>3. IsFiniteSet(Pairs(R, Nat, H)) /\ SumFunction(h) = Cardinality(Pairs(R, Nat, H))
  <2> HIDE DEF R, h
  <2> QED BY <1>1, SumCounts
<1>4. IsFiniteSet(B) /\ Cardinality(B) = g[x]
  <2>1. IsFiniteSet({x}) /\ Cardinality({x}) = 1  BY FS_Singleton
  <2>2. IsFiniteSet(1..g[x]) /\ Cardinality(1..g[x]) = g[x]
    <3>1. IsFiniteSet(1..g[x]) /\ Cardinality(1..g[x]) = IF 1 > g[x] THEN 0 ELSE g[x] - 1 + 1
      BY <1>1, FS_Interval
    <3> QED BY <1>1, <3>1
  <2>3. IsFiniteSet(B) /\ Cardinality(B) = 1 * g[x]  BY <2>1, <2>2, FS_Product, SMTT(20)
  <2> QED BY <1>1, <2>3
<1>5. Pairs(S, Nat, F) = Pairs(R, Nat, H) \union B /\ Pairs(R, Nat, H) \intersect B = {}
  <2>1. \A t : t \in Pairs(S, Nat, F) <=> t \in S \X Nat /\ t[2] \in 1..g[t[1]]
    BY DEF Pairs
  <2>2. \A t : t \in Pairs(R, Nat, H) <=> t \in S \X Nat /\ t[1] # x /\ t[2] \in 1..g[t[1]]
    BY DEF Pairs, On
  <2>3. \A t : t \in B <=> t \in S \X Nat /\ t[1] = x /\ t[2] \in 1..g[t[1]]
    BY <1>1
  <2> HIDE DEF F, H, B, R
  <2> QED BY <2>1, <2>2, <2>3
<1> DEFINE P == Pairs(R, Nat, H)
<1>6. Cardinality(P \union B) = Cardinality(P) + Cardinality(B) - Cardinality(P \intersect B)
  <2> HIDE DEF P, B
  <2> QED BY <1>3, <1>4, FS_Union DEF P
<1>7. Cardinality(P \intersect B) = 0  BY <1>5, FS_EmptySet
<1>8. Cardinality(P) \in Nat  BY <1>3, FS_CardinalityType
<1>9. SumFunction(g) = g[x] + SumFunction(h)
  <2> HIDE DEF P, B, F, H, h, R
  <2> QED BY <1>1, <1>2, <1>3, <1>4, <1>5, <1>6, <1>7, <1>8 DEF P
<1> QED BY <1>9

(* The same, as it serves an induction                                      *)
LEMMA SumAdd ==
  ASSUME NEW S, IsFiniteSet(S), NEW g \in [S -> Nat], NEW s \in SUBSET S, NEW x \in S \ s
  PROVE  /\ SumFunction(On(g, s \union {x})) = g[x] + SumFunction(On(g, s))
         /\ SumFunction(On(g, s)) \in Nat /\ g[x] \in Nat
<1> DEFINE u == s \union {x}
           h == On(g, u)
<1>1. IsFiniteSet(s) /\ IsFiniteSet(u) /\ u \in SUBSET S  BY FS_Subset
<1>2. h \in [u -> Nat] /\ x \in u /\ h[x] = g[x] /\ On(h, u \ {x}) = On(g, s)
      /\ On(g, s) \in [s -> Nat]
  BY DEF On
<1> HIDE DEF h, u
<1>3. SumFunction(h) = h[x] + SumFunction(On(h, u \ {x}))  BY <1>1, <1>2, SumRemove
<1>4. SumFunction(On(g, s)) \in Nat  BY <1>1, <1>2, SumType
<1> QED BY <1>2, <1>3, <1>4 DEF h, u

LEMMA OnAll == ASSUME NEW S, NEW g \in [S -> Nat] PROVE On(g, S) = g
BY DEF On

LEMMA OnNone == ASSUME NEW g PROVE SumFunction(On(g, {})) = 0
<1>1. On(g, {}) = [x \in {} |-> 0]  BY DEF On
<1> QED BY <1>1, SumEmpty

LEMMA SumPlus ==
  ASSUME NEW S, IsFiniteSet(S), NEW g \in [S -> Nat], NEW h \in [S -> Nat],
         NEW k \in [S -> Nat], \A x \in S : k[x] = g[x] + h[x]
  PROVE  SumFunction(k) = SumFunction(g) + SumFunction(h)
<1>0. ASSUME NEW s \in SUBSET S, NEW x \in S \ s
      PROVE  /\ SumFunction(On(g, s \union {x})) = g[x] + SumFunction(On(g, s))
             /\ SumFunction(On(g, s)) \in Nat /\ g[x] \in Nat
  BY SumAdd
<1> DEFINE T == {s \in SUBSET S :
                   SumFunction(On(k, s)) = SumFunction(On(g, s)) + SumFunction(On(h, s))}
<1>1. {} \in T  BY OnNone
<1>2. ASSUME NEW s \in T, NEW x \in S \ s PROVE s \union {x} \in T
  <2>1. s \in SUBSET S /\ SumFunction(On(k, s)) = SumFunction(On(g, s)) + SumFunction(On(h, s))
    OBVIOUS
  <2> HIDE DEF T
  <2>2. SumFunction(On(g, s \union {x})) = g[x] + SumFunction(On(g, s))
        /\ SumFunction(On(g, s)) \in Nat /\ g[x] \in Nat
    BY <1>0, <2>1
  <2>3. SumFunction(On(h, s \union {x})) = h[x] + SumFunction(On(h, s))
        /\ SumFunction(On(h, s)) \in Nat /\ h[x] \in Nat
    BY <2>1, SumAdd
  <2>4. SumFunction(On(k, s \union {x})) = k[x] + SumFunction(On(k, s))
    BY <2>1, SumAdd
  <2>5. k[x] = g[x] + h[x] /\ s \union {x} \in SUBSET S  BY <2>1
  <2>6. SumFunction(On(k, s \union {x})) =
          SumFunction(On(g, s \union {x})) + SumFunction(On(h, s \union {x}))
    BY <2>1, <2>2, <2>3, <2>4, <2>5
  <2> QED BY <2>5, <2>6 DEF T
<1>3. S \in T
  <2>1. T \in SUBSET SUBSET S  OBVIOUS
  <2> HIDE DEF T
  <2> QED BY <1>1, <1>2, <2>1, FiniteInduct
<1> QED BY <1>3, OnAll

LEMMA SumLeq ==
  ASSUME NEW S, IsFiniteSet(S), NEW g \in [S -> Nat], NEW h \in [S -> Nat],
         \A x \in S : g[x] <= h[x]
  PROVE  SumFunction(g) <= SumFunction(h)
<1> DEFINE d == [x \in S |-> h[x] - g[x]]
<1>1. \A x \in S : g[x] \in Nat /\ h[x] \in Nat  OBVIOUS
<1>2. d \in [S -> Nat] /\ \A x \in S : h[x] = g[x] + d[x]  BY <1>1
<1> HIDE DEF d
<1>3. SumFunction(h) = SumFunction(g) + SumFunction(d)  BY <1>2, SumPlus
<1>4. SumFunction(g) \in Nat /\ SumFunction(d) \in Nat  BY <1>2, SumType
<1> QED BY <1>3, <1>4

(* One of the numbers grows.                                                *)
LEMMA SumUpdate ==
  ASSUME NEW S, IsFiniteSet(S), NEW g \in [S -> Nat], NEW h \in [S -> Nat], NEW x \in S,
         NEW d \in Int, h[x] = g[x] + d, \A y \in S \ {x} : h[y] = g[y]
  PROVE  SumFunction(h) = SumFunction(g) + d
<1>1. On(h, S \ {x}) = On(g, S \ {x}) /\ On(g, S \ {x}) \in [S \ {x} -> Nat]  BY DEF On
<1>2. IsFiniteSet(S \ {x})  BY FS_RemoveElement
<1>3. SumFunction(On(g, S \ {x})) \in Nat  BY <1>1, <1>2, SumType
<1>4. SumFunction(g) = g[x] + SumFunction(On(g, S \ {x}))
      /\ SumFunction(h) = h[x] + SumFunction(On(h, S \ {x}))
  BY SumRemove
<1>5. g[x] \in Nat /\ h[x] \in Nat  OBVIOUS
<1> QED BY <1>1, <1>3, <1>4, <1>5

LEMMA SumZero ==
  ASSUME NEW S, IsFiniteSet(S), NEW g \in [S -> Nat]
  PROVE  SumFunction(g) = 0 <=> \A x \in S : g[x] = 0
<1>1. ASSUME SumFunction(g) = 0, NEW x \in S PROVE g[x] = 0
  <2>1. On(g, S \ {x}) \in [S \ {x} -> Nat] /\ g[x] \in Nat  BY DEF On
  <2>2. IsFiniteSet(S \ {x})  BY FS_RemoveElement
  <2>3. SumFunction(On(g, S \ {x})) \in Nat  BY <2>1, <2>2, SumType
  <2>4. SumFunction(g) = g[x] + SumFunction(On(g, S \ {x}))  BY SumRemove
  <2> QED BY <1>1, <2>1, <2>3, <2>4
<1>2. ASSUME \A x \in S : g[x] = 0 PROVE SumFunction(g) = 0
  <2>1. \A x \in S : g[x] = g[x] + g[x]  BY <1>2
  <2>2. SumFunction(g) = SumFunction(g) + SumFunction(g)  BY <2>1, SumPlus
  <2> DEFINE n == SumFunction(g)
  <2>3. n \in Nat  BY SumType
  <2>4. n = n + n  BY <2>2
  <2> HIDE DEF n
  <2>5. n = 0  BY <2>3, <2>4
  <2> QED BY <2>5 DEF n
<1> QED BY <1>1, <1>2

LEMMA SumScale ==
  ASSUME NEW S, IsFiniteSet(S), NEW g \in [S -> Nat], NEW h \in [S -> Nat], NEW c \in Nat,
         \A x \in S : h[x] = g[x] * c
  PROVE  SumFunction(h) = SumFunction(g) * c
<1>0. ASSUME NEW s \in SUBSET S, NEW x \in S \ s
      PROVE  /\ SumFunction(On(g, s \union {x})) = g[x] + SumFunction(On(g, s))
             /\ SumFunction(On(g, s)) \in Nat /\ g[x] \in Nat
  BY SumAdd
<1> DEFINE T == {s \in SUBSET S : SumFunction(On(h, s)) = SumFunction(On(g, s)) * c}
<1>1. {} \in T  BY OnNone
<1>2. ASSUME NEW s \in T, NEW x \in S \ s PROVE s \union {x} \in T
  <2>1. s \in SUBSET S /\ SumFunction(On(h, s)) = SumFunction(On(g, s)) * c  OBVIOUS
  <2> HIDE DEF T
  <2>2. SumFunction(On(g, s \union {x})) = g[x] + SumFunction(On(g, s))
        /\ SumFunction(On(g, s)) \in Nat /\ g[x] \in Nat
    BY <1>0, <2>1
  <2>3. SumFunction(On(h, s \union {x})) = h[x] + SumFunction(On(h, s))
    BY <2>1, SumAdd
  <2>4. h[x] = g[x] * c /\ s \union {x} \in SUBSET S  BY <2>1
  <2>5. (g[x] + SumFunction(On(g, s))) * c = g[x] * c + SumFunction(On(g, s)) * c  BY <2>2
  <2> QED BY <2>1, <2>2, <2>3, <2>4, <2>5 DEF T
<1>3. S \in T
  <2>1. T \in SUBSET SUBSET S  OBVIOUS
  <2> HIDE DEF T
  <2> QED BY <1>1, <1>2, <2>1, FiniteInduct
<1> QED BY <1>3, OnAll

(* Part of the numbers                                                      *)
LEMMA SumPart ==
  ASSUME NEW S, IsFiniteSet(S), NEW g \in [S -> Nat], NEW R \in SUBSET S
  PROVE  SumFunction(On(g, R)) <= SumFunction(g)
<1>0. ASSUME NEW s \in SUBSET S, NEW x \in S \ s
      PROVE  /\ SumFunction(On(g, s \union {x})) = g[x] + SumFunction(On(g, s))
             /\ SumFunction(On(g, s)) \in Nat /\ g[x] \in Nat
  BY SumAdd
<1> DEFINE T == {s \in SUBSET S : SumFunction(On(g, s \intersect R)) <= SumFunction(On(g, s))}
<1>1. {} \in T
  <2>1. {} \intersect R = {}  OBVIOUS
  <2> QED BY <2>1, OnNone
<1>2. ASSUME NEW s \in T, NEW x \in S \ s PROVE s \union {x} \in T
  <2>1. s \in SUBSET S /\ SumFunction(On(g, s \intersect R)) <= SumFunction(On(g, s))  OBVIOUS
  <2> HIDE DEF T
  <2>2. SumFunction(On(g, s \union {x})) = g[x] + SumFunction(On(g, s))
        /\ SumFunction(On(g, s)) \in Nat /\ g[x] \in Nat
    BY <1>0, <2>1
  <2> DEFINE t == s \intersect R
             u == (s \union {x}) \intersect R
  <2>3. t \in SUBSET S /\ x \in S \ t /\ (u = t \/ u = t \union {x})  BY <2>1
  <2> HIDE DEF t, u
  <2>4. SumFunction(On(g, t \union {x})) = g[x] + SumFunction(On(g, t))
        /\ SumFunction(On(g, t)) \in Nat
    BY <2>3, SumAdd
  <2> DEFINE a == SumFunction(On(g, t))
             b == SumFunction(On(g, s))
             e == SumFunction(On(g, u))
  <2>5. a \in Nat /\ b \in Nat /\ g[x] \in Nat /\ a <= b /\ (e = a \/ e = g[x] + a)
    BY <2>1, <2>2, <2>3, <2>4 DEF t
  <2> HIDE DEF a, b, e
  <2>6. e <= g[x] + b  BY <2>5
  <2>7. SumFunction(On(g, u)) <= SumFunction(On(g, s \union {x}))  BY <2>2, <2>6 DEF b, e
  <2> QED BY <2>1, <2>7 DEF T, u
<1>3. S \in T
  <2>1. T \in SUBSET SUBSET S  OBVIOUS
  <2> HIDE DEF T
  <2> QED BY <1>1, <1>2, <2>1, FiniteInduct
<1>4. S \intersect R = R  OBVIOUS
<1> QED BY <1>3, <1>4, OnAll

(* Rows and columns add up to the same.                                     *)
LEMMA SumSwap ==
  ASSUME NEW S, IsFiniteSet(S), NEW T, IsFiniteSet(T), NEW G \in [S -> [T -> Nat]]
  PROVE  SumFunction([x \in S |-> SumFunction(G[x])])
           = SumFunction([y \in T |-> SumFunction([x \in S |-> G[x][y]])])
<1> DEFINE row == [x \in S |-> SumFunction(G[x])]
           Col(y) == [x \in S |-> G[x][y]]
           Cols(s) == [y \in T |-> SumFunction(On(Col(y), s))]
           I == {s \in SUBSET S : SumFunction(On(row, s)) = SumFunction(Cols(s))}
<1>1. row \in [S -> Nat]
  <2>1. ASSUME NEW x \in S PROVE SumFunction(G[x]) \in Nat
    <3>1. G[x] \in [T -> Nat]  OBVIOUS
    <3> QED BY <3>1, SumType
  <2> QED BY <2>1
<1>2. ASSUME NEW y \in T PROVE Col(y) \in [S -> Nat]  OBVIOUS
<1>3. ASSUME NEW s \in SUBSET S PROVE Cols(s) \in [T -> Nat]
  <2>1. ASSUME NEW y \in T PROVE SumFunction(On(Col(y), s)) \in Nat
    <3>1. IsFiniteSet(s)  BY FS_Subset
    <3>2. On(Col(y), s) \in [s -> Nat]  BY <1>2 DEF On
    <3> HIDE DEF Col
    <3> QED BY <3>1, <3>2, SumType
  <2> HIDE DEF Col
  <2> QED BY <2>1
<1>4. {} \in I
  <2>1. Cols({}) \in [T -> Nat] /\ \A y \in T : Cols({})[y] = 0
    <3>1. Cols({}) \in [T -> Nat]  BY <1>3
    <3>2. \A y \in T : Cols({})[y] = SumFunction(On(Col(y), {}))  OBVIOUS
    <3> HIDE DEF Col, Cols
    <3> QED BY <3>1, <3>2, OnNone
  <2> HIDE DEF Cols, row
  <2>2. SumFunction(Cols({})) = 0  BY <2>1, SumZero
  <2> QED BY <2>2, OnNone
<1>5. ASSUME NEW s \in I, NEW x \in S \ s PROVE s \union {x} \in I
  <2>1. s \in SUBSET S /\ SumFunction(On(row, s)) = SumFunction(Cols(s))  OBVIOUS
  <2>2. s \union {x} \in SUBSET S /\ G[x] \in [T -> Nat] /\ row[x] = SumFunction(G[x])  BY <2>1
  <2>3. Cols(s) \in [T -> Nat] /\ Cols(s \union {x}) \in [T -> Nat]  BY <1>3, <2>1, <2>2
  <2>4. ASSUME NEW y \in T PROVE Cols(s \union {x})[y] = G[x][y] + Cols(s)[y]
    <3>1. Col(y) \in [S -> Nat] /\ Col(y)[x] = G[x][y]  BY <1>2
    <3>2. Cols(s \union {x})[y] = SumFunction(On(Col(y), s \union {x}))
          /\ Cols(s)[y] = SumFunction(On(Col(y), s))
      OBVIOUS
    <3> HIDE DEF Col, Cols
    <3> QED BY <2>1, <3>1, <3>2, SumAdd
  <2> HIDE DEF Cols, row
  <2>5. SumFunction(Cols(s \union {x})) = SumFunction(G[x]) + SumFunction(Cols(s))
    <3> DEFINE old == Cols(s)
               new == Cols(s \union {x})
               Gx == G[x]
    <3>1. old \in [T -> Nat] /\ new \in [T -> Nat] /\ Gx \in [T -> Nat]
          /\ \A y \in T : new[y] = Gx[y] + old[y]
      BY <2>2, <2>3, <2>4
    <3> HIDE DEF old, new, Gx
    <3>2. SumFunction(new) = SumFunction(Gx) + SumFunction(old)  BY <3>1, SumPlus
    <3> QED BY <3>2 DEF old, new, Gx
  <2>6. SumFunction(On(row, s \union {x})) = row[x] + SumFunction(On(row, s))
    BY <1>1, <2>1, SumAdd
  <2> QED BY <2>1, <2>2, <2>5, <2>6
<1>6. S \in I
  <2>1. I \in SUBSET SUBSET S  OBVIOUS
  <2> HIDE DEF I
  <2> QED BY <1>4, <1>5, <2>1, FiniteInduct
<1>7. On(row, S) = row /\ Cols(S) = [y \in T |-> SumFunction(Col(y))]
  <2>1. On(row, S) = row  BY <1>1, OnAll
  <2>2. \A y \in T : On(Col(y), S) = Col(y)  BY <1>2, OnAll
  <2> HIDE DEF Col
  <2> QED BY <2>1, <2>2
<1>8. SumFunction(row) = SumFunction(Cols(S))
  <2>1. SumFunction(On(row, S)) = SumFunction(Cols(S))  BY <1>6
  <2> QED BY <1>7, <2>1
<1> QED BY <1>7, <1>8
=============================================================================
