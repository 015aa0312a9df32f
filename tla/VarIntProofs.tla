------------------------------ MODULE VarIntProofs ------------------------------
(***************************************************************************)
(* What was written is what is read, for every word and every string       *)
(* (VarInt).                                                               *)
(***************************************************************************)
EXTENDS VarInt, SequenceTheorems, WellFoundedInduction, TLAPS

(***************************************************************************)
(* Numbers: the least and the greatest of a set, and induction, which is   *)
(* stated with sets instead of predicates.                                 *)
(***************************************************************************)

\* A set of naturals has a least element.
LEMMA LeastOfSet ==
  ASSUME NEW S \in SUBSET Nat, S # {}
  PROVE  \E m \in S : \A k \in S : m <= k
<1>1. PICK m \in S : \A k \in S : ~(<<k, m>> \in OpToRel(<, Nat))
  BY NatLessThanWellFounded, WFMin
<1>2. \A k \in S : ~(k < m)
  BY <1>1 DEF OpToRel
<1> QED BY <1>2

\* A bounded one has a greatest.
LEMMA GreatestOfSet ==
  ASSUME NEW S \in SUBSET Nat, S # {}, NEW n \in Nat, \A k \in S : k <= n
  PROVE  \E m \in S : \A k \in S : k <= m
<1> DEFINE T == {m \in Nat : \A k \in S : k <= m}
<1>1. T \in SUBSET Nat /\ n \in T
  OBVIOUS
<1>2. PICK m \in T : \A k \in T : m <= k
  BY <1>1, LeastOfSet
<1>3. ASSUME m \notin S PROVE FALSE
  <2>1. PICK s \in S : s \in Nat /\ s <= m /\ s # m
    BY <1>2, <1>3
  <2>2. m - 1 \in Nat
    BY <1>2, <2>1
  <2>3. \A k \in S : k <= m - 1
    BY <1>2, <1>3
  <2>4. m - 1 \in T
    BY <2>2, <2>3
  <2> QED BY <1>2, <2>2, <2>4
<1> QED BY <1>2, <1>3

\* Min and Max are that.
LEMMA MinIs ==
  ASSUME NEW S \in SUBSET Nat, NEW m \in S, \A k \in S : m <= k
  PROVE  Min(S) = m
<1>1. \A x \in S : (\A y \in S : x =< y) => x = m
  BY SMT
<1> QED BY <1>1 DEF Min

LEMMA MaxIs ==
  ASSUME NEW S \in SUBSET Nat, NEW m \in S, \A k \in S : k <= m
  PROVE  Max(S) = m
<1>1. \A x \in S : (\A y \in S : x >= y) => x = m
  BY SMT
<1> QED BY <1>1 DEF Max

\* A set of numbers up to n that has 0 and with every number the next one has all.
LEMMA Induction ==
  ASSUME NEW n \in Nat, NEW S, 0 \in S, \A k \in 0..(n - 1) : k \in S => k + 1 \in S
  PROVE  \A k \in 0..n : k \in S
<1> DEFINE T == {k \in 0..n : k \notin S}
<1> SUFFICES ASSUME T # {} PROVE FALSE
  OBVIOUS
<1>1. PICK m \in T : \A k \in T : m <= k
  <2>1. T \in SUBSET Nat
    OBVIOUS
  <2> HIDE DEF T
  <2> QED BY <2>1, LeastOfSet
<1>2. m \in 0..n /\ m \notin S /\ m # 0
  BY <1>1
<1>3. m - 1 \in 0..(n - 1) /\ (m - 1) + 1 = m /\ m - 1 \in 0..n
  BY <1>2
<1>4. m - 1 \in S
  BY <1>1, <1>3
<1> QED BY <1>2, <1>3, <1>4

(***************************************************************************)
(* Words.                                                                  *)
(***************************************************************************)

\* The bits of a shifted word.
LEMMA InShl ==
  ASSUME NEW x \in SUBSET Nat, NEW n \in Nat, NEW w \in Nat, NEW b
  PROVE  b \in Shl(x, n, w) <=> b \in 0..(w - 1) /\ b - n \in x
<1>1. ASSUME b \in Shl(x, n, w) PROVE b \in 0..(w - 1) /\ b - n \in x
  <2>1. PICK c \in x : b = c + n
    BY <1>1 DEF Shl
  <2>2. b \in 0..(w - 1) /\ c \in Nat /\ b - n = c
    BY <1>1, <2>1 DEF Shl, Bits
  <2> QED BY <2>1, <2>2
<1>2. ASSUME b \in 0..(w - 1), b - n \in x PROVE b \in Shl(x, n, w)
  <2>1. b = (b - n) + n
    BY <1>2
  <2> QED BY <1>2, <2>1 DEF Shl, Bits
<1> QED BY <1>1, <1>2

LEMMA InShr ==
  ASSUME NEW x \in SUBSET Nat, NEW n \in Nat, NEW b
  PROVE  b \in Shr(x, n) <=> b \in Nat /\ b + n \in x
<1>1. ASSUME b \in Shr(x, n) PROVE b \in Nat /\ b + n \in x
  <2>1. PICK c \in x : c >= n /\ b = c - n
    BY <1>1 DEF Shr
  <2>2. c \in Nat /\ b \in Nat /\ b + n = c
    BY <2>1
  <2> QED BY <2>1, <2>2
<1>2. ASSUME b \in Nat, b + n \in x PROVE b \in Shr(x, n)
  <2>1. b = (b + n) - n /\ b + n >= n
    BY <1>2
  <2> QED BY <1>2, <2>1 DEF Shr
<1> QED BY <1>1, <1>2

\* The bits of -x.
LEMMA InNeg ==
  ASSUME NEW x \in SUBSET Nat, NEW w \in Nat, NEW b
  PROVE  b \in Neg(x, w) <=> b \in 0..(w - 1) /\ (b \in x <=> ~\E c \in x : c < b)
<1>1. b \in 0..(w - 1) => ((\E c \in 0..(b - 1) : c \in x) <=> (\E c \in x : c < b))
  BY SMT
<1> QED BY <1>1 DEF Neg, Bits

\* --x is x.
LEMMA NegTwice ==
  ASSUME NEW w \in Nat, NEW x \in SUBSET (0..(w - 1))
  PROVE  Neg(Neg(x, w), w) = x
<1> DEFINE y == Neg(x, w)
<1>1. x \in SUBSET Nat
  OBVIOUS
<1>2. \A b : b \in y <=> b \in 0..(w - 1) /\ (b \in x <=> ~\E c \in x : c < b)
  BY <1>1, InNeg
<1> HIDE DEF y
<1>3. y \in SUBSET Nat
  BY <1>2
<1>4. ASSUME NEW b \in 0..(w - 1)
      PROVE  (\E c \in y : c < b) <=> (\E c \in x : c < b)
  <2>1. ASSUME NEW c \in y, c < b PROVE \E d \in x : d < b
    BY <1>1, <1>2, <2>1
  <2>2. ASSUME NEW c \in x, c < b PROVE \E d \in y : d < b
    <3>1. PICK m \in x : \A k \in x : m <= k
      BY <1>1, LeastOfSet
    <3>2. m \in y /\ m < b
      BY <1>1, <1>2, <2>2, <3>1
    <3> QED BY <3>2
  <2> QED BY <2>1, <2>2
<1>5. ASSUME NEW b PROVE b \in Neg(y, w) <=> b \in x
  <2>1. b \in Neg(y, w) <=> b \in 0..(w - 1) /\ (b \in y <=> ~\E c \in y : c < b)
    BY <1>3, InNeg
  <2> QED BY <1>2, <1>4, <2>1
<1> QED BY <1>5 DEF y

\* The sign folded into bit 0 and back.
LEMMA SignOK ==
  ASSUME NEW w \in Nat, w > 0, NEW x \in SUBSET (0..(w - 1))
  PROVE  S2U(x, w) \in SUBSET (0..(w - 1)) /\ U2S(S2U(x, w), w) = x
<1> DEFINE u == S2U(x, w)
           v == Shr(u, 1)
<1>0. x \in SUBSET Nat /\ 1 \in Nat
  OBVIOUS
<1>1. CASE w - 1 \notin x
  <2>1. u = Shl(x, 1, w)
    BY <1>1 DEF S2U
  <2>2. \A b : b \in u <=> b \in 0..(w - 1) /\ b - 1 \in x
    BY <1>0, <2>1, InShl
  <2> HIDE DEF u
  <2>3. u \in SUBSET Nat /\ 0 \notin u /\ u \in SUBSET (0..(w - 1))
    BY <1>0, <2>2
  <2>4. \A b : b \in v <=> b \in Nat /\ b + 1 \in u
    BY <1>0, <2>3, InShr
  <2> HIDE DEF v
  <2>5. ASSUME NEW b PROVE b \in v <=> b \in x
    <3>1. b \in Nat => (b + 1) - 1 = b
      OBVIOUS
    <3>2. b \in x => b \in Nat /\ b + 1 \in 0..(w - 1)
      BY <1>1
    <3> QED BY <2>2, <2>4, <3>1, <3>2
  <2>6. v = x
    BY <2>5
  <2>7. U2S(u, w) = v
    BY <2>3 DEF U2S, v
  <2> QED BY <2>3, <2>6, <2>7 DEF u
<1>2. CASE x = {w - 1}
  <2>1. u = {0}
    BY <1>2 DEF S2U
  <2>2. \A b : b \in v <=> b \in Nat /\ b + 1 \in {0}
    BY <1>0, <2>1, InShr
  <2>3. v = {} /\ 0 \in u
    BY <2>1, <2>2
  <2>4. U2S(u, w) = {w - 1}
    BY <2>3 DEF U2S
  <2>5. u \in SUBSET (0..(w - 1))
    BY <2>1
  <2> QED BY <1>2, <2>4, <2>5
<1>3. CASE w - 1 \in x /\ x # {w - 1}
  <2> DEFINE n == Neg(x, w)
             s == Shl(n, 1, w)
  <2>1. u = s \cup {0}
    BY <1>3 DEF S2U
  <2>2. \A b : b \in n <=> b \in 0..(w - 1) /\ (b \in x <=> ~\E c \in x : c < b)
    BY <1>0, InNeg
  <2>3. Neg(n, w) = x
    BY NegTwice
  <2> HIDE DEF n
  <2>4. n \in SUBSET Nat
    BY <2>2
  <2>5. \A b : b \in s <=> b \in 0..(w - 1) /\ b - 1 \in n
    BY <1>0, <2>4, InShl
  <2> HIDE DEF s, u
  <2>6. u \in SUBSET Nat /\ 0 \in u /\ u \in SUBSET (0..(w - 1))
    BY <2>1, <2>5
  <2>7. \A b : b \in v <=> b \in Nat /\ b + 1 \in u
    BY <1>0, <2>6, InShr
  <2> HIDE DEF v
  <2>8. w - 1 \notin n /\ n # {}
    <3>1. PICK c \in x : c # w - 1
      BY <1>3
    <3>2. c < w - 1
      BY <3>1
    <3>3. PICK m \in x : \A k \in x : m <= k
      BY <1>0, <1>3, LeastOfSet
    <3>4. m \in n
      BY <2>2, <3>3
    <3> QED BY <1>3, <2>2, <3>2, <3>4
  <2>9. ASSUME NEW b PROVE b \in v <=> b \in n
    <3>1. b \in n => b \in 0..(w - 1) /\ b # w - 1 /\ b + 1 \in 0..(w - 1) /\ (b + 1) - 1 = b /\ b \in Nat
      BY <2>2, <2>8
    <3>2. b \in Nat => (b + 1 \in u <=> b + 1 \in s) /\ (b + 1) - 1 = b
      BY <2>1
    <3> QED BY <2>5, <2>7, <3>1, <3>2
  <2>10. v = n
    BY <2>9
  <2>11. U2S(u, w) = Neg(v, w)
    BY <2>6, <2>8, <2>10 DEF U2S, v
  <2> QED BY <2>3, <2>6, <2>10, <2>11 DEF u
<1> QED BY <1>1, <1>2, <1>3

\* The equations of the carry.
LEMMA CarryIs ==
  ASSUME NEW x, NEW y, NEW w \in Nat
  PROVE  LET f == Carry(x, y, w)
         IN  /\ ~f[0]
             /\ \A i \in 0..(w - 1) :
                   f[i + 1] <=> (i \in x /\ i \in y) \/ ((i \in x \/ i \in y) /\ f[i])
<1> DEFINE P(f, i) == i > 0 /\ LET b == i - 1
                               IN  \/ b \in x /\ b \in y
                                   \/ (b \in x \/ b \in y) /\ f[b]
           Q(i) == \E c \in 0..(i - 1) : /\ c \in x /\ c \in y
                                         /\ \A d \in (c + 1)..(i - 1) : d \in x \/ d \in y
           g == [i \in 0..w |-> Q(i)]
           f == Carry(x, y, w)
<1>1. ASSUME NEW i \in 0..w PROVE Q(i) = P(g, i)
  <2>1. CASE i = 0
    <3>1. Q(i) <=> P(g, i)
      BY <2>1
    <3> QED BY <3>1
  <2>2. CASE i # 0
    <3> DEFINE b == i - 1
    <3>1. b \in 0..w /\ i > 0 /\ b + 1 = i
      BY <2>2
    <3>2. g[b] = Q(b)
      BY <3>1
    <3> HIDE DEF b, g
    <3>3. ASSUME Q(i) PROVE (b \in x /\ b \in y) \/ ((b \in x \/ b \in y) /\ Q(b))
      <4>1. PICK c \in 0..b : c \in x /\ c \in y /\ \A d \in (c + 1)..b : d \in x \/ d \in y
        BY <3>1, <3>3 DEF b
      <4>2. CASE c = b
        BY <4>1, <4>2
      <4>3. CASE c # b
        <5>1. c \in 0..(b - 1) /\ b \in (c + 1)..b /\ (c + 1)..(b - 1) \subseteq (c + 1)..b
          BY <3>1, <4>3
        <5> QED BY <4>1, <5>1
      <4> QED BY <4>2, <4>3
    <3>4. ASSUME b \in x, b \in y PROVE Q(i)
      <4>1. b \in 0..(i - 1) /\ (b + 1)..(i - 1) = {}
        BY <3>1
      <4> QED BY <3>4, <4>1
    <3>5. ASSUME b \in x \/ b \in y, Q(b) PROVE Q(i)
      <4>1. PICK c \in 0..(b - 1) : c \in x /\ c \in y /\ \A d \in (c + 1)..(b - 1) : d \in x \/ d \in y
        BY <3>5
      <4>2. c \in 0..(i - 1) /\ \A d \in (c + 1)..(i - 1) : d = b \/ d \in (c + 1)..(b - 1)
        BY <3>1
      <4> QED BY <3>5, <4>1, <4>2
    <3>6. Q(i) <=> (b \in x /\ b \in y) \/ ((b \in x \/ b \in y) /\ g[b])
      BY <3>2, <3>3, <3>4, <3>5
    <3>7. i > 0 <=> TRUE
      BY <3>1
    <3> HIDE DEF Q
    <3>8. Q(i) <=> P(g, i)
      BY <3>6, <3>7 DEF b
    <3> QED BY <3>8 DEF Q
  <2> QED BY <2>1, <2>2
<1>2. g = [i \in 0..w |-> P(g, i)]
  <2> HIDE DEF P
  <2> QED BY <1>1
<1>3. f = CHOOSE h : h = [i \in 0..w |-> P(h, i)]
  BY DEF Carry
<1>4. f = [i \in 0..w |-> P(f, i)]
  <2> HIDE DEF P, g, f
  <2> QED BY <1>2, <1>3
<1>5. 0 \in 0..w /\ ~P(f, 0)
  OBVIOUS
<1>6. ~f[0]
  <2> HIDE DEF P, f
  <2> QED BY <1>4, <1>5
<1>7. ASSUME NEW i \in 0..(w - 1)
      PROVE  f[i + 1] <=> (i \in x /\ i \in y) \/ ((i \in x \/ i \in y) /\ f[i])
  <2>1. i + 1 \in 0..w /\ i + 1 > 0 /\ (i + 1) - 1 = i
    OBVIOUS
  <2>2. f[i + 1] = P(f, i + 1)
    <3> HIDE DEF P, f
    <3> QED BY <1>4, <2>1
  <2> HIDE DEF f
  <2> QED BY <2>1, <2>2
<1> QED BY <1>6, <1>7

\* The bits of a sum.
LEMMA InAdd ==
  ASSUME NEW x, NEW y, NEW w \in Nat, NEW b
  PROVE  b \in Add(x, y, w) <=>
           b \in 0..(w - 1) /\ ((b \in x <=> b \in y) <=> Carry(x, y, w)[b])
  BY DEF Add, Bits

\* A difference added to what it was taken from: m_cur + (next - m_cur) = next.
LEMMA DifferenceOK ==
  ASSUME NEW w \in Nat, NEW e \in SUBSET (0..(w - 1)), NEW v \in SUBSET (0..(w - 1))
  PROVE  Add(e, Add(v, Neg(e, w), w), w) = v
<1> DEFINE n == Neg(e, w)
           d == Add(v, n, w)
           c1 == Carry(v, n, w)
           c2 == Carry(e, d, w)
           low(i) == \E c \in e : c < i
           r == Add(e, d, w)
           OK == {i \in 0..w : (c1[i] \/ c2[i] <=> low(i)) /\ ~(c1[i] /\ c2[i])}
<1>1. e \in SUBSET Nat /\ 0 \in 0..w
  OBVIOUS
<1>2. \A b : b \in n <=> b \in 0..(w - 1) /\ (b \in e <=> ~low(b))
  BY <1>1, InNeg
<1>3. \A b : b \in d <=> b \in 0..(w - 1) /\ ((b \in v <=> b \in n) <=> c1[b])
  BY InAdd
<1>4. \A b : b \in r <=> b \in 0..(w - 1) /\ ((b \in e <=> b \in d) <=> c2[b])
  BY InAdd
<1>5. ~c1[0] /\ \A i \in 0..(w - 1) :
               c1[i + 1] <=> (i \in v /\ i \in n) \/ ((i \in v \/ i \in n) /\ c1[i])
  BY CarryIs
<1>6. ~c2[0] /\ \A i \in 0..(w - 1) :
               c2[i + 1] <=> (i \in e /\ i \in d) \/ ((i \in e \/ i \in d) /\ c2[i])
  BY CarryIs
<1>7. ~low(0) /\ \A i \in 0..(w - 1) : low(i + 1) <=> low(i) \/ i \in e
  BY <1>1
<1> HIDE DEF n, d, c1, c2, r, low
<1>8. 0 \in OK
  BY <1>1, <1>5, <1>6, <1>7
<1>9. ASSUME NEW i \in 0..(w - 1), i \in OK PROVE i + 1 \in OK
  <2>1. i + 1 \in 0..w
    OBVIOUS
  <2>2. (c1[i] \/ c2[i] <=> low(i)) /\ ~(c1[i] /\ c2[i])
    BY <1>9
  <2>3. (i \in n <=> (i \in e <=> ~low(i))) /\ (i \in d <=> ((i \in v <=> i \in n) <=> c1[i]))
    BY <1>2, <1>3
  <2> HIDE DEF OK
  <2>4. (c1[i + 1] \/ c2[i + 1] <=> low(i + 1)) /\ ~(c1[i + 1] /\ c2[i + 1])
    BY <1>5, <1>6, <1>7, <2>2, <2>3
  <2> QED BY <2>1, <2>4 DEF OK
<1>10. \A i \in 0..w : i \in OK
  <2> HIDE DEF OK
  <2> QED BY <1>8, <1>9, Induction
<1>11. ASSUME NEW b \in 0..(w - 1) PROVE b \in r <=> b \in v
  <2>1. b \in OK
    BY <1>10
  <2>2. (c1[b] \/ c2[b] <=> low(b)) /\ ~(c1[b] /\ c2[b])
    BY <2>1
  <2>3. (b \in n <=> (b \in e <=> ~low(b))) /\ (b \in d <=> ((b \in v <=> b \in n) <=> c1[b]))
    BY <1>2, <1>3
  <2>4. b \in r <=> ((b \in e <=> b \in d) <=> c2[b])
    BY <1>4
  <2> HIDE DEF OK
  <2> QED BY <2>2, <2>3, <2>4
<1>12. \A b : b \in r <=> b \in v
  BY <1>4, <1>11
<1>13. r = v
  BY <1>12
<1> QED BY <1>13 DEF r, d, n

\* The equations of the halves of a number.
LEMMA HalvedIs ==
  ASSUME NEW n \in Nat
  PROVE  LET f == Halved(n)
         IN  /\ f[0] = n
             /\ \A b \in 0..31 : f[b] \in Nat
             /\ \A b \in 0..30 : f[b + 1] = f[b] \div 2
<1> DEFINE P(f, b) == IF b = 0 THEN n ELSE f[b - 1] \div 2
           Upto(k, f) == f \in [0..31 -> Nat] /\ \A b \in 0..k : f[b] = P(f, b)
           S == {k \in 0..31 : \E f \in [0..31 -> Nat] : Upto(k, f)}
           f == Halved(n)
<1>1. 0 \in S
  <2> DEFINE g == [b \in 0..31 |-> n]
  <2>1. g \in [0..31 -> Nat] /\ g[0] = n
    OBVIOUS
  <2>2. 0 \in 0..31 /\ \A b \in 0..0 : b = 0
    OBVIOUS
  <2> HIDE DEF g
  <2>3. \A b \in 0..0 : g[b] = P(g, b)
    BY <2>1, <2>2
  <2>4. Upto(0, g)
    BY <2>1, <2>3
  <2> HIDE DEF Upto
  <2> QED BY <2>1, <2>2, <2>4
<1>2. ASSUME NEW k \in 0..30, k \in S PROVE k + 1 \in S
  <2>1. PICK h \in [0..31 -> Nat] : Upto(k, h)
    BY <1>2
  <2> DEFINE g == [h EXCEPT ![k + 1] = h[k] \div 2]
  <2>2. k + 1 \in 0..31 /\ h[k] \in Nat /\ h[k] \div 2 \in Nat
    OBVIOUS
  <2>3. g \in [0..31 -> Nat] /\ g[k + 1] = h[k] \div 2 /\ \A b \in 0..k : g[b] = h[b]
    BY <2>2
  <2> HIDE DEF g
  <2>4. ASSUME NEW b \in 0..(k + 1) PROVE g[b] = P(g, b)
    <3>1. CASE b = k + 1
      <4>1. k + 1 # 0 /\ (k + 1) - 1 = k /\ k \in 0..k
        OBVIOUS
      <4>2. g[k + 1] = P(g, k + 1)
        BY <2>3, <4>1
      <4> QED BY <3>1, <4>2
    <3>2. CASE b # k + 1
      <4>1. b \in 0..k /\ (b # 0 => b - 1 \in 0..k)
        BY <3>2
      <4> QED BY <2>1, <2>3, <4>1
    <3> QED BY <3>1, <3>2
  <2> QED BY <2>2, <2>3, <2>4
<1>3. \A k \in 0..31 : k \in S
  <2>1. 31 \in Nat /\ 31 - 1 = 30
    OBVIOUS
  <2> HIDE DEF S
  <2> QED BY <1>1, <1>2, <2>1, Induction
<1>4. PICK h \in [0..31 -> Nat] : Upto(31, h)
  <2>1. 31 \in S
    <3> HIDE DEF S
    <3> QED BY <1>3
  <2> HIDE DEF Upto
  <2> QED BY <2>1
<1>5. h = [b \in 0..31 |-> P(h, b)]
  <2> HIDE DEF P
  <2> QED BY <1>4
<1>6. f = CHOOSE g : g = [b \in 0..31 |-> P(g, b)]
  BY DEF Halved
<1>7. f = [b \in 0..31 |-> P(f, b)]
  <2> HIDE DEF P, f
  <2> QED BY <1>5, <1>6
<1>8. \A b \in 0..31 : f[b] = P(f, b)
  <2> HIDE DEF P, f
  <2> QED BY <1>7
<1> HIDE DEF f
<1>9. f[0] = n
  BY <1>8
<1>10. \A b \in 0..30 : f[b + 1] = f[b] \div 2
  <2> SUFFICES ASSUME NEW b \in 0..30 PROVE f[b + 1] = f[b] \div 2
    OBVIOUS
  <2>1. b + 1 \in 0..31 /\ b + 1 # 0 /\ (b + 1) - 1 = b
    OBVIOUS
  <2> QED BY <1>8, <2>1
<1>11. \A b \in 0..31 : f[b] \in Nat
  <2> DEFINE T == {b \in 0..31 : f[b] \in Nat}
  <2>1. 0 \in T
    BY <1>9
  <2>2. ASSUME NEW b \in 0..30, b \in T PROVE b + 1 \in T
    BY <1>10, <2>2
  <2>3. 31 \in Nat /\ 31 - 1 = 30
    OBVIOUS
  <2>4. \A b \in 0..31 : b \in T
    <3> HIDE DEF T
    <3> QED BY <2>1, <2>2, <2>3, Induction
  <2> QED BY <2>4
<1> QED BY <1>9, <1>10, <1>11 DEF f

\* The 31 highest halves of a number below 2^31 end in 0.
LEMMA HalvedEnds ==
  ASSUME NEW n \in Nat, n <= Longest
  PROVE  Halved(n)[31] = 0
<1> DEFINE f == Halved(n)
<1>1. f[0] = n /\ (\A b \in 0..31 : f[b] \in Nat) /\ \A b \in 0..30 : f[b + 1] = f[b] \div 2
  BY HalvedIs
<1> HIDE DEF f
<1>2. \A b \in 0..30 : 2 * f[b + 1] <= f[b]
  <2> SUFFICES ASSUME NEW b \in 0..30 PROVE 2 * f[b + 1] <= f[b]
    OBVIOUS
  <2>1. f[b] \in Nat /\ f[b + 1] = f[b] \div 2
    BY <1>1
  <2> QED BY <2>1
<1>3. f[8] <= 8388607
  <2>0. f[0] <= 2147483647
    BY <1>1 DEF Longest
  <2>1. /\ 2 * f[0 + 1] <= f[0] /\ 2 * f[1 + 1] <= f[1] /\ 2 * f[2 + 1] <= f[2] /\ 2 * f[3 + 1] <= f[3]
        /\ 2 * f[4 + 1] <= f[4] /\ 2 * f[5 + 1] <= f[5] /\ 2 * f[6 + 1] <= f[6] /\ 2 * f[7 + 1] <= f[7]
        /\ f[1] \in Nat /\ f[2] \in Nat /\ f[3] \in Nat /\ f[4] \in Nat /\ f[5] \in Nat
        /\ f[6] \in Nat /\ f[7] \in Nat /\ f[8] \in Nat
    BY <1>1, <1>2
  <2> QED BY <1>1, <2>0, <2>1
<1>4. f[16] <= 32767
  <2>1. /\ 2 * f[8 + 1] <= f[8] /\ 2 * f[9 + 1] <= f[9] /\ 2 * f[10 + 1] <= f[10] /\ 2 * f[11 + 1] <= f[11]
        /\ 2 * f[12 + 1] <= f[12] /\ 2 * f[13 + 1] <= f[13] /\ 2 * f[14 + 1] <= f[14] /\ 2 * f[15 + 1] <= f[15]
        /\ f[9] \in Nat /\ f[10] \in Nat /\ f[11] \in Nat /\ f[12] \in Nat /\ f[13] \in Nat
        /\ f[14] \in Nat /\ f[15] \in Nat /\ f[16] \in Nat /\ f[8] \in Nat
    BY <1>1, <1>2
  <2> QED BY <1>3, <2>1
<1>5. f[24] <= 127
  <2>1. /\ 2 * f[16 + 1] <= f[16] /\ 2 * f[17 + 1] <= f[17] /\ 2 * f[18 + 1] <= f[18] /\ 2 * f[19 + 1] <= f[19]
        /\ 2 * f[20 + 1] <= f[20] /\ 2 * f[21 + 1] <= f[21] /\ 2 * f[22 + 1] <= f[22] /\ 2 * f[23 + 1] <= f[23]
        /\ f[16] \in Nat /\ f[17] \in Nat /\ f[18] \in Nat /\ f[19] \in Nat /\ f[20] \in Nat
        /\ f[21] \in Nat /\ f[22] \in Nat /\ f[23] \in Nat /\ f[24] \in Nat
    BY <1>1, <1>2
  <2> QED BY <1>4, <2>1
<1>6. f[31] = 0
  <2>1. /\ 2 * f[24 + 1] <= f[24] /\ 2 * f[25 + 1] <= f[25] /\ 2 * f[26 + 1] <= f[26] /\ 2 * f[27 + 1] <= f[27]
        /\ 2 * f[28 + 1] <= f[28] /\ 2 * f[29 + 1] <= f[29] /\ 2 * f[30 + 1] <= f[30]
        /\ f[24] \in Nat /\ f[25] \in Nat /\ f[26] \in Nat /\ f[27] \in Nat /\ f[28] \in Nat
        /\ f[29] \in Nat /\ f[30] \in Nat /\ f[31] \in Nat
    BY <1>1, <1>2
  <2> QED BY <1>5, <2>1
<1> QED BY <1>6 DEF f

\* The number in the word of a number is that number.
LEMMA NumberOK ==
  ASSUME NEW n \in Nat, n <= Longest
  PROVE  Number(Word(n)) = n /\ Word(n) \in SUBSET (0..30)
<1> DEFINE f == Halved(n)
           x == Word(n)
           h == Highest(x)
           P(g, i) == IF i = 0 THEN 0 ELSE 2 * g[i - 1] + (IF 32 - i \in x THEN 1 ELSE 0)
           k == [i \in 0..32 |-> IF i = 0 THEN 0 ELSE f[32 - i]]
<1>1. /\ f[0] = n /\ f[31] = 0 /\ \A b \in 0..31 : f[b] \in Nat
      /\ \A b \in 0..30 : f[b + 1] = f[b] \div 2
  BY HalvedIs, HalvedEnds
<1>2. \A b : b \in x <=> b \in 0..30 /\ f[b] % 2 = 1
  BY DEF Word
<1> HIDE DEF f, x
<1>3. ASSUME NEW i \in 0..32 PROVE k[i] = P(k, i)
  <2>1. CASE i = 0
    BY <2>1
  <2>2. CASE i = 1
    <3>1. k[1] = f[31] /\ k[0] = 0 /\ 32 - 1 = 31 /\ 31 \notin x
      BY <1>2
    <3> QED BY <1>1, <2>2, <3>1
  <2>3. CASE i \in 2..32
    <3> DEFINE b == 32 - i
    <3>1. b \in 0..30 /\ i - 1 \in 1..32 /\ 32 - (i - 1) = b + 1 /\ i # 0 /\ i - 1 # 0
      BY <2>3
    <3>2. k[i] = f[b] /\ k[i - 1] = f[b + 1]
      BY <3>1
    <3> HIDE DEF k, b
    <3>3. f[b] \in Nat /\ f[b + 1] = f[b] \div 2 /\ (b \in x <=> f[b] % 2 = 1)
      BY <1>1, <1>2, <3>1
    <3>4. f[b] = 2 * (f[b] \div 2) + (IF b \in x THEN 1 ELSE 0)
      BY <3>3
    <3>5. k[i] = 2 * k[i - 1] + (IF b \in x THEN 1 ELSE 0)
      BY <3>2, <3>3, <3>4
    <3> QED BY <3>1, <3>5 DEF b
  <2> QED BY <2>1, <2>2, <2>3
<1>4. k = [i \in 0..32 |-> P(k, i)]
  <2> HIDE DEF P
  <2> QED BY <1>3
<1>5. h = CHOOSE g : g = [i \in 0..32 |-> P(g, i)]
  BY DEF Highest
<1>6. h = [i \in 0..32 |-> P(h, i)]
  <2> HIDE DEF P, h, k
  <2> QED BY <1>4, <1>5
<1>7. \A i \in 0..32 : h[i] = P(h, i)
  <2> HIDE DEF P, h
  <2> QED BY <1>6
<1> DEFINE S == {i \in 0..32 : h[i] = k[i]}
<1> HIDE DEF k, h
<1>8. 0 \in S
  BY <1>3, <1>7
<1>9. ASSUME NEW i \in 0..31, i \in S PROVE i + 1 \in S
  <2>1. i + 1 \in 0..32 /\ (i + 1) - 1 = i /\ i + 1 # 0 /\ h[i] = k[i]
    BY <1>9
  <2>2. h[i + 1] = P(h, i + 1) /\ k[i + 1] = P(k, i + 1)
    BY <1>3, <1>7, <2>1
  <2> QED BY <2>1, <2>2
<1>10. \A i \in 0..32 : i \in S
  <2>1. 32 \in Nat /\ 32 - 1 = 31
    OBVIOUS
  <2> HIDE DEF S
  <2> QED BY <1>8, <1>9, <2>1, Induction
<1>11. h[32] = k[32]
  <2>1. 32 \in 0..32
    OBVIOUS
  <2> QED BY <1>10, <2>1
<1>12. k[32] = n
  BY <1>1 DEF k
<1>13. x \in SUBSET (0..30)
  BY <1>2
<1> QED BY <1>11, <1>12, <1>13 DEF Number, h, x

(***************************************************************************)
(* Groups of seven bits.                                                   *)
(***************************************************************************)
Byte == SUBSET (0..7)

\* The stream b holds s from its start on, as far as it goes.
Starts(b, s) == \A i \in 1..Len(s) : i <= Len(b) => b[i] = s[i]

\* The bytes of a word: as many as its highest bit needs, the others marked.
LEMMA GroupsIs ==
  ASSUME NEW w \in Nat, w > 0, NEW x \in SUBSET (0..(w - 1))
  PROVE  LET s == SaveGroups(x)
         IN  /\ s \in Seq(Byte) /\ Len(s) = Groups(x)
             /\ Len(s) \in Nat /\ Len(s) >= 1 /\ 7 * (Len(s) - 1) <= w - 1
             /\ \A b \in x : b < 7 * Len(s)
             /\ \A i \in 1..Len(s) :
                  /\ 7 \in s[i] <=> i < Len(s)
                  /\ \A b \in 0..6 : b \in s[i] <=> b + 7 * (i - 1) \in x
<1> DEFINE g == Groups(x)
           s == SaveGroups(x)
<1>0. x \in SUBSET Nat
  OBVIOUS
<1>1. g \in Nat /\ g >= 1 /\ 7 * (g - 1) <= w - 1 /\ \A b \in x : b < 7 * g
  <2>1. CASE x = {}
    BY <2>1 DEF Groups
  <2>2. CASE x # {}
    <3>1. PICK m \in x : \A k \in x : k <= m
      <4>1. w - 1 \in Nat /\ \A k \in x : k <= w - 1
        OBVIOUS
      <4> QED BY <1>0, <2>2, <4>1, GreatestOfSet
    <3>2. Max(x) = m
      BY <1>0, <3>1, MaxIs
    <3>3. g = m \div 7 + 1
      BY <2>2, <3>2 DEF Groups
    <3>4. m \in 0..(w - 1) /\ \A b \in x : b \in Nat /\ b <= m
      BY <1>0, <3>1
    <3> QED BY <3>3, <3>4
  <2> QED BY <2>1, <2>2
<1>2. s = [i \in 1..g |-> (Shr(x, 7 * (i - 1)) \cap 0..6) \cup (IF i < g THEN {7} ELSE {})]
  BY DEF SaveGroups
<1> HIDE DEF g, s
<1>3. ASSUME NEW i \in 1..g
      PROVE  /\ s[i] \in Byte
             /\ 7 \in s[i] <=> i < g
             /\ \A b \in 0..6 : b \in s[i] <=> b + 7 * (i - 1) \in x
  <2>1. s[i] = (Shr(x, 7 * (i - 1)) \cap 0..6) \cup (IF i < g THEN {7} ELSE {})
    BY <1>2
  <2>2. \A b \in 0..6 : b \in Shr(x, 7 * (i - 1)) <=> b + 7 * (i - 1) \in x
    <3>1. 7 * (i - 1) \in Nat
      BY <1>1
    <3> QED BY <1>0, <3>1, InShr
  <2>3. s[i] \in Byte /\ (7 \in s[i] <=> i < g)
    BY <2>1 DEF Byte
  <2>4. \A b \in 0..6 : b \in s[i] <=> b \in Shr(x, 7 * (i - 1))
    BY <2>1
  <2> QED BY <2>2, <2>3, <2>4
<1>4. s \in Seq(Byte) /\ Len(s) = g
  BY <1>1, <1>2, <1>3
<1> QED BY <1>1, <1>3, <1>4 DEF g, s

\* They make the word again.
LEMMA GroupValueOK ==
  ASSUME NEW w \in Nat, w > 0, NEW u \in Nat, w <= u, NEW x \in SUBSET (0..(w - 1)),
         NEW b \in Seq(Byte), Len(b) >= Len(SaveGroups(x)), Starts(b, SaveGroups(x))
  PROVE  GroupValue(b, Len(SaveGroups(x)), u) = x
<1> DEFINE s == SaveGroups(x)
           n == Len(s)
           T == {Shl(b[i] \ {7}, 7 * (i - 1), u) : i \in 1..n}
<1>1. /\ s \in Seq(Byte) /\ n \in Nat /\ \A c \in x : c \in Nat /\ c < 7 * n
      /\ \A i \in 1..n : \A c \in 0..6 : c \in s[i] <=> c + 7 * (i - 1) \in x
  BY GroupsIs
<1>2. \A i \in 1..n : b[i] = s[i] /\ b[i] \in Byte
  BY <1>1 DEF Starts
<1> HIDE DEF s, n
<1>3. ASSUME NEW i \in 1..n, NEW c
      PROVE  c \in Shl(b[i] \ {7}, 7 * (i - 1), u) <=>
               c \in 0..(u - 1) /\ c - 7 * (i - 1) \in b[i] \ {7}
  <2>1. b[i] \in SUBSET Nat
    BY <1>2 DEF Byte
  <2>2. b[i] \ {7} \in SUBSET Nat
    BY <2>1
  <2>3. 7 * (i - 1) \in Nat
    BY <1>1
  <2> QED BY <2>2, <2>3, InShl
<1>4. ASSUME NEW c \in UNION T PROVE c \in x
  <2>1. PICK i \in 1..n : c \in Shl(b[i] \ {7}, 7 * (i - 1), u)
    OBVIOUS
  <2>2. c \in 0..(u - 1) /\ c - 7 * (i - 1) \in b[i] \ {7}
    BY <1>3, <2>1
  <2>3. c - 7 * (i - 1) \in 0..6 /\ c - 7 * (i - 1) \in s[i]
    BY <1>2, <2>2 DEF Byte
  <2>4. (c - 7 * (i - 1)) + 7 * (i - 1) = c
    BY <1>1, <2>2
  <2> QED BY <1>1, <2>3, <2>4
<1>5. ASSUME NEW c \in x PROVE c \in UNION T
  <2> DEFINE i == c \div 7 + 1
             d == c - 7 * (i - 1)
  <2>1. c \in 0..(w - 1) /\ c \in Nat /\ c < 7 * n
    BY <1>1
  <2>2. i \in 1..n /\ d \in 0..6 /\ d + 7 * (i - 1) = c /\ d # 7
    BY <1>1, <2>1
  <2>3. c \in 0..(u - 1)
    BY <2>1
  <2> HIDE DEF i, d
  <2>4. d \in s[i]
    BY <1>1, <2>2
  <2>5. d \in b[i] \ {7}
    BY <1>2, <2>2, <2>4
  <2>6. c \in Shl(b[i] \ {7}, 7 * (i - 1), u)
    BY <1>3, <2>2, <2>3, <2>5 DEF d
  <2> QED BY <2>2, <2>6
<1>6. UNION T = x
  <2> HIDE DEF T
  <2> QED BY <1>4, <1>5
<1> QED BY <1>6 DEF GroupValue, n, s

\* A word of 32 bits takes five bytes at most, one of 64 takes ten.
LEMMA GroupsFit ==
  ASSUME NEW w \in {32, 64}, NEW x \in SUBSET (0..(w - 1))
  PROVE  Len(SaveGroups(x)) <= MaxGroups(w)
<1>1. Len(SaveGroups(x)) \in Nat /\ 7 * (Len(SaveGroups(x)) - 1) <= w - 1
  BY GroupsIs
<1> QED BY <1>1 DEF MaxGroups

LEMMA GroupBytes ==
  ASSUME NEW w \in {32, 64}, NEW x \in SUBSET (0..(w - 1))
  PROVE  SaveGroups(x) \in Seq(Byte)
BY GroupsIs

\* Either loop loads the word, or finds the end of the stream.
LEMMA LoadGroupsOK ==
  ASSUME NEW w \in {32, 64}, NEW u \in {32, 64}, w <= u, NEW x \in SUBSET (0..(w - 1)),
         NEW b \in Seq(Byte), Starts(b, SaveGroups(x)), NEW fast \in BOOLEAN
  PROVE  LET g == IF fast THEN LoadGroups(b, u) ELSE LoadGroupsSlow(b, u)
             n == Len(SaveGroups(x))
         IN  IF Len(b) >= n THEN g = Loaded(x, n, "none") ELSE g.exc = "eof"
<1> DEFINE s == SaveGroups(x)
           n == Len(s)
           M == MaxGroups(u)
           last == {i \in 1..Least(M, Len(b)) : 7 \notin b[i]}
           l == LoadGroupsSlow(b, u)
<1>0. w \in Nat /\ w > 0
  OBVIOUS
<1>1. /\ s \in Seq(Byte) /\ n \in Nat /\ n >= 1
      /\ \A i \in 1..n : 7 \in s[i] <=> i < n
  BY <1>0, GroupsIs
<1>2. n <= M /\ M \in Nat
  <2>1. n <= MaxGroups(w) /\ MaxGroups(w) <= M /\ MaxGroups(w) \in Nat /\ M \in Nat
    BY GroupsFit DEF MaxGroups
  <2> QED BY <1>1, <2>1
<1>3. l = IF last # {} THEN Loaded(GroupValue(b, Min(last), u), Min(last), "none")
          ELSE IF Len(b) < M THEN Loaded({}, Len(b), "eof")
          ELSE Loaded({}, M, "too long")
  BY DEF LoadGroupsSlow
<1>4. \A i \in 1..n : i <= Len(b) => b[i] = s[i]
  BY DEF Starts
<1>5. Len(b) \in Nat /\ Least(M, Len(b)) \in Nat /\ Least(M, Len(b)) <= Len(b)
      /\ Least(M, Len(b)) <= M /\ (n <= Len(b) => n <= Least(M, Len(b)))
  BY <1>2 DEF Least
<1>6. CASE Len(b) >= n
  <2>1. GroupValue(b, n, u) = x
    BY <1>6, GroupValueOK
  <2> HIDE DEF s, n, M, l
  <2>2. n \in last
    BY <1>1, <1>4, <1>5, <1>6
  <2>3. ASSUME NEW k \in last PROVE n <= k
    BY <1>1, <1>4, <1>5
  <2>4. Min(last) = n
    <3>1. last \in SUBSET Nat
      BY <1>5
    <3> HIDE DEF last
    <3> QED BY <2>2, <2>3, <3>1, MinIs
  <2>5. l = Loaded(x, n, "none") /\ l.exc = "none"
    <3> HIDE DEF last
    <3> QED BY <1>3, <2>1, <2>2, <2>4 DEF Loaded
  <2>6. (IF fast THEN LoadGroups(b, u) ELSE LoadGroupsSlow(b, u)) = Loaded(x, n, "none")
    BY <2>5 DEF LoadGroups, l
  <2> QED BY <1>6, <2>6 DEF n, s
<1>7. CASE ~(Len(b) >= n)
  <2> HIDE DEF s, n, M, l
  <2>1. last = {}
    BY <1>1, <1>4, <1>5, <1>7
  <2>2. Len(b) < M
    BY <1>1, <1>2, <1>5, <1>7
  <2>3. l = Loaded({}, Len(b), "eof") /\ l.exc = "eof"
    <3> HIDE DEF last
    <3> QED BY <1>3, <2>1, <2>2 DEF Loaded
  <2>4. (IF fast THEN LoadGroups(b, u) ELSE LoadGroupsSlow(b, u)).exc = "eof"
    BY <2>3 DEF LoadGroups, Loaded, l
  <2> QED BY <1>7, <2>4 DEF n, s
<1> QED BY <1>6, <1>7

(***************************************************************************)
(* Prefixes: the first byte says in its low bits how many follow.          *)
(***************************************************************************)
PrefixShapes == {<<32, 2>>, <<64, 3>>}

\* A small number has only low bits.
LEMMA WordSmall ==
  ASSUME NEW t \in {2, 3}, NEW n \in Nat, n < (IF t = 2 THEN 4 ELSE 8)
  PROVE  Word(n) \in SUBSET (0..(t - 1))
<1> DEFINE f == Halved(n)
           S == {k \in 0..(31 - t) : f[t + k] = 0}
<1>1. f[0] = n /\ (\A b \in 0..31 : f[b] \in Nat) /\ \A b \in 0..30 : f[b + 1] = f[b] \div 2
  BY HalvedIs
<1>2. \A b : b \in Word(n) <=> b \in 0..30 /\ f[b] % 2 = 1
  BY DEF Word
<1> HIDE DEF f
<1>3. f[0 + 1] = f[0] \div 2 /\ f[1 + 1] = f[1] \div 2 /\ f[2 + 1] = f[2] \div 2
      /\ f[1] \in Nat /\ f[2] \in Nat /\ f[3] \in Nat
  BY <1>1
<1>4. f[t] = 0
  BY <1>1, <1>3
<1>5. 0 \in S
  BY <1>4
<1>6. ASSUME NEW k \in 0..((31 - t) - 1), k \in S PROVE k + 1 \in S
  <2>1. t + k \in 0..30 /\ (t + k) + 1 = t + (k + 1) /\ k + 1 \in 0..(31 - t) /\ f[t + k] = 0
    BY <1>6
  <2>2. f[(t + k) + 1] = f[t + k] \div 2
    BY <1>1, <2>1
  <2> QED BY <2>1, <2>2
<1>7. \A k \in 0..(31 - t) : k \in S
  <2>1. 31 - t \in Nat
    OBVIOUS
  <2> HIDE DEF S
  <2> QED BY <1>5, <1>6, <2>1, Induction
<1>8. ASSUME NEW b \in Word(n), b \notin 0..(t - 1) PROVE FALSE
  <2>1. b \in 0..30 /\ f[b] % 2 = 1
    BY <1>2
  <2>2. b - t \in 0..(31 - t) /\ t + (b - t) = b
    BY <1>8, <2>1
  <2>3. f[b] = 0
    BY <1>7, <2>2
  <2> QED BY <2>1, <2>3
<1> QED BY <1>8

\* The bytes of a word with a prefix: those of the shifted word, and in the low
\* bits of the first one how many follow.
LEMMA PrefixIs ==
  ASSUME NEW w, NEW tag, <<w, tag>> \in PrefixShapes, NEW x \in SUBSET (0..(w - tag - 1))
  PROVE  LET s == SavePrefix(x, tag, w)
         IN  /\ s \in Seq(Byte) /\ Len(s) \in 1..(w \div 8)
             /\ Number(s[1] \cap Bits(tag)) + 1 = Len(s)
             /\ \A c \in x : c + tag < 8 * Len(s)
             /\ \A i \in 1..Len(s) : \A b \in 0..7 :
                  8 * (i - 1) + b >= tag => (b \in s[i] <=> (8 * (i - 1) + b) - tag \in x)
<1> DEFINE y == Shl(x, tag, w)
           more == IF y = {} THEN 0 ELSE Max(y) \div 8
           s == SavePrefix(x, tag, w)
<1>0. /\ x \in SUBSET Nat /\ w \in Nat /\ tag \in {2, 3} /\ w = (IF tag = 2 THEN 32 ELSE 64)
  BY DEF PrefixShapes
<1>1. \A c : c \in y <=> c \in 0..(w - 1) /\ c - tag \in x
  BY <1>0, InShl
<1> HIDE DEF y
<1>2. y \in SUBSET (0..(w - 1)) /\ y \in SUBSET Nat /\ \A c \in x : c + tag \in y
  <2>1. \A c \in x : c + tag \in 0..(w - 1) /\ (c + tag) - tag = c
    BY <1>0
  <2> QED BY <1>1, <2>1
<1>3. more \in Nat /\ more < w \div 8 /\ \A c \in y : c < 8 * (more + 1)
  <2>1. CASE y = {}
    BY <1>0, <2>1
  <2>2. CASE y # {}
    <3>1. PICK m \in y : \A k \in y : k <= m
      <4>1. w - 1 \in Nat /\ \A k \in y : k <= w - 1
        BY <1>0, <1>2
      <4> QED BY <1>2, <2>2, <4>1, GreatestOfSet
    <3>2. Max(y) = m
      BY <1>2, <3>1, MaxIs
    <3>3. more = m \div 8
      BY <2>2, <3>2
    <3>4. m \in 0..(w - 1) /\ \A c \in y : c \in Nat /\ c <= m
      BY <1>2, <3>1
    <3> HIDE DEF more
    <3>5. m \div 8 \in Nat /\ m \div 8 < w \div 8 /\ m < 8 * (m \div 8 + 1)
      BY <1>0, <3>4
    <3>6. \A c \in y : c < 8 * (m \div 8 + 1)
      BY <3>4, <3>5
    <3> QED BY <3>3, <3>5, <3>6
  <2> QED BY <2>1, <2>2
<1>4. s = [i \in 1..(more + 1) |->
             (Shr(y, 8 * (i - 1)) \cap 0..7) \cup (IF i = 1 THEN Word(more) ELSE {})]
  BY DEF SavePrefix, y
<1> HIDE DEF more, s
<1>5. Word(more) \in SUBSET (0..(tag - 1)) /\ Number(Word(more)) = more
  <2>1. more <= 7 /\ (tag = 2 => more <= 3)
    BY <1>0, <1>3
  <2>2. more <= Longest
    BY <1>3, <2>1, SMT DEF Longest
  <2> QED BY <1>0, <1>3, <2>1, <2>2, WordSmall, NumberOK
<1>6. ASSUME NEW i \in 1..(more + 1)
      PROVE  \A b \in 0..7 : b \in s[i] <=> b + 8 * (i - 1) \in y \/ (i = 1 /\ b \in Word(more))
  <2>1. s[i] = (Shr(y, 8 * (i - 1)) \cap 0..7) \cup (IF i = 1 THEN Word(more) ELSE {})
    BY <1>4
  <2>2. 8 * (i - 1) \in Nat
    BY <1>3
  <2>3. \A b : b \in Shr(y, 8 * (i - 1)) <=> b \in Nat /\ b + 8 * (i - 1) \in y
    BY <1>2, <2>2, InShr
  <2> QED BY <2>1, <2>3
<1>7. ASSUME NEW i \in 1..(more + 1) PROVE s[i] \in Byte
  <2>1. s[i] = (Shr(y, 8 * (i - 1)) \cap 0..7) \cup (IF i = 1 THEN Word(more) ELSE {})
    BY <1>4
  <2>2. Word(more) \in SUBSET (0..7)
    BY <1>0, <1>5
  <2> QED BY <2>1, <2>2 DEF Byte
<1>8. s \in Seq(Byte) /\ Len(s) = more + 1
  <2> DEFINE E(i) == (Shr(y, 8 * (i - 1)) \cap 0..7) \cup (IF i = 1 THEN Word(more) ELSE {})
  <2>1. s = [i \in 1..(more + 1) |-> E(i)]
    BY <1>4
  <2> HIDE DEF E
  <2>2. s \in [1..(more + 1) -> Byte]
    BY <1>7, <2>1
  <2>3. more + 1 \in Nat
    BY <1>3
  <2> QED BY <2>2, <2>3
<1>9. s[1] \cap Bits(tag) = Word(more)
  <2>1. \A b \in 0..(tag - 1) : b \in 0..7 /\ b + 8 * (1 - 1) = b /\ b \notin y
    <3>1. \A b \in 0..(tag - 1) : b - tag \notin Nat /\ b \in 0..7 /\ b + 8 * (1 - 1) = b
      BY <1>0
    <3> QED BY <1>0, <1>1, <3>1
  <2>2. 1 \in 1..(more + 1)
    BY <1>3
  <2>3. \A b \in 0..(tag - 1) : b \in s[1] <=> b \in Word(more)
    BY <1>6, <2>1, <2>2
  <2> QED BY <1>5, <2>3 DEF Bits
<1>10. ASSUME NEW i \in 1..(more + 1), NEW b \in 0..7, 8 * (i - 1) + b >= tag
       PROVE  b \in s[i] <=> (8 * (i - 1) + b) - tag \in x
  <2>1. 8 * (i - 1) + b = b + 8 * (i - 1) /\ 8 * (i - 1) + b \in Nat
    BY <1>3
  <2>2. i = 1 => b \notin 0..(tag - 1)
    BY <1>0, <1>10
  <2>3. i = 1 => b \notin Word(more)
    BY <1>5, <2>2
  <2>4. b \in s[i] <=> 8 * (i - 1) + b \in y
    BY <1>6, <2>1, <2>3
  <2>5. (8 * (i - 1) + b) - tag \in x => 8 * (i - 1) + b \in 0..(w - 1)
    BY <1>0, <2>1
  <2> QED BY <1>1, <2>4, <2>5
<1>11. \A c \in x : c + tag < 8 * Len(s)
  <2>1. \A c \in x : c + tag < 8 * (more + 1)
    BY <1>2, <1>3
  <2> QED BY <1>8, <2>1
<1>12. Len(s) \in 1..(w \div 8)
  <2>1. w \div 8 \in Nat
    BY <1>0
  <2> QED BY <1>3, <1>8, <2>1
<1> QED BY <1>5, <1>8, <1>9, <1>10, <1>11, <1>12 DEF s

\* The first byte alone says how long the value is.
LEMMA PrefixLengthOK ==
  ASSUME NEW w, NEW tag, <<w, tag>> \in PrefixShapes, NEW x \in SUBSET (0..(w - tag - 1)),
         NEW b \in Seq(Byte), b # <<>>, Starts(b, SavePrefix(x, tag, w))
  PROVE  PrefixLength(b, tag) = Len(SavePrefix(x, tag, w))
<1> DEFINE s == SavePrefix(x, tag, w)
<1>0. w \in {32, 64}
  BY DEF PrefixShapes
<1>1. Len(s) \in 1..(w \div 8) /\ Number(s[1] \cap Bits(tag)) + 1 = Len(s)
  BY PrefixIs
<1> HIDE DEF s
<1>2. b[1] = s[1]
  <2>1. 1 \in 1..Len(s) /\ 1 <= Len(b)
    BY <1>0, <1>1
  <2> QED BY <2>1 DEF Starts, s
<1> QED BY <1>1, <1>2 DEF PrefixLength, s

\* The fast path masks what follows the value in the word it loads.
LEMMA LoadPrefixOK ==
  ASSUME NEW w, NEW tag, <<w, tag>> \in PrefixShapes, NEW x \in SUBSET (0..(w - tag - 1)),
         NEW b \in Seq(Byte), Len(b) >= w \div 8, Starts(b, SavePrefix(x, tag, w))
  PROVE  LoadPrefix(b, tag, w) = Loaded(x, Len(SavePrefix(x, tag, w)), "none")
<1> DEFINE s == SavePrefix(x, tag, w)
           n == Len(s)
           m == w \div 8
           T == {Shl(b[i], 8 * (i - 1), w) : i \in 1..m}
           U == (UNION T) \cap Bits(8 * n)
<1>0. x \in SUBSET Nat /\ w \in Nat /\ tag \in {2, 3} /\ m \in Nat /\ m >= 1 /\ w = 8 * m
  BY DEF PrefixShapes
<1>1. /\ s \in Seq(Byte) /\ n \in 1..m
      /\ \A c \in x : c + tag < 8 * n
      /\ \A i \in 1..n : \A d \in 0..7 :
           8 * (i - 1) + d >= tag => (d \in s[i] <=> (8 * (i - 1) + d) - tag \in x)
  BY PrefixIs
<1>2. PrefixLength(b, tag) = n
  <2>1. b # <<>>
    BY <1>0
  <2> QED BY <2>1, PrefixLengthOK
<1>3. \A i \in 1..n : b[i] = s[i]
  BY <1>0, <1>1 DEF Starts
<1>4. \A i \in 1..m : b[i] \in Byte
  BY <1>0
<1> HIDE DEF s, n
<1>5. LoadPrefix(b, tag, w) = Loaded(Shr(U, tag), n, "none")
  BY <1>2 DEF LoadPrefix
<1> HIDE DEF m
<1>6. ASSUME NEW i \in 1..m, NEW c
      PROVE  c \in Shl(b[i], 8 * (i - 1), w) <=> c \in 0..(w - 1) /\ c - 8 * (i - 1) \in b[i]
  <2>1. b[i] \in SUBSET Nat /\ 8 * (i - 1) \in Nat
    BY <1>0, <1>4 DEF Byte
  <2> QED BY <1>0, <2>1, InShl
<1>7. U \in SUBSET Nat
  <2>1. \A i \in 1..m : Shl(b[i], 8 * (i - 1), w) \in SUBSET Nat
    BY <1>0, <1>6
  <2> QED BY <2>1
<1>8. \A c : c \in Shr(U, tag) <=> c \in Nat /\ c + tag \in U
  <2> HIDE DEF U
  <2> QED BY <1>0, <1>7, InShr
<1>9. ASSUME NEW c \in Nat, c + tag \in U PROVE c \in x
  <2>1. PICK i \in 1..m : c + tag \in Shl(b[i], 8 * (i - 1), w)
    BY <1>9
  <2> DEFINE d == (c + tag) - 8 * (i - 1)
  <2>2. d \in b[i] /\ c + tag < 8 * n
    <3>1. c + tag \in Bits(8 * n)
      <4> HIDE DEF T
      <4> QED BY <1>9
    <3>2. c + tag < 8 * n
      BY <1>0, <1>1, <3>1 DEF Bits
    <3> QED BY <1>6, <2>1, <3>2
  <2>3. d \in 0..7
    BY <1>4, <2>2 DEF Byte
  <2>4. i \in 1..n /\ 8 * (i - 1) + d = c + tag /\ (c + tag) - tag = c /\ c + tag >= tag
    BY <1>0, <1>1, <2>2, <2>3
  <2> HIDE DEF d
  <2>5. d \in s[i]
    BY <1>3, <2>2, <2>4
  <2> QED BY <1>1, <2>3, <2>4, <2>5
<1>10. ASSUME NEW c \in x PROVE c \in Nat /\ c + tag \in U
  <2> DEFINE j == c + tag
             i == j \div 8 + 1
             d == j - 8 * (i - 1)
  <2>1. c \in Nat /\ j \in Nat /\ j < 8 * n /\ j >= tag /\ j - tag = c /\ n \in Nat
    BY <1>0, <1>1
  <2> HIDE DEF j
  <2>2. i \in 1..n /\ d \in 0..7 /\ 8 * (i - 1) + d = j
    BY <2>1
  <2> HIDE DEF i
  <2>3. j \in 0..(w - 1) /\ i \in 1..m
    BY <1>0, <1>1, <2>1, <2>2
  <2>4. j \in Bits(8 * n)
    BY <2>1 DEF Bits
  <2> HIDE DEF d
  <2>5. d \in s[i]
    BY <1>1, <2>1, <2>2
  <2>6. d \in b[i]
    BY <1>3, <2>2, <2>5
  <2>7. j \in Shl(b[i], 8 * (i - 1), w)
    BY <1>6, <2>3, <2>6 DEF d
  <2>8. j \in UNION T
    BY <2>3, <2>7
  <2> HIDE DEF T
  <2> QED BY <2>1, <2>4, <2>8 DEF j
<1>11. Shr(U, tag) = x
  <2> HIDE DEF U
  <2> QED BY <1>8, <1>9, <1>10
<1> QED BY <1>5, <1>11 DEF n, s

\* The slow path finds the end of the value, and its bits if it has no more
\* than two bytes.
LEMMA LoadPrefixSlowOK ==
  ASSUME NEW w, NEW tag, <<w, tag>> \in PrefixShapes, NEW x \in SUBSET (0..(w - tag - 1)),
         NEW b \in Seq(Byte), Starts(b, SavePrefix(x, tag, w))
  PROVE  LET g == LoadPrefixSlow(b, tag, w)
             n == Len(SavePrefix(x, tag, w))
         IN  IF Len(b) >= n
             THEN /\ \E z : g = Loaded(z, n, "none")
                  /\ n <= 2 => g = Loaded(x, n, "none")
             ELSE g.exc = "eof"
<1> DEFINE s == SavePrefix(x, tag, w)
           n == Len(s)
           y == UNION {Shl(b[i], 8 * (n - i), w) : i \in 2..n}
           U == b[1] \cup Shl(y, 8, w)
           g == LoadPrefixSlow(b, tag, w)
<1>0. x \in SUBSET Nat /\ w \in Nat /\ tag \in {2, 3} /\ w >= 32
  BY DEF PrefixShapes
<1>1. /\ s \in Seq(Byte) /\ n \in Nat /\ n >= 1
      /\ \A c \in x : c + tag < 8 * n
      /\ \A i \in 1..n : \A d \in 0..7 :
           8 * (i - 1) + d >= tag => (d \in s[i] <=> (8 * (i - 1) + d) - tag \in x)
  <2>1. /\ s \in Seq(Byte) /\ n \in 1..(w \div 8)
        /\ \A c \in x : c + tag < 8 * n
        /\ \A i \in 1..n : \A d \in 0..7 :
             8 * (i - 1) + d >= tag => (d \in s[i] <=> (8 * (i - 1) + d) - tag \in x)
    BY PrefixIs
  <2> HIDE DEF s, n, y, U, g
  <2>2. w \div 8 \in Int
    BY <1>0
  <2>3. n \in Nat /\ n >= 1
    <3>1. n \in 1..(w \div 8)
      BY <2>1
    <3> QED BY <2>2, <3>1, SMT
  <2> QED BY <2>1, <2>3, Zenon
<1>2. CASE b = <<>>
  <2>1. g.exc = "eof" /\ ~(Len(b) >= n)
    BY <1>1, <1>2 DEF LoadPrefixSlow, Loaded
  <2> QED BY <2>1
<1>3. CASE b # <<>>
  <2>1. PrefixLength(b, tag) = n
    BY <1>3, PrefixLengthOK
  <2>2. g = IF Len(b) < n THEN Loaded({}, Len(b), "eof")
            ELSE Loaded(Shr(U, tag), n, "none")
    BY <1>3, <2>1 DEF LoadPrefixSlow
  <2> HIDE DEF s, n, g
  <2>3. ASSUME Len(b) >= n, n <= 2 PROVE Shr(U, tag) = x
    <3>1. \A i \in 1..n : b[i] = s[i] /\ b[i] \in Byte
      BY <1>1, <2>3 DEF Starts, n, s
    <3>2. \A c : c \in U <=> c \in b[1] \/ (n = 2 /\ c \in 0..(w - 1) /\ c - 8 \in b[2])
      <4>1. CASE n = 1
        <5>1. y = {}
          BY <4>1
        <5>2. \A c : c \notin Shl({}, 8, w)
          BY DEF Shl
        <5> HIDE DEF y
        <5> QED BY <4>1, <5>1, <5>2
      <4>2. CASE n = 2
        <5>1. 2..n = {2} /\ 8 * (n - 2) = 0
          BY <4>2
        <5>2. y = Shl(b[2], 0, w)
          BY <5>1
        <5>3. b[2] \in SUBSET (0..7)
          BY <3>1, <4>2 DEF Byte
        <5> HIDE DEF y
        <5>4. \A c : c \in y <=> c \in 0..(w - 1) /\ c - 0 \in b[2]
          <6>1. b[2] \in SUBSET Nat /\ 0 \in Nat
            BY <5>3
          <6> QED BY <1>0, <5>2, <6>1, InShl
        <5>5. y = b[2]
          <6>1. \A c \in b[2] : c \in 0..(w - 1) /\ c - 0 = c
            BY <1>0, <5>3
          <6>2. \A c \in 0..(w - 1) : c - 0 = c
            OBVIOUS
          <6> QED BY <5>4, <6>1, <6>2
        <5>6. \A c : c \in Shl(y, 8, w) <=> c \in 0..(w - 1) /\ c - 8 \in b[2]
          <6>1. y \in SUBSET Nat /\ 8 \in Nat
            BY <5>3, <5>5
          <6> QED BY <1>0, <5>5, <6>1, InShl
        <5> SUFFICES ASSUME NEW c
                     PROVE  c \in U <=> c \in b[1] \/ (c \in 0..(w - 1) /\ c - 8 \in b[2])
          BY <4>2
        <5> QED BY <5>6
      <4>3. n = 1 \/ n = 2
        BY <1>1, <2>3
      <4> HIDE DEF U
      <4> QED BY <4>1, <4>2, <4>3
    <3> HIDE DEF U
    <3>3. U \in SUBSET Nat
      <4>1. b[1] \in SUBSET (0..7)
        <5>1. 1 \in 1..n
          BY <1>1
        <5> QED BY <3>1, <5>1 DEF Byte
      <4>2. \A c \in U : c \in b[1] \/ c \in 0..(w - 1)
        BY <3>2
      <4> QED BY <4>1, <4>2
    <3>4. \A c : c \in Shr(U, tag) <=> c \in Nat /\ c + tag \in U
      BY <1>0, <3>3, InShr
    <3>5. ASSUME NEW c \in Nat PROVE c + tag \in U <=> c \in x
      <4> DEFINE j == c + tag
      <4>1. j \in Nat /\ j >= tag /\ j - tag = c
        BY <1>0
      <4>2. 1 \in 1..n /\ b[1] \in SUBSET (0..7) /\ b[1] = s[1]
        <5>1. 1 \in 1..n
          BY <1>1
        <5> QED BY <3>1, <5>1 DEF Byte
      <4> HIDE DEF j
      <4>3. CASE j <= 7
        <5>1. j \in 0..7 /\ 8 * (1 - 1) + j = j
          BY <4>1, <4>3
        <5>2. j - 8 \notin Nat
          BY <4>1, <4>3
        <5>3. n = 2 => j - 8 \notin b[2]
          BY <3>1, <5>2 DEF Byte
        <5>4. j \in s[1] <=> j - tag \in x
          BY <1>1, <4>1, <4>2, <5>1
        <5> QED BY <3>2, <4>1, <4>2, <5>3, <5>4 DEF j
      <4>4. CASE j > 7 /\ n = 2
        <5>1. j \notin b[1] /\ 2 \in 1..n /\ b[2] = s[2] /\ b[2] \in SUBSET (0..7)
          BY <3>1, <4>1, <4>2, <4>4 DEF Byte
        <5>2. CASE j <= 15
          <6>1. j - 8 \in 0..7 /\ 8 * (2 - 1) + (j - 8) = j /\ j \in 0..(w - 1)
            BY <1>0, <4>1, <4>4, <5>2
          <6>2. j - 8 \in s[2] <=> j - tag \in x
            BY <1>1, <4>1, <5>1, <6>1
          <6> QED BY <3>2, <4>1, <4>4, <5>1, <6>1, <6>2 DEF j
        <5>3. CASE j > 15
          <6>1. j - 8 \notin 0..7 /\ ~(j < 8 * n)
            BY <4>1, <4>4, <5>3
          <6>2. j - 8 \notin b[2] /\ c \notin x
            BY <1>1, <5>1, <6>1 DEF j
          <6> QED BY <3>2, <5>1, <6>2 DEF j
        <5> QED BY <4>1, <5>2, <5>3
      <4>5. CASE j > 7 /\ n = 1
        <5>1. j \notin b[1] /\ ~(j < 8 * n)
          BY <4>1, <4>2, <4>5
        <5>2. c \notin x
          BY <1>1, <5>1 DEF j
        <5> QED BY <3>2, <4>5, <5>1, <5>2 DEF j
      <4> QED BY <1>1, <2>3, <4>1, <4>3, <4>4, <4>5
    <3> QED BY <1>0, <3>4, <3>5
  <2>4. CASE Len(b) >= n
    <3>1. g = Loaded(Shr(U, tag), n, "none")
      <4> HIDE DEF U
      <4> QED BY <1>1, <2>2, <2>4
    <3>2. \E z : g = Loaded(z, n, "none")
      BY <3>1
    <3> QED BY <2>3, <2>4, <3>1, <3>2 DEF g, n, s
  <2>5. CASE ~(Len(b) >= n)
    <3>1. g = Loaded({}, Len(b), "eof")
      <4> HIDE DEF U
      <4> QED BY <1>1, <2>2, <2>5
    <3> QED BY <2>5, <3>1 DEF Loaded, g, n, s
  <2> QED BY <2>4, <2>5
<1> QED BY <1>2, <1>3

(***************************************************************************)
(* Backwards.                                                              *)
(***************************************************************************)

\* The bytes b end with those of s, and no group that goes on precedes them.
EndsWith(b, s) ==
  /\ Len(s) <= Len(b)
  /\ \A i \in 1..Len(s) : b[(Len(b) - Len(s)) + i] = s[i]
  /\ Len(b) > Len(s) => 7 \notin b[Len(b) - Len(s)]

\* Where a word of at most nine groups ends, with a byte without a mark before
\* it or nothing, the reader that goes backwards finds its start and its value.
LEMMA ReverseGetOK ==
  ASSUME NEW w \in {32, 64}, NEW x \in SUBSET (0..(w - 1)), NEW b \in Seq(Byte),
         Len(SaveGroups(x)) <= 9, EndsWith(b, SaveGroups(x))
  PROVE  ReverseGet(b, w) = Loaded(x, Len(SaveGroups(x)), "none")
<1> DEFINE s == SaveGroups(x)
           k == Len(s)
           l == Len(b)
           p == (l - k) + 1
           starts == {q \in 1..l : /\ \A i \in q..(l - 1) : 7 \in b[i]
                                   /\ w = 64 => l - q <= 8}
           G(i) == Shl(IF i = l THEN b[i] ELSE b[i] \ {7}, 7 * (i - p), w)
           T == {G(i) : i \in p..l}
<1>0. w \in Nat /\ w > 0 /\ l \in Nat
  OBVIOUS
<1>1. /\ s \in Seq(Byte) /\ k \in Nat /\ k >= 1
      /\ \A c \in x : c < 7 * k
      /\ \A i \in 1..k : /\ 7 \in s[i] <=> i < k
                         /\ \A c \in 0..6 : c \in s[i] <=> c + 7 * (i - 1) \in x
  BY <1>0, GroupsIs
<1>2. k <= l /\ k <= 9 /\ (\A i \in 1..k : b[(l - k) + i] = s[i]) /\ (l > k => 7 \notin b[l - k])
  BY DEF EndsWith
<1> HIDE DEF s, k
<1>3. p \in Nat /\ k \in Nat /\ l \in Nat /\ p >= 1 /\ k >= 1 /\ k <= 9 /\ l = (p + k) - 1
  <2>1. k \in Nat /\ k >= 1 /\ k <= l /\ k <= 9
    BY <1>1, <1>2
  <2> QED BY <1>0, <2>1
<1>4. \A i \in p..l : i - p + 1 \in 1..k /\ b[i] = s[i - p + 1]
  <2> SUFFICES ASSUME NEW i \in p..l PROVE i - p + 1 \in 1..k /\ b[i] = s[i - p + 1]
    OBVIOUS
  <2> HIDE DEF p, l
  <2>1. i - p + 1 \in 1..k /\ (l - k) + (i - p + 1) = i
    BY <1>3
  <2> QED BY <1>2, <2>1
<1>5. p \in starts
  <2>1. \A i \in p..(l - 1) : i \in p..l /\ i - p + 1 < k
    <3> HIDE DEF p, l
    <3> QED BY <1>3
  <2>2. \A i \in p..(l - 1) : 7 \in b[i]
    <3> HIDE DEF p, l
    <3> QED BY <1>1, <1>4, <2>1
  <2>3. l - p <= 8 /\ p \in 1..l
    <3> HIDE DEF p, l
    <3> QED BY <1>3
  <2> QED BY <2>2, <2>3
<1>6. ASSUME NEW q \in starts, q < p PROVE FALSE
  <2>1. l - k \in q..(l - 1) /\ l > k
    BY <1>3, <1>6
  <2> QED BY <1>2, <1>6, <2>1
<1>7. Min(starts) = p
  <2>1. starts \in SUBSET Nat
    BY <1>0
  <2>2. \A q \in starts : p <= q
    <3> SUFFICES ASSUME NEW q \in starts PROVE p <= q
      OBVIOUS
    <3>1. q \in Nat /\ ~(q < p)
      BY <2>1, <1>6
    <3> HIDE DEF starts, p
    <3> QED BY <1>3, <3>1
  <2> HIDE DEF starts
  <2> QED BY <1>5, <2>1, <2>2, MinIs
<1>8. ReverseGet(b, w) = Loaded(UNION T, (l - p) + 1, "none")
  <2> DEFINE R(q) == Loaded(UNION {Shl(IF i = l THEN b[i] ELSE b[i] \ {7}, 7 * (i - q), w) :
                                      i \in q..l},
                            (l - q) + 1, "none")
  <2>1. ReverseGet(b, w) = R(Min(starts))
    BY DEF ReverseGet
  <2>2. R(p) = Loaded(UNION T, (l - p) + 1, "none")
    OBVIOUS
  <2> HIDE DEF R, starts
  <2> QED BY <1>7, <2>1, <2>2
<1>9. (l - p) + 1 = k
  BY <1>3
<1> HIDE DEF starts, p, l
<1>10. ASSUME NEW i \in p..l
       PROVE  /\ (IF i = l THEN b[i] ELSE b[i] \ {7}) = s[i - p + 1] \ {7}
              /\ \A c : c \in G(i) <=> c \in 0..(w - 1) /\ c - 7 * (i - p) \in s[i - p + 1] \ {7}
  <2>1. i - p + 1 \in 1..k /\ b[i] = s[i - p + 1] /\ (i = l => i - p + 1 = k)
    <3>1. i = l => i - p + 1 = k
      BY <1>3
    <3> QED BY <1>4, <3>1
  <2>2. 7 * (i - p) \in Nat
    BY <1>3
  <2> DEFINE j == i - p + 1
  <2>3. s[j] \in Byte
    <3> HIDE DEF j
    <3>1. j \in 1..Len(s)
      BY <2>1 DEF j, k
    <3> QED BY <1>1, <3>1
  <2>4. i = l => 7 \notin s[j]
    <3> HIDE DEF j
    <3>1. j \in 1..k /\ (i = l => j = k /\ ~(j < k))
      BY <1>3, <2>1 DEF j
    <3> QED BY <1>1, <3>1
  <2>5. (IF i = l THEN b[i] ELSE b[i] \ {7}) = s[i - p + 1] \ {7}
    BY <2>1, <2>4
  <2>6. s[i - p + 1] \ {7} \in SUBSET Nat
    BY <2>3 DEF Byte
  <2>7. G(i) = Shl(s[i - p + 1] \ {7}, 7 * (i - p), w)
    BY <2>5
  <2> HIDE DEF G
  <2>8. \A c : c \in G(i) <=> c \in 0..(w - 1) /\ c - 7 * (i - p) \in s[i - p + 1] \ {7}
    BY <1>0, <2>2, <2>6, <2>7, InShl
  <2> QED BY <2>5, <2>8
<1> HIDE DEF G
<1>11. ASSUME NEW c \in UNION T PROVE c \in x
  <2>1. PICK i \in p..l : c \in G(i)
    BY <1>11
  <2> DEFINE d == c - 7 * (i - p)
             j == i - p + 1
  <2>2. c \in 0..(w - 1) /\ d \in s[j] \ {7}
    BY <1>10, <2>1
  <2>3. j \in 1..k
    BY <1>4
  <2>4. i - p = j - 1 /\ i - p \in Int
    BY <1>3
  <2> HIDE DEF j
  <2>5. s[j] \in Byte
    <3>1. j \in 1..Len(s)
      BY <2>3 DEF k
    <3> QED BY <1>1, <3>1
  <2>6. d \in 0..6
    BY <2>2, <2>5 DEF Byte
  <2>7. d + 7 * (j - 1) = c
    BY <2>2, <2>4
  <2> HIDE DEF d
  <2>8. d \in s[j] <=> d + 7 * (j - 1) \in x
    BY <1>1, <2>3, <2>6
  <2> QED BY <2>2, <2>7, <2>8
<1>12. ASSUME NEW c \in x PROVE c \in UNION T
  <2> DEFINE j == c \div 7 + 1
             d == c - 7 * (j - 1)
             i == (p + j) - 1
  <2>1. c \in 0..(w - 1) /\ c \in Nat /\ c < 7 * k /\ k \in Nat
    BY <1>1
  <2>2. j \in 1..k /\ d \in 0..6 /\ d + 7 * (j - 1) = c /\ d # 7
    BY <2>1
  <2> HIDE DEF j
  <2>3. i \in p..l /\ i - p = j - 1 /\ i - p + 1 = j
    BY <1>3, <2>2
  <2>4. c - 7 * (i - p) = d
    BY <2>3
  <2> HIDE DEF d, i
  <2>5. d \in s[j] \ {7}
    BY <1>1, <2>2
  <2>6. c \in G(i)
    BY <1>10, <2>1, <2>3, <2>4, <2>5
  <2> QED BY <2>3, <2>6
<1>13. UNION T = x
  <2> HIDE DEF T
  <2> QED BY <1>11, <1>12
<1> QED BY <1>8, <1>9, <1>13 DEF k, s, l, p

(***************************************************************************)
(* The codes.                                                              *)
(***************************************************************************)

\* The values that a code can write.
Legal(c, v) ==
  CASE c = "string" -> v \in Seq(Byte) /\ Len(v) <= Longest
    [] c \in {"first", "diff"} -> v \in SUBSET (0..31)
    [] c \in PrefixCodes -> /\ v \in SUBSET (0..(Width(c) - 1))
                            /\ Carrier(c, v) \in SUBSET (0..(Width(c) - Tag(c) - 1))
    [] c \in GroupCodes -> v \in SUBSET (0..(Width(c) - 1))

\* The bytes of a value, where p is the value differences are taken from.
CodeOf(c, v, p) ==
  CASE c \in PrefixCodes -> SavePrefix(Carrier(c, v), Tag(c), Width(c))
    [] c \in GroupCodes -> SaveGroups(Carrier(c, v))
    [] c = "string" -> SaveGroups(Word(Len(v))) \o v
    [] c = "first" -> SaveGroups(v)
    [] c = "diff" -> SaveGroups(Add(v, Neg(p, 32), 32))

\* The kinds of codes are disjoint.
LEMMA CodeKinds ==
  ASSUME NEW c \in AllCodes
  PROVE  /\ Width(c) \in {32, 64}
         /\ c \in PrefixCodes => /\ <<Width(c), Tag(c)>> \in PrefixShapes
                                 /\ c \notin {"string", "first", "diff"} /\ c \notin GroupCodes
         /\ c \in GroupCodes => c \notin {"string", "first", "diff"} /\ c \notin PrefixCodes
         /\ c \in {"string", "first", "diff"} => c \notin PrefixCodes /\ c \notin GroupCodes
         /\ c \in PrefixCodes \/ c \in GroupCodes \/ c \in {"string", "first", "diff"}
         /\ c \in {"string", "first", "diff"} => Width(c) = 32 /\ c \notin SignedCodes
BY DEF AllCodes, PrefixCodes, GroupCodes, SignedCodes, Width, Tag, PrefixShapes

\* What the writer writes is legal.
LEMMA ValuesLegal ==
  ASSUME NEW c \in Codes, NEW v \in Values(c)
  PROVE  c \in AllCodes /\ Legal(c, v)
<1> DEFINE w == Width(c)
           plain == {x \in Words : x \subseteq Bits(w)}
           signed == plain \cup {Neg(x, w) : x \in plain}
<1>0. c \in AllCodes
  BY CodesAssumption
<1>1. \A x \in signed : x \in SUBSET (0..(w - 1))
  <2>1. \A x : Neg(x, w) \in SUBSET (0..(w - 1))
    BY DEF Neg, Bits
  <2> QED BY <2>1 DEF Bits
<1>2. \A x \in plain : x \in SUBSET (0..(w - 1))
  BY DEF Bits
<1>3. CASE c = "string"
  <2>1. c \notin {"first", "diff"} /\ c \notin PrefixCodes /\ c \notin GroupCodes
    BY <1>0, <1>3, CodeKinds
  <2>2. Values(c) = Strings
    <3> HIDE DEF plain, signed
    <3> QED BY <1>3, <2>1 DEF Values
  <2>3. v \in Seq(SUBSET (0..7)) /\ Len(v) <= Longest
    BY <2>2, StringsAssumption
  <2> QED BY <1>0, <1>3, <2>1, <2>3 DEF Legal, Byte
<1>4. CASE c \in {"first", "diff"}
  <2>1. c # "string" /\ w = 32 /\ c \notin PrefixCodes /\ c \notin GroupCodes
    BY <1>0, <1>4, CodeKinds
  <2>2. v \in plain
    BY <1>4, <2>1 DEF Values
  <2> QED BY <1>0, <1>2, <1>4, <2>1, <2>2 DEF Legal
<1>5. CASE c \in PrefixCodes
  <2>1. c \notin {"string", "first", "diff"} /\ c \notin GroupCodes
    BY <1>0, <1>5, CodeKinds
  <2>2. v \in {x \in (IF c \in SignedCodes THEN signed ELSE plain) :
                 Carrier(c, x) \subseteq Bits(w - Tag(c))}
    BY <1>5, <2>1 DEF Values
  <2>3. v \in signed /\ Carrier(c, v) \subseteq Bits(w - Tag(c))
    BY <2>2
  <2>4. Carrier(c, v) \in SUBSET (0..(w - Tag(c) - 1))
    BY <2>3 DEF Bits
  <2> QED BY <1>0, <1>1, <1>5, <2>1, <2>3, <2>4 DEF Legal
<1>6. CASE c \in GroupCodes
  <2>1. c \notin {"string", "first", "diff"} /\ c \notin PrefixCodes
    BY <1>0, <1>6, CodeKinds
  <2>2. v \in signed
    BY <1>6, <2>1 DEF Values
  <2> QED BY <1>0, <1>1, <1>6, <2>1, <2>2 DEF Legal
<1> QED BY <1>0, <1>3, <1>4, <1>5, <1>6, CodeKinds

\* The signed values come back from the unsigned ones that carry them.
LEMMA CarrierOK ==
  ASSUME NEW c \in PrefixCodes \cup GroupCodes, NEW v \in SUBSET (0..(Width(c) - 1))
  PROVE  /\ Carrier(c, v) \in SUBSET (0..(Width(c) - 1))
         /\ Original(c, Carrier(c, v)) = v
<1>1. Width(c) \in Nat /\ Width(c) > 0
  BY DEF Width
<1>2. CASE c \in SignedCodes
  <2>1. Carrier(c, v) = S2U(v, Width(c)) /\ Original(c, Carrier(c, v)) = U2S(S2U(v, Width(c)), Width(c))
    BY <1>2 DEF Carrier, Original
  <2> QED BY <1>1, <2>1, SignOK
<1>3. CASE c \notin SignedCodes
  BY <1>3 DEF Carrier, Original
<1> QED BY <1>2, <1>3

\* What the bytes of a value are, code by code.
LEMMA CodeIs ==
  ASSUME NEW c \in AllCodes, NEW v, Legal(c, v), NEW p
  PROVE  /\ c \in PrefixCodes =>
              /\ CodeOf(c, v, p) = SavePrefix(Carrier(c, v), Tag(c), Width(c))
              /\ v \in SUBSET (0..(Width(c) - 1))
              /\ Carrier(c, v) \in SUBSET (0..(Width(c) - Tag(c) - 1))
         /\ c \in GroupCodes =>
              /\ CodeOf(c, v, p) = SaveGroups(Carrier(c, v))
              /\ v \in SUBSET (0..(Width(c) - 1))
              /\ Carrier(c, v) \in SUBSET (0..(Width(c) - 1))
         /\ c = "string" =>
              /\ CodeOf(c, v, p) = SaveGroups(Word(Len(v))) \o v
              /\ v \in Seq(Byte) /\ Len(v) <= Longest
              /\ Word(Len(v)) \in SUBSET (0..(32 - 1)) /\ Number(Word(Len(v))) = Len(v)
         /\ c = "first" => CodeOf(c, v, p) = SaveGroups(v) /\ v \in SUBSET (0..(32 - 1))
         /\ c = "diff" =>
              /\ CodeOf(c, v, p) = SaveGroups(Add(v, Neg(p, 32), 32))
              /\ v \in SUBSET (0..(32 - 1)) /\ Add(v, Neg(p, 32), 32) \in SUBSET (0..(32 - 1))
<1>1. CASE c \in PrefixCodes
  <2>1. c \notin {"string", "first", "diff"} /\ c \notin GroupCodes
    BY <1>1, CodeKinds
  <2>2. CodeOf(c, v, p) = SavePrefix(Carrier(c, v), Tag(c), Width(c))
    BY <1>1, <2>1 DEF CodeOf
  <2>3. v \in SUBSET (0..(Width(c) - 1)) /\ Carrier(c, v) \in SUBSET (0..(Width(c) - Tag(c) - 1))
    BY <1>1, <2>1 DEF Legal
  <2> QED BY <2>1, <2>2, <2>3
<1>2. CASE c \in GroupCodes
  <2>1. c \notin {"string", "first", "diff"} /\ c \notin PrefixCodes
    BY <1>2, CodeKinds
  <2>2. CodeOf(c, v, p) = SaveGroups(Carrier(c, v))
    BY <1>2, <2>1 DEF CodeOf
  <2>3. v \in SUBSET (0..(Width(c) - 1))
    BY <1>2, <2>1 DEF Legal
  <2>4. Carrier(c, v) \in SUBSET (0..(Width(c) - 1))
    BY <1>2, <2>3, CarrierOK
  <2> QED BY <2>1, <2>2, <2>3, <2>4
<1>3. CASE c = "string"
  <2>1. c \notin {"first", "diff"} /\ c \notin PrefixCodes /\ c \notin GroupCodes
    BY <1>3, CodeKinds
  <2>2. CodeOf(c, v, p) = SaveGroups(Word(Len(v))) \o v
    BY <1>3, <2>1 DEF CodeOf
  <2>3. v \in Seq(Byte) /\ Len(v) <= Longest
    BY <1>3, <2>1 DEF Legal
  <2>4. Word(Len(v)) \in SUBSET (0..30) /\ Number(Word(Len(v))) = Len(v)
    <3>1. Len(v) \in Nat
      BY <2>3
    <3> QED BY <2>3, <3>1, NumberOK
  <2>5. Word(Len(v)) \in SUBSET (0..(32 - 1))
    <3>1. 0..30 \subseteq 0..(32 - 1)
      OBVIOUS
    <3> QED BY <2>4, <3>1
  <2> QED BY <2>1, <2>2, <2>3, <2>4, <2>5
<1>4. CASE c \in {"first", "diff"}
  <2>1. c # "string" /\ c \notin PrefixCodes /\ c \notin GroupCodes
    BY <1>4, CodeKinds
  <2>2. v \in SUBSET (0..(32 - 1))
    <3>1. 0..31 = 0..(32 - 1)
      OBVIOUS
    <3>2. v \in SUBSET (0..31)
      BY <1>4, <2>1 DEF Legal
    <3> QED BY <3>1, <3>2
  <2>3. Add(v, Neg(p, 32), 32) \in SUBSET (0..(32 - 1))
    BY DEF Add, Bits
  <2>4. /\ c = "first" => CodeOf(c, v, p) = SaveGroups(v)
        /\ c = "diff" => CodeOf(c, v, p) = SaveGroups(Add(v, Neg(p, 32), 32))
    BY <1>4, <2>1 DEF CodeOf
  <2> QED BY <2>1, <2>2, <2>3, <2>4
<1> QED BY <1>1, <1>2, <1>3, <1>4, CodeKinds

\* The same for one kind of code.
LEMMA PrefixCodeIs ==
  ASSUME NEW c \in PrefixCodes, NEW v, Legal(c, v), NEW p
  PROVE  /\ CodeOf(c, v, p) = SavePrefix(Carrier(c, v), Tag(c), Width(c))
         /\ v \in SUBSET (0..(Width(c) - 1))
         /\ Carrier(c, v) \in SUBSET (0..(Width(c) - Tag(c) - 1))
<1>1. c \in AllCodes
  BY DEF AllCodes
<1> QED BY <1>1, CodeIs

LEMMA GroupCodeIs ==
  ASSUME NEW c \in GroupCodes, NEW v, Legal(c, v), NEW p
  PROVE  /\ CodeOf(c, v, p) = SaveGroups(Carrier(c, v))
         /\ v \in SUBSET (0..(Width(c) - 1))
         /\ Carrier(c, v) \in SUBSET (0..(Width(c) - 1))
<1>1. c \in AllCodes
  BY DEF AllCodes
<1> QED BY <1>1, CodeIs

LEMMA StringCodeIs ==
  ASSUME NEW v, Legal("string", v), NEW p
  PROVE  /\ CodeOf("string", v, p) = SaveGroups(Word(Len(v))) \o v
         /\ v \in Seq(Byte) /\ Len(v) <= Longest
         /\ Word(Len(v)) \in SUBSET (0..(32 - 1)) /\ Number(Word(Len(v))) = Len(v)
<1>1. "string" \in AllCodes
  BY DEF AllCodes
<1> QED BY <1>1, CodeIs

LEMMA FirstCodeIs ==
  ASSUME NEW v, Legal("first", v), NEW p
  PROVE  CodeOf("first", v, p) = SaveGroups(v) /\ v \in SUBSET (0..(32 - 1))
<1>1. "first" \in AllCodes
  BY DEF AllCodes
<1>2. "first" \notin PrefixCodes /\ "first" \notin GroupCodes
  BY <1>1, CodeKinds
<1>3. CodeOf("first", v, p) = SaveGroups(v)
  BY <1>2 DEF CodeOf
<1>4. v \in SUBSET (0..31)
  BY <1>2 DEF Legal
<1> QED BY <1>3, <1>4

LEMMA DiffCodeIs ==
  ASSUME NEW v, Legal("diff", v), NEW p
  PROVE  /\ CodeOf("diff", v, p) = SaveGroups(Add(v, Neg(p, 32), 32))
         /\ v \in SUBSET (0..(32 - 1)) /\ Add(v, Neg(p, 32), 32) \in SUBSET (0..(32 - 1))
<1>1. "diff" \in AllCodes
  BY DEF AllCodes
<1> QED BY <1>1, CodeIs

\* The bytes of a value are bytes, and but for strings they fit where the fast
\* path writes them.
LEMMA CodeFits ==
  ASSUME NEW c \in AllCodes, NEW v, Legal(c, v), NEW p
  PROVE  /\ CodeOf(c, v, p) \in Seq(Byte)
         /\ c # "string" => Len(CodeOf(c, v, p)) <= RoomToWrite(c)
<1> DEFINE e == CodeOf(c, v, p)
           w == Width(c)
<1>0. /\ w \in {32, 64} /\ w \in Nat /\ w > 0
      /\ 32 \in {32, 64} /\ 32 \in Nat /\ 32 > 0
  <2>1. w \in {32, 64}
    BY CodeKinds
  <2> QED BY <2>1
<1>1. CASE c \in PrefixCodes
  <2>1. <<w, Tag(c)>> \in PrefixShapes /\ e = SavePrefix(Carrier(c, v), Tag(c), w)
        /\ Carrier(c, v) \in SUBSET (0..(w - Tag(c) - 1))
    BY <1>1, PrefixCodeIs, CodeKinds
  <2> DEFINE x == Carrier(c, v)
  <2> HIDE DEF x
  <2>2. e \in Seq(Byte) /\ Len(e) \in 1..(w \div 8)
    <3>1. /\ SavePrefix(x, Tag(c), w) \in Seq(Byte)
          /\ Len(SavePrefix(x, Tag(c), w)) \in 1..(w \div 8)
      BY <2>1, PrefixIs DEF x
    <3> QED BY <2>1, <3>1 DEF x
  <2> QED BY <1>0, <1>1, <2>2 DEF RoomToWrite
<1>2. CASE c \in GroupCodes
  <2>1. e = SaveGroups(Carrier(c, v)) /\ Carrier(c, v) \in SUBSET (0..(w - 1))
    BY <1>2, GroupCodeIs
  <2>3. c \notin PrefixCodes
    BY <1>2, CodeKinds
  <2>2. e \in Seq(Byte) /\ Len(e) <= MaxGroups(w)
    BY <1>0, <2>1, GroupBytes, GroupsFit
  <2> QED BY <2>2, <2>3 DEF RoomToWrite
<1>3. CASE c = "string"
  <2>1. e = SaveGroups(Word(Len(v))) \o v /\ v \in Seq(Byte) /\ Word(Len(v)) \in SUBSET (0..(32 - 1))
    BY <1>3, StringCodeIs
  <2>2. SaveGroups(Word(Len(v))) \in Seq(Byte)
    BY <1>0, <2>1, GroupBytes
  <2>3. SaveGroups(Word(Len(v))) \o v \in Seq(Byte)
    BY <2>1, <2>2, ConcatProperties
  <2> QED BY <1>3, <2>1, <2>3
<1>4. CASE c \in {"first", "diff"}
  <2> DEFINE x == IF c = "first" THEN v ELSE Add(v, Neg(p, 32), 32)
  <2>1. e = SaveGroups(x) /\ x \in SUBSET (0..(32 - 1))
    <3>1. c = "first" => e = SaveGroups(v) /\ v \in SUBSET (0..(32 - 1))
      BY FirstCodeIs
    <3>2. c = "diff" => e = SaveGroups(Add(v, Neg(p, 32), 32))
      BY DiffCodeIs
    <3>3. Add(v, Neg(p, 32), 32) \in SUBSET (0..(32 - 1))
      BY DEF Add, Bits
    <3> HIDE DEF e
    <3> QED BY <1>4, <3>1, <3>2, <3>3
  <2> HIDE DEF x
  <2>2. e \in Seq(Byte) /\ Len(e) <= MaxGroups(32)
    <3>1. SaveGroups(x) \in Seq(Byte)
      BY <1>0, <2>1, GroupBytes
    <3>2. Len(SaveGroups(x)) <= MaxGroups(32)
      BY <1>0, <2>1, GroupsFit
    <3> HIDE DEF e
    <3> QED BY <2>1, <3>1, <3>2
  <2>3. w = 32 /\ c \notin PrefixCodes
    BY <1>4, CodeKinds
  <2> QED BY <2>2, <2>3 DEF RoomToWrite
<1> QED BY <1>1, <1>2, <1>3, <1>4, CodeKinds

\* A value is read, by the fast path and by the slow one, where it is whole;
\* where it is not, the end of the stream is found.  The fast path may be taken
\* where as many bytes remain as Room says; the slow one takes the bytes of a
\* value with a prefix, but gets it right only if it has no more than two.
LEMMA DecodeOK ==
  ASSUME NEW c \in AllCodes, NEW v, Legal(c, v), NEW p \in SUBSET (0..31),
         NEW b \in Seq(Byte), Starts(b, CodeOf(c, v, p)),
         NEW fast \in BOOLEAN, fast => Len(b) >= Room(c),
         c = "diff" => decCur = p
  PROVE  LET g == Decode(c, b, fast)
             n == Len(CodeOf(c, v, p))
         IN  IF Len(b) >= n
             THEN /\ g.exc = "none" /\ g.used = n
                  /\ (~fast /\ c \in PrefixCodes => PrefixLength(b, Tag(c)) <= 2) => g.value = v
             ELSE g.exc = "eof"
<1> DEFINE e == CodeOf(c, v, p)
           n == Len(e)
           w == Width(c)
           groups(u) == IF fast THEN LoadGroups(b, u) ELSE LoadGroupsSlow(b, u)
           prefix == IF fast THEN LoadPrefix(b, Tag(c), w) ELSE LoadPrefixSlow(b, Tag(c), w)
           l == CASE c \in PrefixCodes -> prefix
                  [] c \in GroupCodes -> groups(w)
                  [] c \in {"first", "diff"} -> groups(64)
                  [] c = "string" -> LoadString(b, groups(32))
           g == Decode(c, b, fast)
<1>0. /\ w \in {32, 64} /\ w <= w
      /\ 32 \in {32, 64} /\ 64 \in {32, 64} /\ 32 <= 64 /\ 32 <= 32 /\ 32 \in Nat /\ 32 > 0
  <2>1. w \in {32, 64}
    BY CodeKinds
  <2> QED BY <2>1
<1>1. g = IF l.exc # "none" THEN l
          ELSE CASE c = "diff" -> [l EXCEPT !.value = DecodeDiff(@)]
                 [] c = "first" -> [l EXCEPT !.value = @ \cap Bits(32)]
                 [] OTHER -> [l EXCEPT !.value = Original(c, @)]
  BY DEF Decode
<1>2. n \in Nat
  BY CodeFits
<1>3. CASE c \in PrefixCodes
  <2> DEFINE x == Carrier(c, v)
             t == Tag(c)
  <2>1. c \notin {"string", "first", "diff"} /\ c \notin GroupCodes /\ <<w, t>> \in PrefixShapes
    BY <1>3, CodeKinds
  <2>2. e = SavePrefix(x, t, w) /\ x \in SUBSET (0..(w - t - 1)) /\ Original(c, x) = v
    BY <1>3, PrefixCodeIs, CarrierOK
  <2>3. l = prefix
    BY <1>3, <2>1
  <2>4. fast => Len(b) >= w \div 8
    <3>1. Room(c) = w \div 8
      BY <1>3, <2>1 DEF Room
    <3> QED BY <3>1
  <2>5. n <= w \div 8 /\ w \div 8 \in Nat
    <3>1. n \in 1..(w \div 8)
      BY <2>1, <2>2, PrefixIs
    <3> QED BY <1>0, <3>1
  <2> HIDE DEF x, t
  <2>6. CASE fast
    <3>1. Starts(b, SavePrefix(x, t, w)) /\ Len(b) >= w \div 8
      BY <2>2, <2>4, <2>6
    <3>2. LoadPrefix(b, t, w) = Loaded(x, n, "none")
      BY <2>1, <2>2, <3>1, LoadPrefixOK
    <3>3. l = Loaded(x, n, "none")
      BY <2>3, <2>6, <3>2 DEF t
    <3> HIDE DEF l, e, n, g, w
    <3>4. g = Loaded(v, n, "none")
      BY <1>1, <2>1, <2>2, <3>3 DEF Loaded
    <3>5. Len(b) >= n
      BY <1>2, <2>4, <2>5, <2>6
    <3> QED BY <3>4, <3>5 DEF Loaded, g, n, e
  <2>7. CASE ~fast
    <3>1. IF Len(b) >= n
          THEN /\ \E z : LoadPrefixSlow(b, t, w) = Loaded(z, n, "none")
               /\ n <= 2 => LoadPrefixSlow(b, t, w) = Loaded(x, n, "none")
          ELSE LoadPrefixSlow(b, t, w).exc = "eof"
      BY <2>1, <2>2, LoadPrefixSlowOK
    <3>2. l = LoadPrefixSlow(b, t, w)
      BY <2>3, <2>7 DEF t
    <3>3. CASE Len(b) >= n
      <4>1. b # <<>>
        <5>1. n \in 1..(w \div 8)
          BY <2>1, <2>2, PrefixIs
        <5> QED BY <1>0, <3>3, <5>1
      <4>2. PrefixLength(b, t) = n
        BY <2>1, <2>2, <4>1, PrefixLengthOK
      <4>3. PICK z : l = Loaded(z, n, "none")
        BY <3>1, <3>2, <3>3
      <4>4. PrefixLength(b, Tag(c)) <= 2 => l = Loaded(x, n, "none")
        BY <3>1, <3>2, <3>3, <4>2 DEF t
      <4> HIDE DEF l, e, n, g, w
      <4>5. g = [l EXCEPT !.value = Original(c, @)] /\ g.exc = "none" /\ g.used = n
        BY <1>1, <2>1, <4>3 DEF Loaded
      <4>6. PrefixLength(b, Tag(c)) <= 2 => g.value = v
        BY <2>2, <4>4, <4>5 DEF Loaded
      <4> QED BY <1>3, <2>7, <3>3, <4>5, <4>6 DEF g, n, e
    <3>4. CASE ~(Len(b) >= n)
      <4>1. l.exc = "eof"
        BY <3>1, <3>2, <3>4
      <4> HIDE DEF l
      <4>2. g.exc = "eof"
        BY <1>1, <4>1
      <4> QED BY <3>4, <4>2
    <3> QED BY <3>3, <3>4
  <2> QED BY <2>6, <2>7
<1>4. CASE c \in GroupCodes
  <2> DEFINE x == Carrier(c, v)
  <2>1. c \notin {"string", "first", "diff"} /\ c \notin PrefixCodes
    BY <1>4, CodeKinds
  <2>2. e = SaveGroups(x) /\ x \in SUBSET (0..(w - 1)) /\ Original(c, x) = v
    BY <1>4, GroupCodeIs, CarrierOK
  <2>3. l = groups(w)
    BY <1>4, <2>1
  <2> HIDE DEF x
  <2>4. IF Len(b) >= n THEN groups(w) = Loaded(x, n, "none") ELSE groups(w).exc = "eof"
    BY <1>0, <2>2, LoadGroupsOK
  <2> HIDE DEF l, g, w, groups
  <2>5. CASE Len(b) >= n
    <3>1. l = Loaded(x, n, "none")
      BY <2>3, <2>4, <2>5
    <3> HIDE DEF n, e
    <3>2. g = Loaded(v, n, "none")
      BY <1>1, <2>1, <2>2, <3>1 DEF Loaded
    <3> QED BY <2>5, <3>2 DEF Loaded, g, n, e
  <2>6. CASE ~(Len(b) >= n)
    <3>1. g.exc = "eof"
      BY <1>1, <2>3, <2>4, <2>6
    <3> QED BY <2>6, <3>1 DEF g
  <2> QED BY <2>5, <2>6
<1>5. CASE c \in {"first", "diff"}
  <2> DEFINE x == IF c = "first" THEN v ELSE Add(v, Neg(p, 32), 32)
  <2>1. c # "string" /\ c \notin PrefixCodes /\ c \notin GroupCodes
    BY <1>5, CodeKinds
  <2>2. e = SaveGroups(x) /\ x \in SUBSET (0..(32 - 1)) /\ v \in SUBSET (0..(32 - 1))
    BY <1>5, FirstCodeIs, DiffCodeIs
  <2>3. l = groups(64)
    BY <1>5, <2>1
  <2>4. IF Len(b) >= n THEN groups(64) = Loaded(x, n, "none") ELSE groups(64).exc = "eof"
    <3> HIDE DEF x
    <3> QED BY <1>0, <2>2, LoadGroupsOK
  <2>5. x \cap Bits(32) = x
    BY <2>2 DEF Bits
  <2>6. c = "diff" => DecodeDiff(x) = v
    <3>1. c = "diff" => Add(p, x, 32) = v
      <4>1. 32 \in Nat /\ p \in SUBSET (0..(32 - 1)) /\ v \in SUBSET (0..(32 - 1))
        BY <2>2
      <4> QED BY <4>1, DifferenceOK
    <3> HIDE DEF x
    <3> QED BY <2>5, <3>1 DEF DecodeDiff
  <2>7. c = "first" => x = v
    OBVIOUS
  <2> HIDE DEF l, g, w, groups, x
  <2>8. CASE Len(b) >= n
    <3>1. l = Loaded(x, n, "none")
      BY <2>3, <2>4, <2>8
    <3> HIDE DEF n, e
    <3>2. g = Loaded(v, n, "none")
      BY <1>1, <1>5, <2>5, <2>6, <2>7, <3>1 DEF Loaded
    <3> QED BY <2>8, <3>2 DEF Loaded, g, n, e
  <2>9. CASE ~(Len(b) >= n)
    <3>1. g.exc = "eof"
      BY <1>1, <2>3, <2>4, <2>9
    <3> QED BY <2>9, <3>1 DEF g
  <2> QED BY <2>8, <2>9
<1>6. CASE c = "string"
  <2> DEFINE x == Word(Len(v))
             s == SaveGroups(x)
             k == Len(s)
             size == groups(32)
  <2>1. c \notin {"first", "diff"} /\ c \notin PrefixCodes /\ c \notin GroupCodes /\ c \notin SignedCodes
    BY <1>6, CodeKinds
  <2>2. /\ e = s \o v /\ v \in Seq(Byte) /\ x \in SUBSET (0..(32 - 1))
        /\ Number(x) = Len(v)
    BY <1>6, StringCodeIs
  <2>3. l = LoadString(b, size)
    BY <1>6, <2>1
  <2> HIDE DEF x
  <2>4. s \in Seq(Byte) /\ k \in Nat
    <3>1. s \in Seq(Byte)
      BY <1>0, <2>2, GroupBytes
    <3> QED BY <3>1
  <2>5. /\ n = k + Len(v) /\ Len(v) \in Nat
        /\ \A i \in 1..k : e[i] = s[i]
        /\ \A i \in 1..Len(v) : e[k + i] = v[i]
    <3> HIDE DEF s, e
    <3> QED BY <2>2, <2>4
  <2>6. Starts(b, s) /\ \A i \in 1..n : i <= Len(b) => b[i] = e[i]
    <3>1. \A i \in 1..n : i <= Len(b) => b[i] = e[i]
      BY DEF Starts
    <3> HIDE DEF s, e, n
    <3> QED BY <2>4, <2>5, <3>1 DEF Starts
  <2>7. IF Len(b) >= k THEN size = Loaded(x, k, "none") ELSE size.exc = "eof"
    <3>1. x \in SUBSET (0..(32 - 1)) /\ Starts(b, SaveGroups(x))
      BY <2>2, <2>6
    <3> QED BY <1>0, <3>1, LoadGroupsOK
  <2> HIDE DEF size, groups, s
  <2>8. l = LET m == Number(size.value)
            IN  IF size.exc # "none" THEN size
                ELSE IF Len(b) < size.used + m THEN Loaded({}, size.used, "eof")
                ELSE Loaded(SubSeq(b, size.used + 1, size.used + m), size.used + m, "none")
    BY <2>3 DEF LoadString
  <2> HIDE DEF l, g, k
  <2>9. CASE Len(b) >= n
    <3> HIDE DEF e, n
    <3>1. Len(b) >= k /\ ~(Len(b) < k + Len(v)) /\ n = k + Len(v) /\ Len(b) \in Nat
      BY <1>2, <2>4, <2>5, <2>9 DEF k
    <3>2. size = Loaded(x, k, "none")
      BY <2>7, <3>1
    <3>3. size.value = x /\ size.used = k /\ size.exc = "none"
      BY <3>2 DEF Loaded
    <3>4. l = Loaded(SubSeq(b, k + 1, k + Len(v)), k + Len(v), "none")
      BY <2>2, <2>8, <3>1, <3>3
    <3>5. SubSeq(b, k + 1, k + Len(v)) = v
      <4> DEFINE z == SubSeq(b, k + 1, k + Len(v))
      <4>1. k \in Nat /\ Len(v) \in Nat
        BY <2>4, <2>5 DEF k
      <4>2. Len(z) = Len(v) /\ z \in Seq(Byte) /\ \A i \in 1..Len(v) : z[i] = b[k + i]
        BY <3>1, <4>1
      <4>3. \A i \in 1..Len(v) : z[i] = v[i]
        <5> SUFFICES ASSUME NEW i \in 1..Len(v) PROVE b[k + i] = v[i]
          <6> HIDE DEF z
          <6> QED BY <4>2
        <5>1. k + i \in 1..n /\ k + i <= Len(b)
          BY <3>1, <4>1
        <5> QED BY <2>5, <2>6, <5>1 DEF k
      <4> HIDE DEF z
      <4>4. z = v
        BY <2>2, <4>2, <4>3
      <4> QED BY <4>4 DEF z
    <3>6. l = Loaded(v, n, "none") /\ Original(c, v) = v
      BY <2>1, <3>1, <3>4, <3>5 DEF Original
    <3>7. g = Loaded(v, n, "none")
      BY <1>1, <1>6, <2>1, <3>6 DEF Loaded
    <3> QED BY <2>9, <3>7 DEF Loaded, g, n, e
  <2>10. CASE ~(Len(b) >= n)
    <3> HIDE DEF e, n
    <3>1. l.exc = "eof"
      <4>1. CASE Len(b) >= k
        <5>1. size = Loaded(x, k, "none")
          BY <2>7, <4>1
        <5>2. size.value = x /\ size.used = k /\ size.exc = "none"
          BY <5>1 DEF Loaded
        <5>3. Len(b) < k + Len(v)
          BY <1>2, <2>4, <2>5, <2>10 DEF k
        <5> QED BY <2>2, <2>8, <5>2, <5>3 DEF Loaded
      <4>2. CASE ~(Len(b) >= k)
        BY <2>7, <2>8, <4>2
      <4> QED BY <4>1, <4>2
    <3>2. g.exc = "eof"
      BY <1>1, <3>1
    <3> QED BY <2>10, <3>2 DEF g, n, e
  <2> QED BY <2>9, <2>10
<1> QED BY <1>3, <1>4, <1>5, <1>6, CodeKinds

(***************************************************************************)
(* The stream.                                                             *)
(***************************************************************************)

\* The value that differences are taken from after i of the values vs.
Current(vs, i) ==
  LET at == {j \in 1..i : vs[j].code \in {"first", "diff"}}
  IN  IF at = {} THEN {} ELSE vs[Max(at)].value

CodeIn(vs, i) == CodeOf(vs[i].code, vs[i].value, Current(vs, i - 1))
EndIn(es, i) == IF i = 0 THEN 0 ELSE es[i]

Item == [code : AllCodes, value : (SUBSET (0..63)) \cup Seq(Byte)]

\* The stream bs holds the bytes of the values vs, one behind the other, up to
\* where it was cut.
Written(vs, es, bs, ct, enc) ==
  /\ vs \in Seq(Item) /\ es \in Seq(Nat) /\ bs \in Seq(Byte) /\ ct \in BOOLEAN
  /\ Len(es) = Len(vs)
  /\ enc = Current(vs, Len(vs))
  /\ ~ct => Len(bs) = EndIn(es, Len(vs))
  /\ \A i \in 1..Len(vs) :
       /\ Legal(vs[i].code, vs[i].value)
       /\ es[i] = EndIn(es, i - 1) + Len(CodeIn(vs, i))
       /\ es[i] <= EndIn(es, Len(vs))
       /\ \A k \in 1..Len(CodeIn(vs, i)) :
            EndIn(es, i - 1) + k <= Len(bs) => bs[EndIn(es, i - 1) + k] = CodeIn(vs, i)[k]

\* What m_cur is, value by value.
LEMMA CurrentIs ==
  ASSUME NEW vs, NEW i \in Nat, i > 0
  PROVE  Current(vs, i) = IF vs[i].code \in {"first", "diff"} THEN vs[i].value
                          ELSE Current(vs, i - 1)
<1> DEFINE at(k) == {j \in 1..k : vs[j].code \in {"first", "diff"}}
<1>1. CASE vs[i].code \in {"first", "diff"}
  <2>1. i \in at(i) /\ at(i) \in SUBSET Nat /\ \A j \in at(i) : j <= i
    BY <1>1
  <2>2. Max(at(i)) = i /\ at(i) # {}
    <3> HIDE DEF at
    <3> QED BY <2>1, MaxIs
  <2> QED BY <1>1, <2>2 DEF Current
<1>2. CASE vs[i].code \notin {"first", "diff"}
  <2>1. \A j \in 1..i : j = i \/ j \in 1..(i - 1)
    OBVIOUS
  <2>2. \A j \in 1..(i - 1) : j \in 1..i
    OBVIOUS
  <2>3. at(i) = at(i - 1)
    BY <1>2, <2>1, <2>2
  <2> QED BY <1>2, <2>3 DEF Current
<1> QED BY <1>1, <1>2

\* It depends on the values so far.
LEMMA CurrentSame ==
  ASSUME NEW us, NEW vs, NEW i \in Nat, \A j \in 1..i : us[j] = vs[j]
  PROVE  Current(us, i) = Current(vs, i)
<1> DEFINE at(s) == {j \in 1..i : s[j].code \in {"first", "diff"}}
<1>1. at(us) = at(vs)
  OBVIOUS
<1>2. CASE at(vs) = {}
  BY <1>1, <1>2 DEF Current
<1>3. CASE at(vs) # {}
  <2>1. at(vs) \in SUBSET Nat /\ \A j \in at(vs) : j <= i
    OBVIOUS
  <2>2. PICK m \in at(vs) : \A j \in at(vs) : j <= m
    <3> HIDE DEF at
    <3> QED BY <1>3, <2>1, GreatestOfSet
  <2>3. Max(at(vs)) = m
    <3> HIDE DEF at
    <3> QED BY <2>1, <2>2, MaxIs
  <2>4. us[m] = vs[m]
    BY <2>2
  <2> QED BY <1>1, <1>3, <2>3, <2>4 DEF Current
<1> QED BY <1>2, <1>3

\* It is a word of 32 bits.
LEMMA CurrentWord ==
  ASSUME NEW vs, NEW i \in Nat,
         \A j \in 1..i : vs[j].code \in AllCodes /\ Legal(vs[j].code, vs[j].value)
  PROVE  Current(vs, i) \in SUBSET (0..31)
<1> DEFINE S == {k \in 0..i : Current(vs, k) \in SUBSET (0..31)}
<1>1. 0 \in S
  <2>1. 1..0 = {}
    OBVIOUS
  <2>2. Current(vs, 0) = {}
    BY <2>1 DEF Current
  <2> QED BY <2>2
<1>2. ASSUME NEW k \in 0..(i - 1), k \in S PROVE k + 1 \in S
  <2>1. k + 1 \in 1..i /\ k + 1 \in Nat /\ k + 1 > 0 /\ (k + 1) - 1 = k /\ k + 1 \in 0..i
    OBVIOUS
  <2>2. Current(vs, k + 1) = IF vs[k + 1].code \in {"first", "diff"} THEN vs[k + 1].value
                             ELSE Current(vs, k)
    <3>1. Current(vs, k + 1) = IF vs[k + 1].code \in {"first", "diff"} THEN vs[k + 1].value
                               ELSE Current(vs, (k + 1) - 1)
      BY <2>1, CurrentIs
    <3> QED BY <2>1, <3>1
  <2>3. vs[k + 1].code \in {"first", "diff"} => vs[k + 1].value \in SUBSET (0..31)
    <3> DEFINE c == vs[k + 1].code
               v == vs[k + 1].value
    <3>1. c \in AllCodes /\ Legal(c, v)
      BY <2>1
    <3> HIDE DEF c, v
    <3>2. c \in {"first", "diff"} => v \in SUBSET (0..31)
      <4> SUFFICES ASSUME c \in {"first", "diff"} PROVE v \in SUBSET (0..31)
        OBVIOUS
      <4>1. c # "string" /\ c \notin PrefixCodes /\ c \notin GroupCodes
        BY <3>1, CodeKinds
      <4> QED BY <3>1, <4>1 DEF Legal
    <3> QED BY <3>2 DEF c, v
  <2> QED BY <1>2, <2>1, <2>2, <2>3
<1>3. \A k \in 0..i : k \in S
  <2> HIDE DEF S
  <2> QED BY <1>1, <1>2, Induction
<1> QED BY <1>3

\* A legal value is an item.
LEMMA LegalItem ==
  ASSUME NEW c \in AllCodes, NEW v, Legal(c, v)
  PROVE  [code |-> c, value |-> v] \in Item
<1>1. v \in (SUBSET (0..63)) \cup Seq(Byte)
  <2>1. CASE c = "string"
    BY <2>1, StringCodeIs
  <2>2. CASE c \in PrefixCodes \cup GroupCodes
    <3>1. v \in SUBSET (0..(Width(c) - 1)) /\ Width(c) \in {32, 64}
      BY <2>2, PrefixCodeIs, GroupCodeIs, CodeKinds
    <3>2. 0..(Width(c) - 1) \subseteq 0..63
      BY <3>1
    <3> QED BY <3>1, <3>2
  <2>3. CASE c \in {"first", "diff"}
    <3>1. v \in SUBSET (0..(32 - 1))
      BY <2>3, FirstCodeIs, DiffCodeIs
    <3> QED BY <3>1
  <2> QED BY <2>1, <2>2, <2>3, CodeKinds
<1> QED BY <1>1 DEF Item

\* The values in the stream are legal ones, their bytes are bytes.
LEMMA WrittenItem ==
  ASSUME NEW vs, NEW es, NEW bs, NEW ct, NEW enc, Written(vs, es, bs, ct, enc),
         NEW i \in 1..Len(vs)
  PROVE  /\ vs[i].code \in AllCodes /\ Legal(vs[i].code, vs[i].value)
         /\ CodeIn(vs, i) \in Seq(Byte)
<1>1. vs[i] \in Item
  <2>1. vs \in Seq(Item)
    BY DEF Written
  <2> QED BY <2>1
<1>2. vs[i].code \in AllCodes
  BY <1>1 DEF Item
<1>3. Legal(vs[i].code, vs[i].value)
  BY DEF Written
<1> QED BY <1>2, <1>3, CodeFits DEF CodeIn

\* One more value.
LEMMA WrittenAppend ==
  ASSUME NEW vs, NEW es, NEW bs, NEW enc, Written(vs, es, bs, FALSE, enc),
         NEW c \in AllCodes, NEW v, Legal(c, v)
  PROVE  LET ds == bs \o CodeOf(c, v, enc)
         IN  Written(Append(vs, [code |-> c, value |-> v]), Append(es, Len(ds)), ds, FALSE,
                     IF c \in {"first", "diff"} THEN v ELSE enc)
<1> DEFINE item == [code |-> c, value |-> v]
           e == CodeOf(c, v, enc)
           ds == bs \o e
           n == Len(vs)
           us == Append(vs, item)
           fs == Append(es, Len(ds))
           old(i) == CodeIn(vs, i)
           new(i) == CodeIn(us, i)
<1>1. /\ vs \in Seq(Item) /\ es \in Seq(Nat) /\ bs \in Seq(Byte) /\ Len(es) = n
      /\ enc = Current(vs, n) /\ Len(bs) = EndIn(es, n) /\ n \in Nat
  BY DEF Written
<1>2. item \in Item /\ e \in Seq(Byte) /\ item.code = c /\ item.value = v
  BY LegalItem, CodeFits
<1> HIDE DEF item, e
<1>3. ds \in Seq(Byte) /\ Len(ds) = Len(bs) + Len(e) /\ Len(e) \in Nat /\ Len(bs) \in Nat
      /\ (\A k \in 1..Len(bs) : ds[k] = bs[k]) /\ \A k \in 1..Len(e) : ds[Len(bs) + k] = e[k]
  <2>1. bs \in Seq(Byte) /\ e \in Seq(Byte)
    BY <1>1, <1>2
  <2> QED BY <2>1
<1> HIDE DEF ds
<1>4. /\ us \in Seq(Item) /\ Len(us) = n + 1 /\ us[n + 1] = item /\ \A i \in 1..n : us[i] = vs[i]
      /\ fs \in Seq(Nat) /\ Len(fs) = n + 1 /\ fs[n + 1] = Len(ds) /\ \A i \in 1..n : fs[i] = es[i]
  BY <1>1, <1>2, <1>3
<1> HIDE DEF us, fs
<1>5. \A i \in 0..n : Current(us, i) = Current(vs, i) /\ EndIn(fs, i) = EndIn(es, i)
  <2> SUFFICES ASSUME NEW i \in 0..n
               PROVE  Current(us, i) = Current(vs, i) /\ EndIn(fs, i) = EndIn(es, i)
    OBVIOUS
  <2>1. i \in Nat /\ \A j \in 1..i : us[j] = vs[j]
    BY <1>1, <1>4
  <2>2. i # 0 => fs[i] = es[i]
    BY <1>4
  <2> QED BY <2>1, <2>2, CurrentSame DEF EndIn
<1>6. ASSUME NEW i \in 1..n
      PROVE  /\ Legal(us[i].code, us[i].value) /\ i - 1 \in 0..n
             /\ CodeIn(us, i) = CodeIn(vs, i)
             /\ us[i] = vs[i] /\ fs[i] = es[i]
             /\ EndIn(fs, i - 1) = EndIn(es, i - 1)
  <2>1. i - 1 \in 0..n
    BY <1>1
  <2>2. Legal(vs[i].code, vs[i].value)
    BY DEF Written
  <2> QED BY <1>4, <1>5, <2>1, <2>2 DEF CodeIn
<1>7. /\ CodeIn(us, n + 1) = e /\ EndIn(fs, n) = Len(bs) /\ EndIn(fs, n + 1) = Len(ds)
      /\ us[n + 1].code = c /\ us[n + 1].value = v
  <2>1. (n + 1) - 1 = n /\ n \in 0..n /\ n + 1 # 0
    BY <1>1
  <2>2. Current(us, (n + 1) - 1) = enc
    BY <1>1, <1>5, <2>1
  <2> QED BY <1>1, <1>2, <1>4, <1>5, <2>1, <2>2 DEF CodeIn, EndIn, e
<1>8. Current(us, n + 1) = IF c \in {"first", "diff"} THEN v ELSE enc
  <2>1. n + 1 \in Nat /\ n + 1 > 0 /\ (n + 1) - 1 = n /\ n \in 0..n
    BY <1>1
  <2>2. Current(us, n + 1) = IF us[n + 1].code \in {"first", "diff"} THEN us[n + 1].value
                             ELSE Current(us, (n + 1) - 1)
    BY <2>1, CurrentIs
  <2> QED BY <1>1, <1>5, <1>7, <2>1, <2>2
<1>9. ASSUME NEW i \in 1..(n + 1)
      PROVE  /\ Legal(us[i].code, us[i].value)
             /\ fs[i] = EndIn(fs, i - 1) + Len(new(i))
             /\ fs[i] <= EndIn(fs, n + 1)
             /\ \A k \in 1..Len(new(i)) :
                  EndIn(fs, i - 1) + k <= Len(ds) => ds[EndIn(fs, i - 1) + k] = new(i)[k]
  <2>1. CASE i = n + 1
    <3>1. new(i) = e /\ fs[i] = Len(ds) /\ EndIn(fs, i - 1) = Len(bs) /\ EndIn(fs, n + 1) = Len(ds)
      <4>1. (n + 1) - 1 = n
        BY <1>1
      <4> QED BY <1>4, <1>7, <2>1, <4>1
    <3>2. Legal(us[i].code, us[i].value)
      BY <1>7, <2>1
    <3> HIDE DEF new, n
    <3>3. Len(ds) \in Nat /\ Len(ds) = Len(bs) + Len(e) /\ Len(ds) <= Len(ds)
      BY <1>3
    <3>4. \A k \in 1..Len(new(i)) :
            EndIn(fs, i - 1) + k <= Len(ds) => ds[EndIn(fs, i - 1) + k] = new(i)[k]
      BY <1>3, <3>1
    <3> QED BY <3>1, <3>2, <3>3, <3>4
  <2>2. CASE i # n + 1
    <3>1. i \in 1..n
      BY <1>1, <2>2
    <3>2. /\ es[i] = EndIn(es, i - 1) + Len(old(i))
          /\ es[i] <= EndIn(es, n)
          /\ \A k \in 1..Len(old(i)) :
               EndIn(es, i - 1) + k <= Len(bs) => bs[EndIn(es, i - 1) + k] = old(i)[k]
      BY <3>1 DEF Written
    <3>3. new(i) = old(i) /\ fs[i] = es[i] /\ EndIn(fs, i - 1) = EndIn(es, i - 1)
          /\ Legal(us[i].code, us[i].value)
      BY <1>6, <3>1
    <3>4. EndIn(es, i - 1) \in Nat /\ es[i] \in Nat /\ Len(old(i)) \in Nat
      <4>0. i \in 1..Len(es) /\ (i - 1 # 0 => i - 1 \in 1..Len(es))
        BY <1>1, <3>1
      <4>1. es[i] \in Nat /\ (i - 1 # 0 => i - 1 \in 1..Len(es))
        BY <1>1, <4>0
      <4>2. EndIn(es, i - 1) \in Nat
        BY <1>1, <4>1 DEF EndIn
      <4>3. Len(old(i)) \in Nat
        <5>1. old(i) \in Seq(Byte)
          BY <3>1, WrittenItem
        <5> QED BY <5>1
      <4> QED BY <4>1, <4>2, <4>3
    <3> HIDE DEF old, new, n
    <3>5. \A k \in 1..Len(old(i)) :
            EndIn(es, i - 1) + k \in 1..Len(bs)
      <4>1. EndIn(es, i - 1) + Len(old(i)) <= Len(bs) /\ Len(bs) \in Nat
        BY <1>1, <1>3, <3>2
      <4> QED BY <3>4, <4>1
    <3>6. \A k \in 1..Len(old(i)) : ds[EndIn(es, i - 1) + k] = old(i)[k]
      <4> SUFFICES ASSUME NEW k \in 1..Len(old(i)) PROVE ds[EndIn(es, i - 1) + k] = old(i)[k]
        OBVIOUS
      <4>1. EndIn(es, i - 1) + k \in 1..Len(bs) /\ EndIn(es, i - 1) + k <= Len(bs)
        BY <1>3, <3>5
      <4> QED BY <1>3, <3>2, <4>1
    <3>7. fs[i] <= EndIn(fs, n + 1)
      <4>1. es[i] <= Len(bs) /\ EndIn(fs, n + 1) = Len(ds) /\ fs[i] = es[i]
        BY <1>1, <1>7, <3>2, <3>3
      <4>2. Len(ds) = Len(bs) + Len(e) /\ Len(e) \in Nat /\ Len(bs) \in Nat
        BY <1>3
      <4> HIDE DEF fs, ds
      <4> QED BY <3>4, <4>1, <4>2
    <3> QED BY <3>2, <3>3, <3>6, <3>7
  <2> QED BY <2>1, <2>2
<1>10. Written(us, fs, ds, FALSE, IF c \in {"first", "diff"} THEN v ELSE enc)
  <2>1. Len(ds) = EndIn(fs, n + 1)
    BY <1>7
  <2> QED BY <1>3, <1>4, <1>8, <1>9, <2>1 DEF Written
<1> QED BY <1>10 DEF us, fs, ds, item, e

\* The stream loses its end.
LEMMA WrittenCut ==
  ASSUME NEW vs, NEW es, NEW bs, NEW enc, Written(vs, es, bs, FALSE, enc), NEW n \in 1..Len(bs)
  PROVE  Written(vs, es, SubSeq(bs, 1, Len(bs) - n), TRUE, enc)
<1> DEFINE ds == SubSeq(bs, 1, Len(bs) - n)
<1>1. bs \in Seq(Byte) /\ es \in Seq(Nat) /\ Len(es) = Len(vs)
  BY DEF Written
<1>2. /\ ds \in Seq(Byte) /\ Len(ds) = Len(bs) - n /\ Len(bs) \in Nat
      /\ \A k \in 1..(Len(bs) - n) : ds[k] = bs[k]
  BY <1>1
<1> HIDE DEF ds
<1>3. ASSUME NEW i \in 1..Len(vs), NEW k \in 1..Len(CodeIn(vs, i)),
             EndIn(es, i - 1) + k <= Len(ds)
      PROVE  ds[EndIn(es, i - 1) + k] = CodeIn(vs, i)[k]
  <2>1. EndIn(es, i - 1) \in Nat
    <3>1. i - 1 = 0 \/ i - 1 \in 1..Len(es)
      BY <1>1
    <3> QED BY <1>1, <3>1 DEF EndIn
  <2>2. EndIn(es, i - 1) + k <= Len(bs) /\ EndIn(es, i - 1) + k \in 1..(Len(bs) - n)
    BY <1>2, <1>3, <2>1
  <2>3. bs[EndIn(es, i - 1) + k] = CodeIn(vs, i)[k]
    BY <2>2 DEF Written
  <2> QED BY <1>2, <2>2, <2>3
<1> QED BY <1>2, <1>3 DEF Written, ds

\* What is left of the stream where a value ends starts with the next one.
LEMMA LeftStarts ==
  ASSUME NEW vs, NEW es, NEW bs, NEW ct, NEW enc, Written(vs, es, bs, ct, enc),
         NEW i \in 0..(Len(vs) - 1), EndIn(es, i) <= Len(bs)
  PROVE  LET b == SubSeq(bs, EndIn(es, i) + 1, Len(bs))
         IN  /\ b \in Seq(Byte) /\ Len(b) = Len(bs) - EndIn(es, i)
             /\ EndIn(es, i) \in Nat
             /\ Starts(b, CodeIn(vs, i + 1))
<1> DEFINE at == EndIn(es, i)
           b == SubSeq(bs, at + 1, Len(bs))
           e == CodeIn(vs, i + 1)
<1>1. bs \in Seq(Byte) /\ es \in Seq(Nat) /\ vs \in Seq(Item) /\ Len(es) = Len(vs)
  BY DEF Written
<1>2. at \in Nat
  <2>1. i = 0 \/ i \in 1..Len(es)
    BY <1>1
  <2> QED BY <1>1, <2>1 DEF EndIn
<1>3. i + 1 \in 1..Len(vs) /\ (i + 1) - 1 = i
  <2>1. Len(vs) \in Nat
    BY <1>1
  <2> QED BY <2>1
<1>4. \A k \in 1..Len(e) : at + k <= Len(bs) => bs[at + k] = e[k]
  BY <1>3 DEF Written
<1>6. e \in Seq(Byte)
  BY <1>3, WrittenItem
<1> HIDE DEF at, e
<1>7. /\ b \in Seq(Byte) /\ Len(b) = Len(bs) - at /\ Len(bs) \in Nat /\ Len(e) \in Nat
      /\ \A k \in 1..(Len(bs) - at) : b[k] = bs[at + k]
  <2>1. at <= Len(bs)
    BY DEF at
  <2> QED BY <1>1, <1>2, <1>6, <2>1
<1> HIDE DEF b
<1>8. Starts(b, e)
  <2> SUFFICES ASSUME NEW k \in 1..Len(e), k <= Len(b) PROVE b[k] = e[k]
    BY DEF Starts
  <2>1. k \in 1..(Len(bs) - at) /\ at + k <= Len(bs)
    BY <1>2, <1>7
  <2> QED BY <1>4, <1>7, <2>1
<1> QED BY <1>2, <1>7, <1>8 DEF at, b, e

\* Where the values end.
LEMMA WrittenEnds ==
  ASSUME NEW vs, NEW es, NEW bs, NEW ct, NEW enc, Written(vs, es, bs, ct, enc),
         NEW i \in 1..Len(vs)
  PROVE  /\ es[i] \in Nat /\ EndIn(es, i) = es[i] /\ EndIn(es, i - 1) \in Nat
         /\ Len(CodeIn(vs, i)) \in Nat /\ es[i] = EndIn(es, i - 1) + Len(CodeIn(vs, i))
         /\ ~ct => es[i] <= Len(bs)
<1>1. es \in Seq(Nat) /\ Len(es) = Len(vs) /\ (~ct => Len(bs) = EndIn(es, Len(vs)))
  BY DEF Written
<1>2. es[i] = EndIn(es, i - 1) + Len(CodeIn(vs, i)) /\ es[i] <= EndIn(es, Len(vs))
  BY DEF Written
<1>3. i \in 1..Len(es) /\ i # 0 /\ (i - 1 = 0 \/ i - 1 \in 1..Len(es))
  BY <1>1
<1>4. es[i] \in Nat
  BY <1>1, <1>3
<1>5. EndIn(es, i - 1) \in Nat
  BY <1>1, <1>3 DEF EndIn
<1>6. Len(CodeIn(vs, i)) \in Nat
  <2>1. CodeIn(vs, i) \in Seq(Byte)
    BY WrittenItem
  <2> QED BY <2>1
<1> QED BY <1>1, <1>2, <1>3, <1>4, <1>5, <1>6 DEF EndIn

\* Backwards, one value of a stream of groups.
LEMMA BackStep ==
  ASSUME NEW vs, NEW es, NEW bs, NEW enc, Written(vs, es, bs, FALSE, enc),
         NEW k \in 1..Len(vs), \A i \in 1..Len(vs) : vs[i].code \in GroupCodes,
         Groups(Carrier(vs[k].code, vs[k].value)) <= 9
  PROVE  ReverseGet(SubSeq(bs, 1, EndIn(es, k)), Width(vs[k].code))
           = Loaded(Carrier(vs[k].code, vs[k].value), EndIn(es, k) - EndIn(es, k - 1), "none")
<1> DEFINE c == vs[k].code
           x == Carrier(c, vs[k].value)
           w == Width(c)
           e == CodeIn(vs, k)
           m == Len(e)
           b == SubSeq(bs, 1, es[k])
           at == EndIn(es, k - 1)
<1>1. bs \in Seq(Byte)
  BY DEF Written
<1>2. /\ es[k] \in Nat /\ EndIn(es, k) = es[k] /\ at \in Nat /\ m \in Nat
      /\ es[k] = at + m /\ es[k] <= Len(bs)
  BY WrittenEnds
<1>3. /\ e = SaveGroups(x) /\ x \in SUBSET (0..(w - 1)) /\ w \in {32, 64} /\ w \in Nat /\ w > 0
  <2>1. c \in AllCodes /\ Legal(c, vs[k].value) /\ c \in GroupCodes
    BY WrittenItem
  <2>2. e = SaveGroups(x) /\ x \in SUBSET (0..(w - 1))
    BY <2>1, GroupCodeIs DEF CodeIn
  <2>3. w \in {32, 64}
    BY <2>1, CodeKinds
  <2> QED BY <2>2, <2>3
<1>4. m = Groups(x) /\ m <= 9
  <2>1. Len(SaveGroups(x)) = Groups(x)
    BY <1>3, GroupsIs
  <2> QED BY <1>3, <2>1
<1>5. \A i \in 1..m : at + i <= Len(bs) => bs[at + i] = e[i]
  BY DEF Written
<1> HIDE DEF e, m, at
<1>6. b \in Seq(Byte) /\ Len(b) = es[k] /\ \A i \in 1..es[k] : b[i] = bs[i]
  BY <1>1, <1>2
<1>7. \A i \in 1..m : b[(Len(b) - m) + i] = e[i]
  <2> SUFFICES ASSUME NEW i \in 1..m PROVE b[(Len(b) - m) + i] = e[i]
    OBVIOUS
  <2> HIDE DEF b
  <2>1. (Len(b) - m) + i = at + i /\ at + i \in 1..es[k] /\ at + i <= Len(bs)
    <3>1. Len(b) = at + m
      BY <1>2, <1>6
    <3>2. Len(bs) \in Nat
      BY <1>1
    <3> QED BY <1>2, <3>1, <3>2
  <2> QED BY <1>5, <1>6, <2>1
<1>8. ASSUME Len(b) > m PROVE 7 \notin b[Len(b) - m]
  <2> HIDE DEF b
  <2>1. at > 0 /\ Len(b) - m = at /\ at \in 1..es[k]
    BY <1>2, <1>6, <1>8
  <2>2. k - 1 \in 1..Len(vs) /\ k - 1 # 0
    <3>1. k # 1
      BY <2>1 DEF at, EndIn
    <3> QED BY <3>1
  <2> DEFINE j == k - 1
             f == CodeIn(vs, j)
             y == Carrier(vs[j].code, vs[j].value)
             u == Width(vs[j].code)
  <2>3. /\ es[j] \in Nat /\ EndIn(es, j) = es[j] /\ EndIn(es, j - 1) \in Nat
        /\ Len(f) \in Nat /\ es[j] = EndIn(es, j - 1) + Len(f)
        /\ \A i \in 1..Len(f) : EndIn(es, j - 1) + i <= Len(bs) => bs[EndIn(es, j - 1) + i] = f[i]
    <3> HIDE DEF j
    <3>1. j \in 1..Len(vs)
      BY <2>2 DEF j
    <3>2. \A i \in 1..Len(f) : EndIn(es, j - 1) + i <= Len(bs) => bs[EndIn(es, j - 1) + i] = f[i]
      BY <3>1 DEF Written
    <3>3. /\ es[j] \in Nat /\ EndIn(es, j) = es[j] /\ EndIn(es, j - 1) \in Nat
          /\ Len(f) \in Nat /\ es[j] = EndIn(es, j - 1) + Len(f)
      BY <3>1, WrittenEnds
    <3> HIDE DEF f
    <3> QED BY <3>2, <3>3
  <2>4. f = SaveGroups(y) /\ y \in SUBSET (0..(u - 1)) /\ u \in Nat /\ u > 0
    <3> HIDE DEF j
    <3>1. vs[j].code \in AllCodes /\ Legal(vs[j].code, vs[j].value) /\ vs[j].code \in GroupCodes
      BY <2>2, WrittenItem DEF j
    <3>2. f = SaveGroups(y) /\ y \in SUBSET (0..(u - 1))
      BY <3>1, GroupCodeIs DEF CodeIn
    <3>3. u \in {32, 64}
      BY <3>1, CodeKinds
    <3> QED BY <3>2, <3>3
  <2>5. Len(f) >= 1 /\ 7 \notin f[Len(f)]
    <3> HIDE DEF f, y, u
    <3>1. /\ Len(SaveGroups(y)) \in Nat /\ Len(SaveGroups(y)) >= 1
          /\ \A i \in 1..Len(SaveGroups(y)) : 7 \in SaveGroups(y)[i] <=> i < Len(SaveGroups(y))
      BY <2>4, GroupsIs
    <3>2. Len(f) \in Nat /\ Len(f) >= 1 /\ \A i \in 1..Len(f) : 7 \in f[i] <=> i < Len(f)
      BY <2>4, <3>1
    <3>3. Len(f) \in 1..Len(f) /\ ~(Len(f) < Len(f))
      BY <3>2
    <3> QED BY <3>2, <3>3
  <2>6. bs[at] = f[Len(f)]
    <3>1. at = es[j]
      BY <2>3 DEF at
    <3> HIDE DEF f, j
    <3>2. Len(f) \in 1..Len(f) /\ EndIn(es, j - 1) + Len(f) = at /\ at <= Len(bs)
      <4>1. Len(bs) \in Nat
        BY <1>1
      <4> QED BY <1>2, <2>1, <2>3, <2>5, <3>1, <4>1
    <3> QED BY <2>3, <3>2
  <2>7. b[Len(b) - m] = bs[at]
    BY <1>6, <2>1
  <2> QED BY <2>5, <2>6, <2>7
<1>9. m <= Len(b)
  BY <1>2, <1>6
<1>10. ReverseGet(b, w) = Loaded(x, m, "none")
  <2> HIDE DEF b, w, x, c
  <2>1. m = Len(SaveGroups(x)) /\ Len(SaveGroups(x)) <= 9
    BY <1>3, <1>4 DEF m
  <2>2. EndsWith(b, SaveGroups(x))
    BY <1>3, <1>7, <1>8, <1>9, <2>1 DEF EndsWith
  <2>3. w \in {32, 64} /\ x \in SUBSET (0..(w - 1)) /\ b \in Seq(Byte)
    BY <1>3, <1>6
  <2>4. ReverseGet(b, w) = Loaded(x, Len(SaveGroups(x)), "none")
    BY <2>1, <2>2, <2>3, ReverseGetOK
  <2> QED BY <2>1, <2>4
<1>11. EndIn(es, k) - at = m
  BY <1>2
<1> QED BY <1>2, <1>10, <1>11 DEF at

(***************************************************************************)
(* The stream of the specification.                                        *)
(***************************************************************************)
Stream == Written(values, ends, bytes, cut, encCur)

\* Where the values end, in the words of the specification.
LEMMA EndOfIs ==
  ASSUME NEW n
  PROVE  EndOf(n) = EndIn(ends, n)
BY DEF EndOf, EndIn

\* Nothing is written yet.
LEMMA InitStream ==
  ASSUME Init
  PROVE  Stream
<1>1. Current(<<>>, 0) = {}
  <2>1. 1..0 = {}
    OBVIOUS
  <2> QED BY <2>1 DEF Current
<1>2. /\ values = <<>> /\ ends = <<>> /\ bytes = <<>> /\ cut = FALSE /\ encCur = {}
  BY DEF Init
<1>3. <<>> \in Seq(Item) /\ <<>> \in Seq(Nat) /\ <<>> \in Seq(Byte) /\ Len(<<>>) = 0
  OBVIOUS
<1>4. 1..0 = {} /\ EndIn(<<>>, 0) = 0
  BY DEF EndIn
<1> QED BY <1>1, <1>2, <1>3, <1>4 DEF Written, Stream

\* One more value, in the words of the specification.
LEMMA WriteStream ==
  ASSUME Stream, NEW c \in Codes, NEW v \in Values(c), Write(c, v)
  PROVE  /\ Stream' /\ ~cut
         /\ c \in AllCodes /\ Legal(c, v)
         /\ Len(values') = Len(values) + 1 /\ Len(values) \in Nat
         /\ \A i \in 1..Len(values) : values'[i] = values[i]
         /\ \A i \in 0..Len(values) :
              /\ EndIn(ends', i) = EndIn(ends, i)
              /\ Current(values', i) = Current(values, i)
<1> DEFINE item == [code |-> c, value |-> v]
           e == CodeOf(c, v, encCur)
<1>1. c \in AllCodes /\ Legal(c, v)
  BY ValuesLegal
<1>2. Encode(c, v) = e
  BY DEF Encode, CodeOf, Difference
<1>3. /\ ~cut /\ values' = Append(values, item) /\ bytes' = bytes \o e
      /\ ends' = Append(ends, Len(bytes \o e)) /\ cut' = cut
      /\ encCur' = IF c \in {"first", "diff"} THEN v ELSE encCur
  BY <1>2 DEF Write
<1>4. cut = FALSE /\ values \in Seq(Item) /\ ends \in Seq(Nat) /\ bytes \in Seq(Byte)
      /\ Len(ends) = Len(values)
  BY <1>3 DEF Stream, Written
<1>5. Written(values, ends, bytes, FALSE, encCur)
  BY <1>4 DEF Stream
<1>6. Written(Append(values, item), Append(ends, Len(bytes \o e)), bytes \o e, FALSE,
              IF c \in {"first", "diff"} THEN v ELSE encCur)
  BY <1>1, <1>5, WrittenAppend
<1>7. Stream'
  <2>1. Written(values', ends', bytes', cut', encCur')
    <3> HIDE DEF item, e
    <3> QED BY <1>3, <1>4, <1>6
  <2> QED BY <2>1 DEF Stream
<1>8. item \in Item /\ e \in Seq(Byte)
  BY <1>1, LegalItem, CodeFits
<1> HIDE DEF item, e
<1>9. /\ Len(values') = Len(values) + 1 /\ Len(values) \in Nat
      /\ \A i \in 1..Len(values) : values'[i] = values[i]
  BY <1>3, <1>4, <1>8
<1>10. \A i \in 1..Len(values) : ends'[i] = ends[i]
  <2>1. bytes \o e \in Seq(Byte)
    BY <1>4, <1>8
  <2>2. Len(bytes \o e) \in Nat
    BY <2>1
  <2> QED BY <1>3, <1>4, <2>2
<1>11. ASSUME NEW i \in 0..Len(values)
       PROVE  EndIn(ends', i) = EndIn(ends, i) /\ Current(values', i) = Current(values, i)
  <2>1. i \in Nat /\ \A j \in 1..i : values'[j] = values[j]
    BY <1>9
  <2>2. Current(values', i) = Current(values, i)
    BY <2>1, CurrentSame
  <2>3. i # 0 => i \in 1..Len(values)
    BY <1>9
  <2> QED BY <1>10, <2>2, <2>3 DEF EndIn
<1> QED BY <1>1, <1>3, <1>7, <1>9, <1>11

\* No step but Write and Cut touches the stream, and neither spoils it.
LEMMA StepStream ==
  ASSUME Stream, [Next]_vars
  PROVE  Stream'
<1>1. ASSUME NEW c \in Codes, NEW v \in Values(c), Write(c, v) PROVE Stream'
  BY <1>1, WriteStream
<1>2. ASSUME NEW n \in 1..Len(bytes), Cut(n) PROVE Stream'
  <2>1. /\ ~cut /\ cut' = TRUE /\ bytes' = SubSeq(bytes, 1, Len(bytes) - n)
        /\ values' = values /\ ends' = ends /\ encCur' = encCur
    BY <1>2 DEF Cut
  <2>2. Written(values, ends, bytes, FALSE, encCur)
    <3>1. cut = FALSE
      BY <2>1 DEF Stream, Written
    <3> QED BY <3>1 DEF Stream
  <2>3. Written(values, ends, SubSeq(bytes, 1, Len(bytes) - n), TRUE, encCur)
    BY <2>2, WrittenCut
  <2>4. Written(values', ends', bytes', cut', encCur')
    BY <2>1, <2>3
  <2> QED BY <2>4 DEF Stream
<1>3. ASSUME UNCHANGED <<values, ends, bytes, cut, encCur>> PROVE Stream'
  BY <1>3 DEF Stream
<1>4. ASSUME NEW fast \in BOOLEAN, Read(fast) PROVE Stream'
  <2>1. UNCHANGED <<values, ends, bytes, cut, encCur>>
    BY <1>4 DEF Read
  <2> QED BY <1>3, <2>1
<1>5. ASSUME ReadBack PROVE Stream'
  <2>1. UNCHANGED <<values, ends, bytes, cut, encCur>>
    BY <1>5 DEF ReadBack
  <2> QED BY <1>3, <2>1
<1>6. ASSUME UNCHANGED vars PROVE Stream'
  BY <1>3, <1>6 DEF vars
<1> QED BY <1>1, <1>2, <1>4, <1>5, <1>6 DEF Next

\* The stream always holds what was written, up to where it was cut.
THEOREM StreamAlways == Spec => []Stream
<1>1. Init => Stream
  BY InitStream
<1>2. Stream /\ [Next]_vars => Stream'
  BY StepStream
<1> QED BY <1>1, <1>2, PTL DEF Spec

\* What the fast path of the writer writes is in the room that it asked for.
THEOREM FitsRoomAlways == Spec => []FitsRoom
<1>1. Stream => FitsRoom
  <2> SUFFICES ASSUME Stream, NEW i \in 1..Len(values), values[i].code # "string"
               PROVE  ends[i] - EndOf(i - 1) <= RoomToWrite(values[i].code)
    BY DEF FitsRoom
  <2>1. Written(values, ends, bytes, cut, encCur)
    BY DEF Stream
  <2>2. /\ ends[i] \in Nat /\ EndIn(ends, i - 1) \in Nat /\ Len(CodeIn(values, i)) \in Nat
        /\ ends[i] = EndIn(ends, i - 1) + Len(CodeIn(values, i))
    BY <2>1, WrittenEnds
  <2>3. values[i].code \in AllCodes /\ Legal(values[i].code, values[i].value)
    BY <2>1, WrittenItem
  <2>4. Len(CodeIn(values, i)) <= RoomToWrite(values[i].code)
    BY <2>3, CodeFits DEF CodeIn
  <2>5. EndOf(i - 1) = EndIn(ends, i - 1)
    BY EndOfIs
  <2>6. ends[i] - EndIn(ends, i - 1) = Len(CodeIn(values, i))
    BY <2>2
  <2> QED BY <2>4, <2>5, <2>6
<1> QED BY <1>1, StreamAlways, PTL

(***************************************************************************)
(* The readers.                                                            *)
(***************************************************************************)
Value == (SUBSET (0..63)) \cup Seq(Byte)

\* What any reader keeps: it stands where a value ends, with the m_cur of the
\* encoder there, and what it has read wrongly are values with a prefix.
InStep ==
  /\ (\E S : got \in Seq(S)) /\ Len(got) <= Len(values)
  /\ decCur = Current(values, Len(got))
  /\ err = "none" => rpos = EndIn(ends, Len(got)) /\ rpos <= Len(bytes)
  /\ err # "none" => /\ err = "eof" /\ cut
                     /\ Len(got) < Len(values) /\ Len(bytes) < ends[Len(got) + 1]
  /\ \A i \in 1..Len(got) : values[i].code \notin PrefixCodes => got[i] = values[i].value

\* What careful readers keep besides.
ReaderOK ==
  /\ got \in Seq(Value)
  /\ \A i \in 1..Len(got) : got[i] = values[i].value

BackOK ==
  /\ gotBack \in Seq(Value) /\ Len(gotBack) <= Len(values)
  /\ ~cut => cur = EndIn(ends, Len(values) - Len(gotBack))
  /\ \A i \in 1..Len(gotBack) : gotBack[i] = values[(Len(values) + 1) - i].value

IInv == Stream /\ InStep /\ ReaderOK /\ BackOK

\* The reader that goes on stands where a value ends.
LEMMA ReaderStands ==
  ASSUME Stream, InStep, err = "none"
  PROVE  /\ rpos = EndIn(ends, Len(got)) /\ rpos \in Nat /\ rpos <= Len(bytes)
         /\ Len(got) \in 0..Len(values) /\ Len(values) \in Nat /\ Len(bytes) \in Nat
<1>1. /\ rpos = EndIn(ends, Len(got)) /\ rpos <= Len(bytes)
      /\ Len(got) \in Nat /\ Len(got) <= Len(values)
  BY DEF InStep
<1>2. values \in Seq(Item) /\ bytes \in Seq(Byte) /\ Written(values, ends, bytes, cut, encCur)
  BY DEF Stream, Written
<1>3. Len(got) \in 0..Len(values) /\ Len(values) \in Nat /\ Len(bytes) \in Nat
  BY <1>1, <1>2
<1>4. Len(got) = 0 \/ Len(got) \in 1..Len(values)
  BY <1>3
<1>5. EndIn(ends, Len(got)) \in Nat
  <2>1. CASE Len(got) = 0
    BY <2>1 DEF EndIn
  <2>2. CASE Len(got) \in 1..Len(values)
    <3>1. ends[Len(got)] \in Nat /\ EndIn(ends, Len(got)) = ends[Len(got)]
      BY <1>2, <2>2, WrittenEnds
    <3> QED BY <3>1
  <2> QED BY <1>4, <2>1, <2>2
<1> QED BY <1>1, <1>3, <1>5

\* Nothing is read yet.
LEMMA InitReaders ==
  ASSUME Init
  PROVE  InStep /\ ReaderOK /\ BackOK
<1>1. Current(<<>>, 0) = {}
  <2>1. 1..0 = {}
    OBVIOUS
  <2> QED BY <2>1 DEF Current
<1>2. /\ values = <<>> /\ ends = <<>> /\ bytes = <<>> /\ cut = FALSE /\ decCur = {}
      /\ rpos = 0 /\ got = <<>> /\ err = "none" /\ cur = 0 /\ gotBack = <<>>
  BY DEF Init
<1>3. <<>> \in Seq(Value) /\ Len(<<>>) = 0 /\ 1..0 = {} /\ EndIn(<<>>, 0) = 0 /\ 0 - 0 = 0
  BY DEF EndIn
<1>4. ReaderOK
  BY <1>2, <1>3 DEF ReaderOK
<1>5. BackOK
  BY <1>2, <1>3 DEF BackOK
<1>6. InStep
  <2>1. \E S : got \in Seq(S)
    BY <1>2, <1>3
  <2> QED BY <1>1, <1>2, <1>3, <2>1 DEF InStep
<1> QED BY <1>4, <1>5, <1>6

\* The values that the readers expect stay where they are.
LEMMA WriteInStep ==
  ASSUME Stream, InStep, NEW c \in Codes, NEW v \in Values(c), Write(c, v)
  PROVE  InStep'
<1>1. /\ Stream' /\ ~cut
      /\ Len(values') = Len(values) + 1 /\ Len(values) \in Nat
      /\ \A i \in 1..Len(values) : values'[i] = values[i]
      /\ \A i \in 0..Len(values) : /\ EndIn(ends', i) = EndIn(ends, i)
                                   /\ Current(values', i) = Current(values, i)
  BY WriteStream
<1>2. /\ err = "none" /\ decCur' = decCur /\ rpos' = rpos /\ got' = got /\ err' = err
      /\ ~(rpos > 0)
  BY DEF Write, Reading
<1>3. /\ (\E S : got \in Seq(S)) /\ Len(got) \in Nat /\ Len(got) <= Len(values)
      /\ decCur = Current(values, Len(got)) /\ rpos = EndIn(ends, Len(got))
      /\ \A i \in 1..Len(got) : values[i].code \notin PrefixCodes => got[i] = values[i].value
  BY <1>2 DEF InStep
<1>4. Len(got) \in 0..Len(values) /\ \A i \in 1..Len(got) : i \in 1..Len(values)
  BY <1>1, <1>3
<1>5. Len(got') <= Len(values') /\ \E S : got' \in Seq(S)
  BY <1>1, <1>2, <1>3
<1>6. decCur' = Current(values', Len(got'))
  BY <1>1, <1>2, <1>3, <1>4
<1>7. rpos' = EndIn(ends', Len(got')) /\ rpos' <= Len(bytes')
  <2>1. Len(bytes') \in Nat
    <3>1. bytes' \in Seq(Byte)
      BY <1>1 DEF Stream, Written
    <3> QED BY <3>1
  <2>2. rpos \in Nat
    BY <1>2, ReaderStands
  <2>3. rpos <= Len(bytes')
    BY <1>2, <2>1, <2>2
  <2> QED BY <1>1, <1>2, <1>3, <1>4, <2>3
<1>8. \A i \in 1..Len(got') : values'[i].code \notin PrefixCodes => got'[i] = values'[i].value
  BY <1>1, <1>2, <1>3, <1>4
<1> QED BY <1>2, <1>5, <1>6, <1>7, <1>8 DEF InStep

LEMMA WriteReaders ==
  ASSUME IInv, NEW c \in Codes, NEW v \in Values(c), Write(c, v)
  PROVE  ReaderOK' /\ BackOK'
<1>1. /\ Stream' /\ ~cut
      /\ Len(values') = Len(values) + 1 /\ Len(values) \in Nat
      /\ \A i \in 1..Len(values) : values'[i] = values[i]
  BY WriteStream DEF IInv
<1>2. /\ gotBack = <<>> /\ got' = got /\ gotBack' = gotBack /\ cut' = cut /\ cur' = Len(bytes')
  BY DEF Write, Reading
<1>3. /\ got \in Seq(Value) /\ Len(got) <= Len(values)
      /\ \A i \in 1..Len(got) : got[i] = values[i].value
  BY DEF IInv, InStep, ReaderOK
<1>4. \A i \in 1..Len(got) : i \in 1..Len(values)
  BY <1>1, <1>3
<1>5. Len(bytes') = EndIn(ends', Len(values'))
  BY <1>1, <1>2 DEF Stream, Written
<1>6. ReaderOK'
  <2>1. \A i \in 1..Len(got') : got'[i] = values'[i].value
    BY <1>1, <1>2, <1>3, <1>4
  <2> QED BY <1>2, <1>3, <2>1 DEF ReaderOK
<1>7. BackOK'
  <2>1. gotBack' = <<>> /\ Len(<<>>) = 0 /\ 1..0 = {} /\ <<>> \in Seq(Value)
    BY <1>2
  <2>2. Len(values') - 0 = Len(values') /\ 0 <= Len(values')
    BY <1>1
  <2> QED BY <1>2, <1>5, <2>1, <2>2 DEF BackOK
<1> QED BY <1>6, <1>7

\* A stream is cut before anything is read.
LEMMA CutInStep ==
  ASSUME Stream, InStep, NEW n \in 1..Len(bytes), Cut(n)
  PROVE  InStep'
<1>1. /\ err = "none" /\ ~(rpos > 0) /\ bytes' = SubSeq(bytes, 1, Len(bytes) - n)
      /\ values' = values /\ ends' = ends /\ decCur' = decCur /\ rpos' = rpos /\ got' = got
      /\ err' = err
  BY DEF Cut, Reading
<1>2. Len(bytes') \in Nat
  <2>1. bytes \in Seq(Byte)
    BY DEF Stream, Written
  <2>2. Len(bytes) - n \in Nat
    BY <2>1
  <2>3. bytes' \in Seq(Byte)
    BY <1>1, <2>1, <2>2
  <2> QED BY <2>3
<1>3. rpos' <= Len(bytes')
  <2>1. rpos \in Nat
    BY <1>1, ReaderStands
  <2> QED BY <1>1, <1>2, <2>1
<1> QED BY <1>1, <1>3 DEF InStep

\* What a reader gets: the next value, or the exception where the stream was cut.
\* Only a value with a prefix that is read slowly may be another.
LEMMA ReadIs ==
  ASSUME Stream, InStep, NEW fast \in BOOLEAN, Read(fast)
  PROVE  LET k == Len(got)
             i == k + 1
             c == values[i].code
             v == values[i].value
             n == Len(CodeIn(values, i))
             g == Decode(c, Left, fast)
         IN  /\ k \in Nat /\ i \in 1..Len(values) /\ Len(values) \in Nat
             /\ c \in AllCodes /\ Legal(c, v)
             /\ rpos \in Nat /\ Len(bytes) \in Nat /\ n \in Nat
             /\ ends[i] = rpos + n /\ EndIn(ends, i) = ends[i]
             /\ IF rpos + n <= Len(bytes)
                THEN /\ g.exc = "none" /\ g.used = n
                     /\ c \notin PrefixCodes \/ Careful => g.value = v
                ELSE g.exc = "eof" /\ cut
             /\ Current(values, i) = IF c \in {"first", "diff"} THEN v ELSE decCur
<1> DEFINE k == Len(got)
           i == k + 1
           c == values[i].code
           v == values[i].value
           e == CodeIn(values, i)
           g == Decode(c, Left, fast)
<1>1. /\ err = "none" /\ k < Len(values)
      /\ IF fast THEN Len(Left) >= Room(c) ELSE Careful => MayReadSlowly(c)
  BY DEF Read
<1>2. /\ rpos = EndIn(ends, k) /\ rpos \in Nat /\ rpos <= Len(bytes)
      /\ k \in 0..Len(values) /\ Len(values) \in Nat /\ Len(bytes) \in Nat
  BY <1>1, ReaderStands
<1>3. decCur = Current(values, k)
  BY DEF InStep
<1>4. Written(values, ends, bytes, cut, encCur)
  BY DEF Stream
<1>5. i \in 1..Len(values) /\ i - 1 = k /\ k \in 0..(Len(values) - 1) /\ k \in Nat
  BY <1>1, <1>2
<1>6. /\ Left \in Seq(Byte) /\ Len(Left) = Len(bytes) - rpos /\ Starts(Left, e)
  BY <1>2, <1>4, <1>5, LeftStarts DEF Left
<1>7. c \in AllCodes /\ Legal(c, v) /\ e \in Seq(Byte)
  BY <1>4, <1>5, WrittenItem
<1>8. /\ EndIn(ends, i) = ends[i] /\ Len(e) \in Nat
      /\ ends[i] = rpos + Len(e) /\ (~cut => ends[i] <= Len(bytes))
  BY <1>2, <1>4, <1>5, WrittenEnds
<1>9. decCur \in SUBSET (0..31)
  <2>1. \A j \in 1..k : values[j].code \in AllCodes /\ Legal(values[j].code, values[j].value)
    <3>1. \A j \in 1..k : j \in 1..Len(values)
      BY <1>2
    <3> QED BY <1>4, <3>1, WrittenItem
  <2> QED BY <1>3, <1>5, <2>1, CurrentWord
<1>10. e = CodeOf(c, v, decCur)
  BY <1>3, <1>5 DEF CodeIn
<1>11. IF Len(Left) >= Len(e)
       THEN /\ g.exc = "none" /\ g.used = Len(e)
            /\ c \notin PrefixCodes \/ Careful => g.value = v
       ELSE g.exc = "eof"
  <2>1. fast => Len(Left) >= Room(c)
    BY <1>1
  <2>2. ASSUME Careful, ~fast, c \in PrefixCodes, Len(Left) >= Len(e)
        PROVE  PrefixLength(Left, Tag(c)) <= 2
    <3>1. Left # <<>>
      <4>1. Len(e) >= 1
        <5>1. <<Width(c), Tag(c)>> \in PrefixShapes /\ Width(c) \in {32, 64}
          BY <1>7, <2>2, CodeKinds
        <5>2. /\ CodeOf(c, v, decCur) = SavePrefix(Carrier(c, v), Tag(c), Width(c))
              /\ Carrier(c, v) \in SUBSET (0..(Width(c) - Tag(c) - 1))
          BY <1>7, <2>2, PrefixCodeIs
        <5> HIDE DEF c, v, e
        <5>3. Len(e) \in 1..(Width(c) \div 8)
          BY <1>10, <5>1, <5>2, PrefixIs
        <5> QED BY <5>1, <5>3
      <4> HIDE DEF e
      <4> QED BY <1>8, <2>2, <4>1
    <3> QED BY <1>1, <2>2, <3>1 DEF MayReadSlowly
  <2> HIDE DEF c, v, e, g
  <2>3. Starts(Left, CodeOf(c, v, decCur))
    BY <1>6, <1>10
  <2>4. IF Len(Left) >= Len(CodeOf(c, v, decCur))
        THEN /\ Decode(c, Left, fast).exc = "none"
             /\ Decode(c, Left, fast).used = Len(CodeOf(c, v, decCur))
             /\ (~fast /\ c \in PrefixCodes => PrefixLength(Left, Tag(c)) <= 2)
                  => Decode(c, Left, fast).value = v
        ELSE Decode(c, Left, fast).exc = "eof"
    BY <1>6, <1>7, <1>9, <2>1, <2>3, DecodeOK
  <2> QED BY <1>10, <2>2, <2>4 DEF g
<1>12. Current(values, i) = IF c \in {"first", "diff"} THEN v ELSE decCur
  <2>1. i \in Nat /\ i > 0
    BY <1>5
  <2>2. Current(values, i) = IF values[i].code \in {"first", "diff"} THEN values[i].value
                             ELSE Current(values, i - 1)
    BY <2>1, CurrentIs
  <2> QED BY <1>3, <1>5, <2>2
<1> HIDE DEF g, c, v
<1>13. Len(Left) >= Len(e) <=> rpos + Len(e) <= Len(bytes)
  <2> HIDE DEF e
  <2> QED BY <1>2, <1>6, <1>8
<1>14. cut \in BOOLEAN /\ (~cut => rpos + Len(e) <= Len(bytes))
  BY <1>4, <1>8 DEF Written
<1> QED BY <1>2, <1>5, <1>7, <1>8, <1>11, <1>12, <1>13, <1>14 DEF g, c, v

\* Whatever a reader makes of a value, it goes on where the value ends.
LEMMA ReadInStep ==
  ASSUME Stream, InStep, NEW fast \in BOOLEAN, Read(fast)
  PROVE  InStep'
<1> DEFINE k == Len(got)
           i == k + 1
           c == values[i].code
           v == values[i].value
           n == Len(CodeIn(values, i))
           g == Decode(c, Left, fast)
<1>1. /\ rpos' = rpos + g.used /\ err' = g.exc
      /\ got' = IF g.exc = "none" THEN Append(got, g.value) ELSE got
      /\ decCur' = IF g.exc = "none" /\ c \in {"first", "diff"} THEN g.value ELSE decCur
      /\ values' = values /\ ends' = ends /\ bytes' = bytes /\ cut' = cut
  BY DEF Read
<1>2. /\ k \in Nat /\ i \in 1..Len(values) /\ Len(values) \in Nat
      /\ c \in AllCodes
      /\ rpos \in Nat /\ Len(bytes) \in Nat /\ n \in Nat
      /\ ends[i] = rpos + n /\ EndIn(ends, i) = ends[i]
      /\ IF rpos + n <= Len(bytes)
         THEN /\ g.exc = "none" /\ g.used = n
              /\ c \notin PrefixCodes \/ Careful => g.value = v
         ELSE g.exc = "eof" /\ cut
      /\ Current(values, i) = IF c \in {"first", "diff"} THEN v ELSE decCur
  BY ReadIs
<1>3. /\ \A j \in 1..k : values[j].code \notin PrefixCodes => got[j] = values[j].value
      /\ decCur = Current(values, k)
  BY DEF InStep
<1>4. PICK S : got \in Seq(S)
  BY DEF InStep
<1>5. c \in {"first", "diff"} => c \notin PrefixCodes
  BY <1>2, CodeKinds
<1>6. CASE rpos + n <= Len(bytes)
  <2>1. g.exc = "none" /\ g.used = n /\ (c \notin PrefixCodes => g.value = v)
    BY <1>2, <1>6
  <2> DEFINE x == g.value
  <2>2. /\ err' = "none" /\ rpos' = rpos + n /\ got' = Append(got, x)
        /\ decCur' = IF c \in {"first", "diff"} THEN v ELSE decCur
    BY <1>1, <1>5, <2>1
  <2>3. c \notin PrefixCodes => x = v
    BY <2>1
  <2> HIDE DEF x, g, n
  <2>4. /\ got' \in Seq(S \cup {x}) /\ Len(got') = i /\ got'[i] = x
        /\ \A j \in 1..k : got'[j] = got[j]
    <3>1. got \in Seq(S \cup {x})
      BY <1>4
    <3> QED BY <2>2, <3>1
  <2>5. Len(got') <= Len(values') /\ \E T : got' \in Seq(T)
    <3> HIDE DEF i
    <3> QED BY <1>1, <1>2, <2>4
  <2>6. decCur' = Current(values', Len(got'))
    <3> HIDE DEF i, c, v
    <3> QED BY <1>1, <1>2, <2>2, <2>4
  <2>7. rpos' = EndIn(ends', Len(got')) /\ rpos' <= Len(bytes')
    <3> HIDE DEF i
    <3> QED BY <1>1, <1>2, <1>6, <2>2, <2>4
  <2>8. \A j \in 1..Len(got') : values'[j].code \notin PrefixCodes => got'[j] = values'[j].value
    <3>1. \A j \in 1..i : j = i \/ j \in 1..k
      BY <1>2
    <3>2. values'[i].code \notin PrefixCodes => got'[i] = values'[i].value
      BY <1>1, <2>3, <2>4
    <3>3. \A j \in 1..k : values'[j].code \notin PrefixCodes => got'[j] = values'[j].value
      BY <1>1, <1>3, <2>4
    <3> HIDE DEF i, k
    <3> QED BY <2>4, <3>1, <3>2, <3>3
  <2> QED BY <2>2, <2>5, <2>6, <2>7, <2>8 DEF InStep
<1>7. CASE ~(rpos + n <= Len(bytes))
  <2>1. g.exc = "eof" /\ g.exc # "none" /\ cut
    BY <1>2, <1>7
  <2>2. err' = "eof" /\ got' = got /\ decCur' = decCur /\ err' # "none"
    BY <1>1, <2>1
  <2>3. Len(bytes') < ends'[Len(got') + 1]
    <3> HIDE DEF n
    <3> QED BY <1>1, <1>2, <1>7, <2>2
  <2>4. Len(got') < Len(values') /\ Len(got') <= Len(values')
    BY <1>1, <1>2, <2>2
  <2> HIDE DEF g, n
  <2> QED BY <1>1, <1>3, <1>4, <2>1, <2>2, <2>3, <2>4 DEF InStep
<1> QED BY <1>6, <1>7

\* A reader that is careful gets the value that was written.
LEMMA ReadReaders ==
  ASSUME Careful, IInv, NEW fast \in BOOLEAN, Read(fast)
  PROVE  ReaderOK'
<1> DEFINE k == Len(got)
           i == k + 1
           c == values[i].code
           v == values[i].value
           n == Len(CodeIn(values, i))
           g == Decode(c, Left, fast)
<1>1. /\ got' = IF g.exc = "none" THEN Append(got, g.value) ELSE got
      /\ values' = values
  BY DEF Read
<1>2. /\ k \in Nat /\ i \in 1..Len(values) /\ c \in AllCodes /\ Legal(c, v)
      /\ g.exc = "none" => g.value = v
  <2>1. /\ k \in Nat /\ i \in 1..Len(values) /\ c \in AllCodes /\ Legal(c, v)
        /\ IF rpos + n <= Len(bytes)
           THEN /\ g.exc = "none" /\ g.used = n
                /\ c \notin PrefixCodes \/ Careful => g.value = v
           ELSE g.exc = "eof" /\ cut
    BY ReadIs DEF IInv
  <2> HIDE DEF g, c, v, n, i, k
  <2> QED BY <2>1
<1>3. got \in Seq(Value) /\ \A j \in 1..k : got[j] = values[j].value
  BY DEF IInv, ReaderOK
<1>4. v \in Value
  <2>1. [code |-> c, value |-> v] \in Item
    BY <1>2, LegalItem
  <2> QED BY <2>1 DEF Item, Value
<1>5. CASE g.exc = "none"
  <2>1. got' = Append(got, v)
    BY <1>1, <1>2, <1>5
  <2> HIDE DEF v
  <2>2. /\ got' \in Seq(Value) /\ Len(got') = i /\ got'[i] = v
        /\ \A j \in 1..k : got'[j] = got[j]
    BY <1>3, <1>4, <2>1
  <2>3. \A j \in 1..i : j = i \/ j \in 1..k
    BY <1>2
  <2>4. got'[i] = values'[i].value
    BY <1>1, <2>2 DEF v
  <2>5. \A j \in 1..k : got'[j] = values'[j].value
    BY <1>1, <1>3, <2>2
  <2> HIDE DEF i, k
  <2>6. \A j \in 1..Len(got') : got'[j] = values'[j].value
    BY <2>2, <2>3, <2>4, <2>5
  <2> QED BY <2>2, <2>6 DEF ReaderOK
<1>6. CASE g.exc # "none"
  <2>1. got' = got
    BY <1>1, <1>6
  <2> QED BY <1>1, <1>3, <2>1 DEF ReaderOK
<1> QED BY <1>5, <1>6

\* A careful reader that goes backwards gets the value before.
LEMMA BackReaders ==
  ASSUME Careful, IInv, ReadBack
  PROVE  BackOK'
<1> DEFINE n == Len(values)
           m == Len(gotBack)
           k == n - m
           c == values[k].code
           v == values[k].value
           x == Carrier(c, v)
           g == ReverseGet(SubSeq(bytes, 1, cur), Width(c))
<1>1. /\ ~cut /\ m < n /\ MayGoBack
      /\ cur' = cur - g.used /\ gotBack' = Append(gotBack, Original(c, g.value))
      /\ values' = values /\ ends' = ends /\ cut' = cut
  BY DEF ReadBack
<1>2. /\ gotBack \in Seq(Value) /\ cur = EndIn(ends, k)
      /\ \A i \in 1..m : gotBack[i] = values[(n + 1) - i].value
  BY <1>1 DEF IInv, BackOK
<1>3. Written(values, ends, bytes, FALSE, encCur) /\ values \in Seq(Item)
  <2>1. Written(values, ends, bytes, cut, encCur)
    BY DEF IInv, Stream
  <2>2. cut = FALSE /\ values \in Seq(Item)
    BY <1>1, <2>1 DEF Written
  <2> QED BY <2>1, <2>2
<1>4. k \in 1..n /\ m \in Nat /\ n \in Nat
  BY <1>1, <1>2, <1>3
<1>5. (\A i \in 1..n : values[i].code \in GroupCodes) /\ Groups(x) <= 9
  BY <1>1, <1>4 DEF MayGoBack
<1>6. g = Loaded(x, EndIn(ends, k) - EndIn(ends, k - 1), "none")
  <2> HIDE DEF k
  <2> QED BY <1>2, <1>3, <1>4, <1>5, BackStep
<1>7. c \in AllCodes /\ Legal(c, v) /\ c \in GroupCodes
  <2> HIDE DEF k
  <2> QED BY <1>3, <1>4, <1>5, WrittenItem
<1>8. Original(c, x) = v /\ v \in Value
  <2> HIDE DEF c, v
  <2>1. v \in SUBSET (0..(Width(c) - 1))
    BY <1>7, GroupCodeIs
  <2>2. [code |-> c, value |-> v] \in Item
    BY <1>7, LegalItem
  <2> QED BY <1>7, <2>1, <2>2, CarrierOK DEF Item, Value
<1>9. EndIn(ends, k) \in Nat /\ EndIn(ends, k - 1) \in Nat
  <2> HIDE DEF k
  <2> QED BY <1>3, <1>4, WrittenEnds
<1>10. g.used = EndIn(ends, k) - EndIn(ends, k - 1) /\ g.value = x
  <2> HIDE DEF x, k, g
  <2> QED BY <1>6 DEF Loaded
<1> HIDE DEF g, x, v
<1>11. cur' = EndIn(ends, k - 1) /\ gotBack' = Append(gotBack, v)
  <2> HIDE DEF k
  <2> QED BY <1>1, <1>2, <1>8, <1>9, <1>10
<1>12. /\ gotBack' \in Seq(Value) /\ Len(gotBack') = m + 1 /\ gotBack'[m + 1] = v
       /\ \A i \in 1..m : gotBack'[i] = gotBack[i]
  BY <1>2, <1>8, <1>11
<1>13. n - (m + 1) = k - 1 /\ (n + 1) - (m + 1) = k /\ m + 1 <= n
  BY <1>4
<1>14. \A i \in 1..(m + 1) : gotBack'[i] = values[(n + 1) - i].value
  <2> SUFFICES ASSUME NEW i \in 1..(m + 1) PROVE gotBack'[i] = values[(n + 1) - i].value
    OBVIOUS
  <2>1. CASE i = m + 1
    <3>1. gotBack'[i] = v /\ (n + 1) - i = k
      BY <1>12, <1>13, <2>1
    <3> QED BY <3>1 DEF v
  <2>2. CASE i # m + 1
    <3>1. i \in 1..m
      BY <1>4, <2>2
    <3> QED BY <1>2, <1>12, <3>1
  <2> QED BY <2>1, <2>2
<1>15. gotBack' \in Seq(Value) /\ Len(gotBack') <= Len(values')
  BY <1>1, <1>12, <1>13
<1>16. cur' = EndIn(ends', Len(values') - Len(gotBack'))
  BY <1>1, <1>11, <1>12, <1>13
<1>17. \A i \in 1..Len(gotBack') : gotBack'[i] = values'[(Len(values') + 1) - i].value
  BY <1>1, <1>12, <1>14
<1> QED BY <1>15, <1>16, <1>17 DEF BackOK

\* Every step of every reader and writer keeps them in step.
LEMMA StepInStep ==
  ASSUME Stream, InStep, [Next]_vars
  PROVE  InStep'
<1>1. ASSUME NEW c \in Codes, NEW v \in Values(c), Write(c, v) PROVE InStep'
  BY <1>1, WriteInStep
<1>2. ASSUME NEW n \in 1..Len(bytes), Cut(n) PROVE InStep'
  BY <1>2, CutInStep
<1>3. ASSUME NEW fast \in BOOLEAN, Read(fast) PROVE InStep'
  BY <1>3, ReadInStep
<1>4. ASSUME ReadBack PROVE InStep'
  <2>1. /\ values' = values /\ ends' = ends /\ bytes' = bytes /\ cut' = cut
        /\ decCur' = decCur /\ rpos' = rpos /\ got' = got /\ err' = err
    BY <1>4 DEF ReadBack
  <2> QED BY <2>1 DEF InStep
<1>5. ASSUME UNCHANGED vars PROVE InStep'
  BY <1>5 DEF vars, InStep
<1> QED BY <1>1, <1>2, <1>3, <1>4, <1>5 DEF Next

\* Every step of careful readers keeps all of it.
LEMMA StepIInv ==
  ASSUME Careful, IInv, [Next]_vars
  PROVE  IInv'
<1>1. Stream' /\ InStep'
  BY StepStream, StepInStep DEF IInv
<1>2. ASSUME NEW c \in Codes, NEW v \in Values(c), Write(c, v) PROVE ReaderOK' /\ BackOK'
  BY <1>2, WriteReaders
<1>3. ASSUME NEW n \in 1..Len(bytes), Cut(n) PROVE ReaderOK' /\ BackOK'
  <2>1. values' = values /\ got' = got /\ gotBack' = gotBack /\ cut' = TRUE
    BY <1>3 DEF Cut
  <2> QED BY <2>1 DEF IInv, ReaderOK, BackOK
<1>4. ASSUME NEW fast \in BOOLEAN, Read(fast) PROVE ReaderOK' /\ BackOK'
  <2>1. ReaderOK'
    BY <1>4, ReadReaders
  <2>2. values' = values /\ ends' = ends /\ cut' = cut /\ cur' = cur /\ gotBack' = gotBack
    BY <1>4 DEF Read
  <2> QED BY <2>1, <2>2 DEF IInv, BackOK
<1>5. ASSUME ReadBack PROVE ReaderOK' /\ BackOK'
  <2>1. BackOK'
    BY <1>5, BackReaders
  <2>2. values' = values /\ got' = got
    BY <1>5 DEF ReadBack
  <2> QED BY <2>1, <2>2 DEF IInv, ReaderOK
<1>6. ASSUME UNCHANGED vars PROVE ReaderOK' /\ BackOK'
  BY <1>6 DEF vars, IInv, ReaderOK, BackOK
<1>7. ReaderOK' /\ BackOK'
  BY <1>2, <1>3, <1>4, <1>5, <1>6 DEF Next
<1> QED BY <1>1, <1>7 DEF IInv

\* Writer, stream and reader stay in step, whatever the reader makes of a value.
THEOREM InStepAlways == Spec => [](Stream /\ InStep)
<1>1. Init => Stream /\ InStep
  BY InitStream, InitReaders
<1>2. Stream /\ InStep /\ [Next]_vars => (Stream /\ InStep)'
  BY StepStream, StepInStep
<1> QED BY <1>1, <1>2, PTL DEF Spec

\* Only a value that lost its end raises an exception, the EndOfFileException,
\* by either path.
THEOREM ErrorsMeanCutAlways == Spec => []ErrorsMeanCut
<1>1. Stream /\ InStep => ErrorsMeanCut
  BY DEF InStep, ErrorsMeanCut
<1> QED BY <1>1, InStepAlways, PTL

\* The slow path may get a value with a prefix wrong, but it takes the bytes of
\* that value and no others, so that no other value suffers, whoever reads.
DamageStays ==
  /\ \A i \in 1..Len(got) : values[i].code \notin PrefixCodes => got[i] = values[i].value
  /\ err = "none" => rpos = EndOf(Len(got))

\* What the slow path makes of a value with a prefix damages no other value.
THEOREM DamageStaysAlways == Spec => []DamageStays
<1>1. Stream /\ InStep => DamageStays
  BY EndOfIs DEF InStep, DamageStays
<1> QED BY <1>1, InStepAlways, PTL

\* Careful readers get what was written.
THEOREM Invariance ==
  ASSUME Careful PROVE Spec => []IInv
<1>1. Init => IInv
  BY InitStream, InitReaders DEF IInv
<1>2. IInv /\ [Next]_vars => IInv'
  BY StepIInv
<1> QED BY <1>1, <1>2, PTL DEF Spec

\* The reader gets the values that were written, whatever their code, by
\* whatever path, with whatever follows them, and stands where each ended.
THEOREM RoundTripAlways ==
  ASSUME Careful PROVE Spec => []RoundTrip
<1>1. IInv => RoundTrip
  BY EndOfIs DEF IInv, InStep, ReaderOK, RoundTrip
<1> QED BY <1>1, Invariance, PTL

\* Read backwards, the values are the ones written, last first.
THEOREM BackwardAlways ==
  ASSUME Careful PROVE Spec => []Backward
<1>1. IInv => Backward
  BY EndOfIs DEF IInv, BackOK, Backward
<1> QED BY <1>1, Invariance, PTL
================================================================================
