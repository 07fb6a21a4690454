-------------------------- MODULE MoneyArithmetic ---------------------------
(***************************************************************************)
(* Lemmas about the numbers of Money: induction over the naturals, in the  *)
(* form of sets, the powers of a number, quotients, and normal decimals.   *)
(***************************************************************************)
EXTENDS Money, WellFoundedInduction, TLAPS

----------------------------------------------------------------------------
(***************************************************************************)
(* Induction.                                                              *)
(***************************************************************************)
\* A set of naturals that has a member has a least one.
LEMMA LeastOf ==
    ASSUME NEW T \in SUBSET Nat, T # {}
    PROVE  \E x \in T : \A y \in T : x <= y
  <1> DEFINE Less == OpToRel(<, Nat)
  <1>1. IsWellFoundedOn(Less, Nat)
    BY NatLessThanWellFounded
  <1> HIDE DEF Less
  <1>2. PICK x \in T : \A y \in T : ~(<<y, x>> \in Less)
    BY <1>1, WFMin
  <1>3. \A y \in T : y < x => <<y, x>> \in Less
    BY DEF Less, OpToRel
  <1>4. \A y \in T : x <= y
    <2> TAKE y \in T
    <2>1. x \in Nat /\ y \in Nat /\ ~(y < x)
      BY <1>2, <1>3
    <2> QED
      BY <2>1
  <1> QED
    BY <1>4

LEMMA NatSetInduction ==
    ASSUME NEW S, 0 \in S, \A n \in Nat : n \in S => n + 1 \in S
    PROVE  \A n \in Nat : n \in S
  <1> SUFFICES ASSUME Nat \ S # {} PROVE FALSE
    OBVIOUS
  <1>1. PICK x \in Nat \ S : \A y \in Nat \ S : x <= y
    <2> Nat \ S \in SUBSET Nat
      OBVIOUS
    <2> QED
      BY LeastOf
  <1>2. x # 0 /\ x - 1 \in Nat /\ x - 1 \in S
    BY <1>1
  <1> QED
    BY <1>1, <1>2

\* Min is the least of a set of naturals.
LEMMA MinIsLeast ==
    ASSUME NEW T \in SUBSET Nat, T # {}
    PROVE  /\ Min(T) \in T
           /\ \A y \in T : Min(T) <= y
  BY LeastOf DEF Min

----------------------------------------------------------------------------
(***************************************************************************)
(* Powers.                                                                 *)
(***************************************************************************)
\* A table of the powers of b up to the n-th.
PowersUpTo(b, n) ==
    {g \in [0 .. n -> Nat] :
        /\ g[0] = 1
        /\ \A i \in 1 .. n : g[i] = b * g[i - 1]}

LEMMA PowersExist ==
    ASSUME NEW b \in Nat
    PROVE  \A n \in Nat : PowersUpTo(b, n) # {}
  <1> DEFINE S == {n \in Nat : PowersUpTo(b, n) # {}}
  <1>1. 0 \in S
    <2>1. [i \in 0 .. 0 |-> 1] \in PowersUpTo(b, 0)
      BY DEF PowersUpTo
    <2> QED
      BY <2>1
  <1>2. ASSUME NEW n \in Nat, n \in S PROVE n + 1 \in S
    <2>1. PICK g : g \in PowersUpTo(b, n)
      BY <1>2
    <2> DEFINE h == [i \in 0 .. (n + 1) |-> IF i <= n THEN g[i] ELSE b * g[n]]
    <2>2. g \in [0 .. n -> Nat] /\ g[0] = 1 /\ \A i \in 1 .. n : g[i] = b * g[i - 1]
      BY <2>1 DEF PowersUpTo
    <2>3. h \in [0 .. (n + 1) -> Nat]
      BY <2>2
    <2>4. h[0] = 1
      BY <2>2
    <2>5. \A i \in 1 .. (n + 1) : h[i] = b * h[i - 1]
      BY <2>2
    <2>6. h \in PowersUpTo(b, n + 1)
      BY <2>3, <2>4, <2>5 DEF PowersUpTo
    <2> QED
      BY <2>6
  <1> HIDE DEF S
  <1>3. \A n \in Nat : n \in S
    BY <1>1, <1>2, NatSetInduction
  <1> QED
    BY <1>3 DEF S

LEMMA PowersAgree ==
    ASSUME NEW b \in Nat, NEW n \in Nat, NEW k \in Nat,
           NEW g \in PowersUpTo(b, n), NEW h \in PowersUpTo(b, k)
    PROVE  \A i \in Nat : i <= n /\ i <= k => g[i] = h[i]
  <1> DEFINE S == {i \in Nat : i <= n /\ i <= k => g[i] = h[i]}
  <1>1. 0 \in S
    BY DEF PowersUpTo
  <1>2. ASSUME NEW i \in Nat, i \in S PROVE i + 1 \in S
    <2> SUFFICES ASSUME i + 1 <= n, i + 1 <= k PROVE g[i + 1] = h[i + 1]
      OBVIOUS
    <2>1. g[i] = h[i]
      BY <1>2
    <2>2. g[i + 1] = b * g[i] /\ h[i + 1] = b * h[i]
      BY DEF PowersUpTo
    <2> QED
      BY <2>1, <2>2
  <1> HIDE DEF S
  <1>3. \A i \in Nat : i \in S
    BY <1>1, <1>2, NatSetInduction
  <1> QED
    BY <1>3 DEF S

\* The equations of Power, and so that its definition defines it.
LEMMA PowerDefined ==
    ASSUME NEW b \in Nat
    PROVE  /\ Power(b) \in [Nat -> Nat]
           /\ Power(b)[0] = 1
           /\ \A n \in Nat : Power(b)[n + 1] = b * Power(b)[n]
  <1> DEFINE T(n) == CHOOSE g : g \in PowersUpTo(b, n)
             f == [n \in Nat |-> T(n)[n]]
             Body(p) == [n \in Nat |-> IF n = 0 THEN 1 ELSE b * p[n - 1]]
  <1>1. \A n \in Nat : T(n) \in PowersUpTo(b, n)
    BY PowersExist
  <1>2. \A n \in Nat : T(n)[n] \in Nat
    <2> TAKE n \in Nat
    <2>1. T(n) \in PowersUpTo(b, n)
      BY <1>1
    <2> HIDE DEF T
    <2> QED
      BY <2>1 DEF PowersUpTo
  <1>3. f = Body(f)
    <2>1. ASSUME NEW n \in Nat
          PROVE  T(n)[n] = IF n = 0 THEN 1 ELSE b * f[n - 1]
      <3>1. CASE n = 0
        <4>1. T(0) \in PowersUpTo(b, 0)
          BY <1>1
        <4> HIDE DEF T
        <4> QED
          BY <3>1, <4>1 DEF PowersUpTo
      <3>2. CASE n # 0
        <4>0. n - 1 \in Nat
          BY <3>2
        <4>1. T(n)[n] = b * T(n)[n - 1]
          <5>1. T(n) \in PowersUpTo(b, n)
            BY <1>1
          <5> HIDE DEF T
          <5> QED
            BY <3>2, <5>1 DEF PowersUpTo
        <4>2. T(n)[n - 1] = T(n - 1)[n - 1]
          <5>1. T(n) \in PowersUpTo(b, n) /\ T(n - 1) \in PowersUpTo(b, n - 1)
            BY <1>1, <4>0
          <5> HIDE DEF T
          <5> QED
            BY <5>1, <4>0, PowersAgree
        <4>3. f[n - 1] = T(n - 1)[n - 1]
          BY <4>0
        <4> HIDE DEF T, f
        <4> QED
          BY <3>2, <4>1, <4>2, <4>3
      <3> QED
        BY <3>1, <3>2
    <2> HIDE DEF T
    <2> QED
      BY <2>1
  <1>4. Power(b) = CHOOSE p : p = Body(p)
    BY DEF Power
  <1> HIDE DEF T, f
  <1>5. Power(b) = Body(Power(b))
    BY <1>3, <1>4
  <1>6. \A n \in Nat : Power(b)[n] = IF n = 0 THEN 1 ELSE b * Power(b)[n - 1]
    BY <1>5
  <1>7. \A n \in Nat : Power(b)[n + 1] = b * Power(b)[n]
    BY <1>6
  <1>8. \A n \in Nat : Power(b)[n] \in Nat
    <2> DEFINE S == {n \in Nat : Power(b)[n] \in Nat}
    <2>1. 0 \in S
      BY <1>6
    <2>2. ASSUME NEW n \in Nat, n \in S PROVE n + 1 \in S
      <3>1. Power(b)[n + 1] = b * Power(b)[n] /\ Power(b)[n] \in Nat
        BY <1>7, <2>2
      <3> QED
        BY <3>1
    <2> HIDE DEF S
    <2>3. \A n \in Nat : n \in S
      BY <2>1, <2>2, NatSetInduction
    <2> QED
      BY <2>3 DEF S
  <1>9. Power(b) \in [Nat -> Nat]
    BY <1>5, <1>8
  <1> QED
    BY <1>6, <1>7, <1>9

LEMMA PowerPositive ==
    ASSUME NEW b \in Nat \ {0}
    PROVE  \A n \in Nat : Power(b)[n] \in Nat \ {0}
  <1> DEFINE S == {n \in Nat : Power(b)[n] \in Nat \ {0}}
  <1>1. 0 \in S
    <2>1. Power(b)[0] = 1
      BY PowerDefined
    <2> QED
      BY <2>1
  <1>2. ASSUME NEW n \in Nat, n \in S PROVE n + 1 \in S
    <2>1. Power(b)[n + 1] = b * Power(b)[n] /\ Power(b)[n] \in Nat \ {0}
      BY <1>2, PowerDefined
    <2>2. ASSUME NEW p \in Nat \ {0} PROVE b * p \in Nat \ {0}
      OBVIOUS
    <2> QED
      BY <2>1, <2>2
  <1> HIDE DEF S
  <1>3. \A n \in Nat : n \in S
    BY <1>1, <1>2, NatSetInduction
  <1> QED
    BY <1>3 DEF S

LEMMA PowerAdd ==
    ASSUME NEW b \in Nat \ {0}, NEW i \in Nat
    PROVE  \A j \in Nat : Power(b)[i + j] = Power(b)[i] * Power(b)[j]
  <1> DEFINE S == {j \in Nat : Power(b)[i + j] = Power(b)[i] * Power(b)[j]}
  <1>1. 0 \in S
    <2>1. Power(b)[0] = 1 /\ Power(b)[i] \in Nat /\ i + 0 = i
      BY PowerDefined, PowerPositive
    <2>2. Power(b)[i] = Power(b)[i] * 1
      BY <2>1
    <2> QED
      BY <2>1, <2>2
  <1>2. ASSUME NEW j \in Nat, j \in S PROVE j + 1 \in S
    <2>1. /\ Power(b)[i + j + 1] = b * Power(b)[i + j]
          /\ Power(b)[j + 1] = b * Power(b)[j]
          /\ Power(b)[i + j] = Power(b)[i] * Power(b)[j]
      <3> i + j \in Nat
        OBVIOUS
      <3> QED
        BY <1>2, PowerDefined
    <2>2. Power(b)[i] \in Nat /\ Power(b)[j] \in Nat
      BY PowerPositive
    <2>3. ASSUME NEW p \in Nat, NEW q \in Nat PROVE b * (p * q) = p * (b * q)
      OBVIOUS
    <2>4. Power(b)[i + j + 1] = Power(b)[i] * Power(b)[j + 1]
      BY <2>1, <2>2, <2>3
    <2>5. i + (j + 1) = i + j + 1
      OBVIOUS
    <2> QED
      BY <2>4, <2>5
  <1> HIDE DEF S
  <1>3. \A j \in Nat : j \in S
    BY <1>1, <1>2, NatSetInduction
  <1> QED
    BY <1>3 DEF S

\* Powers of ten, and of two.
LEMMA TenType ==
    ASSUME NEW n \in Nat
    PROVE  Ten(n) \in Nat \ {0}
  BY PowerPositive DEF Ten

LEMMA TenNext ==
    ASSUME NEW n \in Nat
    PROVE  Ten(n + 1) = 10 * Ten(n)
  BY PowerDefined DEF Ten

LEMMA TenAdd ==
    ASSUME NEW i \in Nat, NEW j \in Nat
    PROVE  Ten(i + j) = Ten(i) * Ten(j)
  BY PowerAdd DEF Ten

LEMMA TenFew ==
    Ten(0) = 1 /\ Ten(1) = 10 /\ Ten(2) = 100 /\ Ten(3) = 1000 /\ Ten(4) = 10000
  <1>1. Ten(0) = 1
    BY PowerDefined DEF Ten
  <1>2. Ten(1) = 10 * Ten(0) /\ Ten(2) = 10 * Ten(1) /\ Ten(3) = 10 * Ten(2) /\ Ten(4) = 10 * Ten(3)
    <2> 1 = 0 + 1 /\ 2 = 1 + 1 /\ 3 = 2 + 1 /\ 4 = 3 + 1
      OBVIOUS
    <2> QED
      BY TenNext
  <1> QED
    BY <1>1, <1>2

LEMMA TwoType ==
    ASSUME NEW n \in Nat
    PROVE  Two(n) \in Nat \ {0}
  BY PowerPositive DEF Two

LEMMA TwoNext ==
    ASSUME NEW n \in Nat
    PROVE  Two(n + 1) = 2 * Two(n)
  BY PowerDefined DEF Two

LEMMA TwoAdd ==
    ASSUME NEW i \in Nat, NEW j \in Nat
    PROVE  Two(i + j) = Two(i) * Two(j)
  BY PowerAdd DEF Two

LEMMA TwoFew == Two(0) = 1 /\ Two(1) = 2
  <1>1. Two(0) = 1
    BY PowerDefined DEF Two
  <1>2. Two(1) = 2 * Two(0)
    <2> 1 = 0 + 1
      OBVIOUS
    <2> QED
      BY TwoNext
  <1> QED
    BY <1>1, <1>2

\* A later power is a multiple of an earlier one.
LEMMA TwoGrows ==
    ASSUME NEW i \in Nat, NEW j \in Nat, i < j
    PROVE  2 * Two(i) <= Two(j)
  <1>1. /\ j - (i + 1) \in Nat
        /\ Two(j) = Two(i + 1) * Two(j - (i + 1))
    <2>1. j - (i + 1) \in Nat /\ (i + 1) + (j - (i + 1)) = j
      OBVIOUS
    <2> QED
      BY <2>1, TwoAdd
  <1>2. ASSUME NEW p \in Nat, NEW q \in Nat \ {0} PROVE p <= p * q
    OBVIOUS
  <1>3. /\ Two(i + 1) \in Nat
        /\ Two(j - (i + 1)) \in Nat \ {0}
        /\ Two(i + 1) = 2 * Two(i)
    BY <1>1, TwoType, TwoNext
  <1> QED
    BY <1>1, <1>2, <1>3

LEMMA TenGrows ==
    ASSUME NEW i \in Nat, NEW j \in Nat, i <= j
    PROVE  /\ Ten(j) = Ten(i) * Ten(j - i)
           /\ Ten(i) <= Ten(j)
           /\ i < j => Ten(i) < Ten(j)
  <1>1. /\ j - i \in Nat
        /\ Ten(j) = Ten(i) * Ten(j - i)
    <2>1. j - i \in Nat /\ i + (j - i) = j
      OBVIOUS
    <2> QED
      BY <2>1, TenAdd
  <1>2. ASSUME NEW p \in Nat \ {0}, NEW q \in Nat \ {0} PROVE p <= p * q /\ (q > 1 => p < p * q)
    OBVIOUS
  <1>3. i < j => Ten(j - i) > 1
    <2> SUFFICES ASSUME i < j PROVE Ten(j - i) > 1
      OBVIOUS
    <2>1. PICK l \in Nat : j - i = l + 1
      <3>1. j - i - 1 \in Nat /\ j - i = (j - i - 1) + 1
        OBVIOUS
      <3> QED
        BY <3>1
    <2>2. Ten(l + 1) = 10 * Ten(l) /\ Ten(l) \in Nat \ {0}
      BY TenNext, TenType
    <2> QED
      BY <2>1, <2>2
  <1>4. Ten(i) \in Nat \ {0} /\ Ten(j - i) \in Nat \ {0}
    BY <1>1, TenType
  <1> QED
    BY <1>1, <1>2, <1>3, <1>4

----------------------------------------------------------------------------
(***************************************************************************)
(* Quotients and products.                                                 *)
(***************************************************************************)
LEMMA Quotient ==
    ASSUME NEW a \in Int, NEW b \in Nat \ {0}
    PROVE  /\ a \div b \in Int /\ a % b \in 0 .. b - 1
           /\ a = b * (a \div b) + (a % b)
           /\ b * (a \div b) <= a /\ a < b * (a \div b + 1)
  OBVIOUS

LEMMA QuotientType ==
    ASSUME NEW a \in Nat, NEW b \in Nat \ {0}
    PROVE  a \div b \in Nat
  OBVIOUS

LEMMA QuotientOfMultiple ==
    ASSUME NEW a \in Nat, NEW b \in Nat \ {0}
    PROVE  (a * b) \div b = a /\ (a * b) % b = 0
  OBVIOUS

LEMMA Cancel ==
    ASSUME NEW a \in Int, NEW b \in Int, NEW p \in Nat \ {0}
    PROVE  /\ a * p <= b * p <=> a <= b
           /\ a * p < b * p <=> a < b
           /\ a * p = b * p <=> a = b
  OBVIOUS

LEMMA NatProduct ==
    ASSUME NEW a \in Nat, NEW b \in Nat
    PROVE  a * b \in Nat /\ (a > 0 /\ b > 0 => a * b > 0)
  OBVIOUS

----------------------------------------------------------------------------
(***************************************************************************)
(* Decimals.                                                               *)
(***************************************************************************)
Decimal == [coef : Nat, exp : Nat]

SameWorth(c, d) == c.coef * Ten(d.exp) = d.coef * Ten(c.exp)

LEMMA SameWorthTransitive ==
    ASSUME NEW b \in Decimal, NEW c \in Decimal, NEW d \in Decimal,
           SameWorth(b, c), SameWorth(c, d)
    PROVE  SameWorth(b, d) /\ SameWorth(c, b)
  <1> DEFINE P == Ten(b.exp)
             Q == Ten(c.exp)
             R == Ten(d.exp)
  <1>1. P \in Nat \ {0} /\ Q \in Nat \ {0} /\ R \in Nat \ {0}
    BY TenType DEF Decimal
  <1>2. b.coef \in Nat /\ c.coef \in Nat /\ d.coef \in Nat
    BY DEF Decimal
  <1>3. b.coef * Q = c.coef * P /\ c.coef * R = d.coef * Q
    BY DEF SameWorth
  <1> HIDE DEF P, Q, R
  <1>4. (b.coef * R) * Q = (d.coef * P) * Q
    <2>1. (b.coef * R) * Q = (b.coef * Q) * R
      BY <1>1, <1>2
    <2>2. (c.coef * P) * R = (c.coef * R) * P
      BY <1>1, <1>2
    <2>3. (d.coef * Q) * P = (d.coef * P) * Q
      BY <1>1, <1>2
    <2> QED
      BY <2>1, <2>2, <2>3, <1>3
  <1>5. b.coef * R \in Int /\ d.coef * P \in Int
    BY <1>1, <1>2
  <1>6. b.coef * R = d.coef * P
    BY <1>1, <1>4, <1>5, Cancel
  <1> QED
    BY <1>3, <1>6 DEF SameWorth, P, Q, R

\* Normal drops the zeros at the end of the places, and no more.
LEMMA NormalDefined ==
    ASSUME NEW d \in Decimal
    PROVE  /\ Normal(d) \in Decimal
           /\ Normal(d).exp <= d.exp
           /\ d.coef = Normal(d).coef * Ten(d.exp - Normal(d).exp)
           /\ \A x \in 0 .. d.exp : d.coef % Ten(d.exp - x) = 0 => Normal(d).exp <= x
  <1> DEFINE T == {x \in 0 .. d.exp : d.coef % Ten(d.exp - x) = 0}
             e == Min(T)
  <1>0. d.coef \in Nat /\ d.exp \in Nat
    BY DEF Decimal
  <1>1. d.exp \in T
    <2>1. Ten(d.exp - d.exp) = 1
      BY <1>0, TenFew
    <2>2. d.coef % 1 = 0
      BY <1>0
    <2> QED
      BY <1>0, <2>1, <2>2
  <1>2. T \in SUBSET Nat /\ T # {}
    BY <1>0, <1>1
  <1>3. e \in T /\ \A y \in T : e <= y
    <2> HIDE DEF T
    <2> QED
      BY <1>2, MinIsLeast
  <1>4. Normal(d) = [coef |-> d.coef \div Ten(d.exp - e), exp |-> e]
    BY DEF Normal
  <1>5. e \in 0 .. d.exp /\ d.coef % Ten(d.exp - e) = 0
    BY <1>3
  <1>6. d.exp - e \in Nat
    BY <1>0, <1>5
  <1>7. Ten(d.exp - e) \in Nat \ {0}
    BY <1>6, TenType
  <1>8. \A x \in 0 .. d.exp : d.coef % Ten(d.exp - x) = 0 => e <= x
    BY <1>3
  <1> HIDE DEF e, T
  <1>9. /\ d.coef \div Ten(d.exp - e) \in Nat
        /\ d.coef = (d.coef \div Ten(d.exp - e)) * Ten(d.exp - e)
    <2> DEFINE b == Ten(d.exp - e)
    <2> HIDE DEF b
    <2>1. b \in Nat \ {0} /\ d.coef % b = 0
      BY <1>5, <1>7 DEF b
    <2> QED
      BY <2>1, <1>0 DEF b
  <1> QED
    BY <1>0, <1>4, <1>5, <1>8, <1>9 DEF Decimal

LEMMA NormalWorth ==
    ASSUME NEW d \in Decimal
    PROVE  SameWorth(Normal(d), d)
  <1> DEFINE n == Normal(d)
  <1>1. /\ n \in Decimal /\ n.exp <= d.exp
        /\ d.coef = n.coef * Ten(d.exp - n.exp)
    BY NormalDefined
  <1> HIDE DEF n
  <1>2. n.exp \in Nat /\ d.exp \in Nat /\ n.coef \in Nat
    BY <1>1 DEF Decimal
  <1>3. Ten(d.exp) = Ten(n.exp) * Ten(d.exp - n.exp)
    BY <1>1, <1>2, TenGrows
  <1>4. Ten(n.exp) \in Nat /\ Ten(d.exp - n.exp) \in Nat
    BY <1>1, <1>2, TenType
  <1>5. ASSUME NEW a \in Nat, NEW p \in Nat, NEW q \in Nat PROVE a * (p * q) = (a * q) * p
    OBVIOUS
  <1>6. n.coef * Ten(d.exp) = d.coef * Ten(n.exp)
    BY <1>1, <1>2, <1>3, <1>4, <1>5
  <1> QED
    BY <1>6 DEF SameWorth, n

\* Decimals of the same worth have the same normal form: what decimal it is that
\* stands for a price does not matter.
LEMMA NormalLeast ==
    ASSUME NEW c \in Decimal, NEW d \in Decimal, SameWorth(c, d)
    PROVE  Normal(d).exp <= Normal(c).exp
  <1> DEFINE n == Normal(c)
  <1>0. /\ c.coef \in Nat /\ c.exp \in Nat /\ d.coef \in Nat /\ d.exp \in Nat
    BY DEF Decimal
  <1>1. n \in Decimal /\ SameWorth(n, d)
    BY NormalDefined, NormalWorth, SameWorthTransitive
  <1>2. \A x \in 0 .. d.exp : d.coef % Ten(d.exp - x) = 0 => Normal(d).exp <= x
    BY NormalDefined
  <1>3. Normal(d).exp <= d.exp /\ Normal(d) \in Decimal
    BY NormalDefined
  <1> HIDE DEF n
  <1>4. n.coef \in Nat /\ n.exp \in Nat /\ Normal(d).exp \in Nat
    BY <1>1, <1>3 DEF Decimal
  <1>5. CASE n.exp <= d.exp
    <2> DEFINE p == Ten(n.exp)
               q == Ten(d.exp - n.exp)
    <2>1. Ten(d.exp) = p * q
      BY <1>0, <1>4, <1>5, TenGrows
    <2>2. d.exp - n.exp \in Nat
      BY <1>0, <1>4, <1>5
    <2>3. p \in Nat \ {0} /\ q \in Nat \ {0}
      BY <2>2, <1>4, TenType
    <2>4. n.coef * (p * q) = d.coef * p
      BY <1>1, <2>1 DEF SameWorth
    <2> HIDE DEF p, q
    <2>5. (n.coef * q) * p = d.coef * p
      <3>1. n.coef * (p * q) = (n.coef * q) * p
        BY <1>4, <2>3
      <3> QED
        BY <3>1, <2>4
    <2>6. n.coef * q = d.coef
      <3>1. n.coef * q \in Int
        BY <1>4, <2>3
      <3> QED
        BY <3>1, <1>0, <2>3, <2>5, Cancel
    <2>7. d.coef % q = 0
      BY <2>6, <1>4, <2>3, QuotientOfMultiple
    <2>8. n.exp \in 0 .. d.exp
      BY <1>4, <1>5, <1>0
    <2> QED
      BY <1>2, <2>7, <2>8 DEF q, n
  <1>6. CASE n.exp > d.exp
    BY <1>3, <1>4, <1>0, <1>6 DEF n
  <1> QED
    BY <1>0, <1>4, <1>5, <1>6

LEMMA NormalUnique ==
    ASSUME NEW c \in Decimal, NEW d \in Decimal, SameWorth(c, d)
    PROVE  Normal(c) = Normal(d)
  <1>1. SameWorth(d, c)
    BY DEF SameWorth
  <1>2. Normal(c) \in Decimal /\ Normal(d) \in Decimal
    BY NormalDefined
  <1>3. Normal(c).exp = Normal(d).exp
    <2>1. Normal(c).exp \in Nat /\ Normal(d).exp \in Nat
      BY <1>2 DEF Decimal
    <2>2. Normal(d).exp <= Normal(c).exp
      BY NormalLeast
    <2>3. Normal(c).exp <= Normal(d).exp
      BY <1>1, NormalLeast
    <2> QED
      BY <2>1, <2>2, <2>3
  <1>4. SameWorth(Normal(c), Normal(d))
    <2>1. SameWorth(Normal(c), c) /\ SameWorth(Normal(d), d)
      BY NormalWorth
    <2>2. SameWorth(Normal(c), d) /\ SameWorth(d, Normal(d))
      BY <2>1, <1>2, SameWorthTransitive DEF SameWorth
    <2> QED
      BY <2>2, <1>2, SameWorthTransitive
  <1> DEFINE p == Ten(Normal(d).exp)
  <1>5. Normal(c).coef * p = Normal(d).coef * p
    BY <1>3, <1>4 DEF SameWorth
  <1>6. p \in Nat \ {0}
    BY <1>2, TenType DEF Decimal
  <1> HIDE DEF p
  <1>7. Normal(c).coef = Normal(d).coef
    <2>1. Normal(c).coef \in Int /\ Normal(d).coef \in Int
      BY <1>2 DEF Decimal
    <2> QED
      BY <2>1, <1>5, <1>6, Cancel
  <1> QED
    BY <1>2, <1>3, <1>7 DEF Decimal

\* A decimal that has no more than two places is a whole number of kobo.
LEMMA KoboExact ==
    ASSUME NEW d \in Decimal, Normal(d).exp <= Places
    PROVE  /\ NairaToKobo(d) \in Nat
           /\ NairaToKobo(d) = Normal(d).coef * Ten(Places - Normal(d).exp)
           /\ NairaToKobo(d) * Ten(d.exp) = d.coef * KoboPerNaira
  <1> DEFINE n == Normal(d)
             q == Ten(Places - n.exp)
             r == Ten(d.exp - n.exp)
             p == Ten(n.exp)
  <1>1. /\ n \in Decimal /\ n.exp <= d.exp
        /\ d.coef = n.coef * r
    BY NormalDefined
  <1>2. n.exp \in Nat /\ n.coef \in Nat /\ d.exp \in Nat /\ Places \in Nat
    BY <1>1 DEF Decimal, Places
  <1>3. Ten(d.exp) = p * r
    BY <1>1, <1>2, TenGrows
  <1>4. 100 = p * q
    <2>1. Ten(Places) = p * q
      BY <1>2, TenGrows
    <2> QED
      BY <2>1, TenFew DEF Places
  <1>5. p \in Nat \ {0} /\ q \in Nat \ {0} /\ r \in Nat \ {0}
    <2>1. d.exp - n.exp \in Nat /\ Places - n.exp \in Nat
      BY <1>1, <1>2
    <2> QED
      BY <2>1, <1>2, TenType
  <1>6. NairaToKobo(d) = (d.coef * 100) \div Ten(d.exp)
    BY DEF NairaToKobo, KoboPerNaira
  <1> HIDE DEF n, p, q, r
  <1>7. d.coef * 100 = (n.coef * q) * Ten(d.exp)
    <2>1. (n.coef * r) * (p * q) = (n.coef * q) * (p * r)
      BY <1>2, <1>5
    <2> QED
      BY <2>1, <1>1, <1>3, <1>4
  <1>8. n.coef * q \in Nat /\ Ten(d.exp) \in Nat \ {0}
    BY <1>2, <1>5, TenType, NatProduct
  <1>9. NairaToKobo(d) = n.coef * q
    BY <1>6, <1>7, <1>8, QuotientOfMultiple
  <1>10. NairaToKobo(d) * Ten(d.exp) = d.coef * KoboPerNaira
    BY <1>7, <1>9 DEF KoboPerNaira
  <1>11. NairaToKobo(d) = Normal(d).coef * Ten(Places - Normal(d).exp)
    BY <1>9 DEF n, q
  <1> QED
    BY <1>8, <1>9, <1>10, <1>11

LEMMA SameKobo ==
    ASSUME NEW c \in Decimal, NEW d \in Decimal, SameWorth(c, d)
    PROVE  /\ Accepts(c) <=> Accepts(d)
           /\ Accepts(c) => NairaToKobo(c) = NairaToKobo(d)
  <1>1. Normal(c) = Normal(d)
    BY NormalUnique
  <1> QED
    BY <1>1, KoboExact DEF Accepts

\* A price is accepted just if it is a number of kobo of at most Digits digits.
LEMMA AcceptedKobo ==
    ASSUME NEW d \in Decimal, Accepts(d)
    PROVE  NairaToKobo(d) \in 1 .. Ten(Digits) - 1
  <1> DEFINE n == Normal(d)
             q == Ten(Places - n.exp)
             g == Ten(Digits - Places + n.exp)
  <1>1. n.coef > 0 /\ n.exp <= Places /\ n.coef < g
    BY DEF Accepts
  <1>2. NairaToKobo(d) = n.coef * q
    BY <1>1, KoboExact
  <1>3. n \in Decimal
    BY NormalDefined
  <1>4. n.coef \in Nat /\ n.exp \in Nat
    BY <1>3 DEF Decimal
  <1>5. /\ Digits \in Nat /\ Places \in Nat /\ Places < Digits
        /\ Places - n.exp \in Nat
        /\ Digits - Places + n.exp \in Nat
        /\ (Digits - Places + n.exp) + (Places - n.exp) = Digits
    BY <1>1, <1>4, MoneyAssumption DEF Places
  <1>6. Ten(Digits) = g * q
    BY <1>5, TenAdd
  <1>7. g \in Nat \ {0} /\ q \in Nat \ {0}
    BY <1>5, TenType
  <1> HIDE DEF n, q, g
  <1>8. n.coef * q < g * q /\ n.coef * q \in Nat /\ n.coef * q > 0
    BY <1>1, <1>4, <1>7, Cancel, NatProduct
  <1> QED
    BY <1>2, <1>6, <1>8, <1>7, NatProduct

\* A number of kobo of at most Digits digits is told as a price that is accepted,
\* and that is this number of kobo.
LEMMA KoboRoundTrip ==
    ASSUME NEW s \in 1 .. Ten(Digits) - 1
    PROVE  /\ KoboToNaira(s) \in Decimal
           /\ KoboToNaira(s).exp <= Places
           /\ KoboToNaira(s).coef \in 1 .. s
           /\ SameWorth(KoboToNaira(s), [coef |-> s, exp |-> Places])
           /\ Accepts(KoboToNaira(s))
           /\ NairaToKobo(KoboToNaira(s)) = s
  <1> DEFINE d == [coef |-> s, exp |-> Places]
             n == Normal(d)
             q == Ten(Places - n.exp)
             g == Ten(Digits - Places + n.exp)
  <1>0. s \in Nat \ {0} /\ s < Ten(Digits)
    <2>1. Ten(Digits) \in Nat
      BY TenType, MoneyAssumption
    <2> QED
      BY <2>1
  <1>1. d \in Decimal /\ d.coef = s /\ d.exp = Places
    BY <1>0 DEF Decimal, Places
  <1>2. n = KoboToNaira(s)
    BY DEF KoboToNaira
  <1> HIDE DEF d
  <1>3. /\ n \in Decimal /\ n.exp <= Places /\ s = n.coef * q
        /\ SameWorth(n, d)
    BY <1>1, NormalDefined, NormalWorth
  <1>4. n.coef \in Nat /\ n.exp \in Nat
    BY <1>3 DEF Decimal
  <1>5. /\ Digits \in Nat /\ Places \in Nat /\ Places < Digits
        /\ Places - n.exp \in Nat
        /\ Digits - Places + n.exp \in Nat
        /\ (Digits - Places + n.exp) + (Places - n.exp) = Digits
    BY <1>3, <1>4, MoneyAssumption DEF Places
  <1>6. Ten(Digits) = g * q
    BY <1>5, TenAdd
  <1>7. g \in Nat \ {0} /\ q \in Nat \ {0}
    BY <1>5, TenType
  <1>8. Normal(n) = n
    BY <1>1, <1>3, NormalUnique
  <1> HIDE DEF n
  <1>9. n.coef < g
    <2> HIDE DEF g, q
    <2>1. n.coef * q < g * q
      BY <1>0, <1>3, <1>6
    <2> QED
      BY <2>1, <1>4, <1>7, Cancel
  <1>10. n.coef \in 1 .. s
    <2> HIDE DEF q
    <2>1. n.coef # 0
      BY <1>0, <1>3, <1>7
    <2> QED
      BY <2>1, <1>0, <1>3, <1>4, <1>7
  <1>11. Accepts(n)
    BY <1>3, <1>8, <1>9, <1>10 DEF Accepts
  <1>12. NairaToKobo(n) = s
    BY <1>3, <1>8, KoboExact
  <1> QED
    BY <1>2, <1>3, <1>10, <1>11, <1>12 DEF d
=============================================================================
