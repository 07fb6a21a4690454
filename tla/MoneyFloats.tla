---------------------------- MODULE MoneyFloats -----------------------------
(***************************************************************************)
(* Lemmas about the floats and the texts of Money: which float a decimal   *)
(* reads as, that the text of a float reads as this float again, and that  *)
(* a price of at most Digits digits is its float's text.                   *)
(***************************************************************************)
EXTENDS MoneyArithmetic

Half == Two(Bits - 1)

LEMMA HalfFacts ==
    /\ Bits \in Nat \ {0} /\ Bits - 1 \in Nat
    /\ Half \in Nat \ {0} /\ Two(Bits) = 2 * Half
    /\ Ten(Digits) \in Nat \ {0}
    /\ 2 * Ten(Digits) <= Half /\ 2000 <= Half
  <1>1. Bits \in Nat /\ Digits \in Nat /\ 3 <= Digits /\ 4 * Ten(Digits) <= Two(Bits)
    BY MoneyAssumption DEF Places
  <1>2. Ten(Digits) \in Nat \ {0} /\ 1000 <= Ten(Digits)
    BY <1>1, TenType, TenGrows, TenFew
  <1>3. Bits # 0
    BY <1>1, <1>2, TwoFew
  <1>4. Bits - 1 \in Nat /\ Bits = (Bits - 1) + 1
    BY <1>1, <1>3
  <1>5. Two(Bits - 1) \in Nat \ {0} /\ Two((Bits - 1) + 1) = 2 * Two(Bits - 1)
    BY <1>4, TwoType, TwoNext
  <1> QED
    BY <1>1, <1>2, <1>3, <1>4, <1>5 DEF Half

----------------------------------------------------------------------------
(***************************************************************************)
(* The exponent of a float.                                                *)
(***************************************************************************)
\* The decimal times 2^x has the size of a mantissa.
InRange(d, x) ==
    /\ Half * Ten(d.exp) <= d.coef * Two(x)
    /\ d.coef * Two(x) < 2 * Half * Ten(d.exp)

\* What the model's decimals have in common: a price, and what is read of one.
Fits(d) ==
    /\ d \in Decimal
    /\ d.exp \in 0 .. 4
    /\ d.coef > 0

LEMMA FitsType ==
    ASSUME NEW d, Fits(d)
    PROVE  /\ d.coef \in Nat \ {0}
           /\ d.exp \in Nat
           /\ Ten(d.exp) \in Nat \ {0} /\ Ten(d.exp) <= 10000
  <1>1. d.coef \in Nat \ {0} /\ d.exp \in Nat /\ d.exp <= 4
    BY DEF Fits, Decimal
  <1>2. Ten(d.exp) <= Ten(4)
    BY <1>1, TenGrows
  <1> QED
    BY <1>1, <1>2, TenType, TenFew

LEMMA RangeOrder ==
    ASSUME NEW d, Fits(d), NEW x \in Nat, NEW y \in Nat, InRange(d, x), InRange(d, y)
    PROVE  ~(x < y)
  <1> SUFFICES ASSUME x < y PROVE FALSE
    OBVIOUS
  <1> DEFINE P == Ten(d.exp)
             Q == Two(x)
             R == Two(y)
             Z == Half * P
  <1>1. 2 * Q <= R
    BY TwoGrows
  <1>2. Q \in Nat \ {0} /\ R \in Nat \ {0} /\ P \in Nat \ {0} /\ d.coef \in Nat \ {0}
    BY TwoType, FitsType
  <1>3. Half \in Nat
    BY HalfFacts
  <1>4. Z <= d.coef * Q /\ d.coef * R < 2 * Z
    <2> HIDE DEF P, Q, R
    <2>1. 2 * Half * P = 2 * (Half * P)
      BY <1>2, <1>3
    <2> QED
      BY <2>1 DEF InRange, P, Q, R
  <1>5. Z \in Nat
    BY <1>2, <1>3, NatProduct
  <1> HIDE DEF P, Q, R, Z
  <1>6. 2 * (d.coef * Q) <= d.coef * R
    <2>1. ASSUME NEW a \in Nat, NEW b \in Nat PROVE 2 * (d.coef * a) = d.coef * (2 * a) /\ (a <= b => d.coef * a <= d.coef * b)
      BY <1>2
    <2>2. 2 * Q \in Nat
      BY <1>2
    <2> QED
      BY <2>1, <2>2, <1>1, <1>2
  <1>7. d.coef * Q \in Nat /\ d.coef * R \in Nat
    BY <1>2, NatProduct
  <1> QED
    BY <1>4, <1>5, <1>6, <1>7

LEMMA RangeUnique ==
    ASSUME NEW d, Fits(d), NEW x \in Nat, NEW y \in Nat, InRange(d, x), InRange(d, y)
    PROVE  x = y
  <1>1. ~(x < y) /\ ~(y < x)
    BY RangeOrder
  <1> QED
    BY <1>1

\* 3 * Bits are enough.
LEMMA FarScale ==
    ASSUME NEW P \in Nat, P <= 10000
    PROVE  2 * Half * P <= Two(3 * Bits)
  <1> DEFINE W == Two(Bits)
  <1>1. Bits \in Nat /\ W = 2 * Half /\ Half \in Nat /\ 4000 <= W /\ W \in Nat
    BY HalfFacts
  <1>2. Two(3 * Bits) = W * (W * W)
    <2>1. Two(Bits + Bits) = W * W
      BY <1>1, TwoAdd
    <2>2. Bits + Bits \in Nat /\ Bits + (Bits + Bits) = 3 * Bits
      BY <1>1
    <2>3. Two(Bits + (Bits + Bits)) = W * Two(Bits + Bits)
      BY <1>1, <2>2, TwoAdd
    <2> QED
      BY <2>1, <2>2, <2>3
  <1> HIDE DEF W
  <1>3. P <= W * W
    BY <1>1
  <1>4. W * P <= W * (W * W)
    <2>1. W * W \in Nat
      BY <1>1
    <2>2. ASSUME NEW a \in Nat, NEW b \in Nat, a <= b PROVE W * a <= W * b
      BY <1>1, <2>2
    <2> QED
      BY <2>1, <2>2, <1>3
  <1> QED
    BY <1>1, <1>2, <1>4

LEMMA RangeBound ==
    ASSUME NEW d, Fits(d), NEW x \in Nat, InRange(d, x)
    PROVE  x \in 0 .. 3 * Bits
  <1> SUFFICES ASSUME 3 * Bits < x PROVE FALSE
    BY HalfFacts
  <1> DEFINE P == Ten(d.exp)
             Q == Two(x)
             R == Two(3 * Bits)
  <1>1. P \in Nat \ {0} /\ P <= 10000 /\ d.coef \in Nat \ {0}
    BY FitsType
  <1>2. 2 * Half * P <= R
    BY <1>1, FarScale
  <1>3. 3 * Bits \in Nat
    BY HalfFacts
  <1>4. 2 * R <= Q /\ Q \in Nat \ {0} /\ R \in Nat \ {0}
    BY <1>3, TwoGrows, TwoType
  <1>5. d.coef * Q < 2 * Half * P
    BY DEF InRange
  <1>6. 2 * Half * P \in Int
    BY <1>1, HalfFacts
  <1> HIDE DEF P, Q, R
  <1>7. Q <= d.coef * Q /\ d.coef * Q \in Nat
    BY <1>1, <1>4
  <1> QED
    BY <1>2, <1>4, <1>5, <1>6, <1>7

LEMMA RangeExists ==
    ASSUME NEW d, Fits(d), d.coef <= Half * Ten(d.exp)
    PROVE  \E x \in Nat : InRange(d, x)
  <1> DEFINE P == Ten(d.exp)
             Z == Half * P
             T == {x \in Nat : Z <= d.coef * Two(x)}
  <1>1. P \in Nat \ {0} /\ P <= 10000 /\ d.coef \in Nat \ {0} /\ Half \in Nat
    BY FitsType, HalfFacts
  <1>2. Z \in Nat /\ 2 * Half * P = 2 * Z /\ d.coef <= Z
    BY <1>1
  <1>3. 3 * Bits \in T
    <2>1. 3 * Bits \in Nat
      BY HalfFacts
    <2>2. 2 * Half * P <= Two(3 * Bits) /\ Two(3 * Bits) \in Nat
      BY <1>1, <2>1, FarScale, TwoType
    <2> HIDE DEF Z, P
    <2>3. Two(3 * Bits) <= d.coef * Two(3 * Bits) /\ d.coef * Two(3 * Bits) \in Nat
      <3>1. ASSUME NEW a \in Nat PROVE a <= d.coef * a /\ d.coef * a \in Nat
        BY <1>1
      <3> QED
        BY <2>2, <3>1
    <2> QED
      BY <1>2, <2>1, <2>2, <2>3
  <1> HIDE DEF Z
  <1>4. PICK x \in T : \A y \in T : x <= y
    BY <1>3, LeastOf
  <1>5. d.coef * Two(x) < 2 * Z
    <2>1. CASE x = 0
      <3>1. d.coef * Two(x) = d.coef
        BY <2>1, <1>1, TwoFew
      <3>2. Z > 0
        BY <1>1, <1>2
      <3> QED
        BY <3>1, <3>2, <1>1, <1>2
    <2>2. CASE x # 0
      <3>1. PICK y \in Nat : x = y + 1
        <4>1. x - 1 \in Nat /\ x = (x - 1) + 1
          BY <2>2
        <4> QED
          BY <4>1
      <3>2. d.coef * Two(y) < Z
        <4>1. ~(Z <= d.coef * Two(y))
          BY <1>4, <3>1
        <4>2. d.coef * Two(y) \in Nat
          BY <1>1, TwoType, NatProduct
        <4> QED
          BY <4>1, <4>2, <1>2
      <3>3. Two(x) = 2 * Two(y) /\ Two(y) \in Nat
        BY <3>1, TwoNext, TwoType
      <3>4. d.coef * Two(x) = 2 * (d.coef * Two(y)) /\ d.coef * Two(y) \in Nat
        BY <3>3, <1>1
      <3> QED
        BY <3>2, <3>4, <1>2
    <2> QED
      BY <2>1, <2>2
  <1>6. InRange(d, x)
    BY <1>2, <1>4, <1>5 DEF InRange, Z
  <1> QED
    BY <1>6

----------------------------------------------------------------------------
(***************************************************************************)
(* The mantissa of a float.                                                *)
(***************************************************************************)
\* m is the integer next to X / P; of two, the even one.
Closest(X, P, m) ==
    /\ 2 * (m * P) - 2 * X <= P
    /\ 2 * X - 2 * (m * P) <= P
    /\ (2 * (m * P) - 2 * X = P \/ 2 * X - 2 * (m * P) = P) => m % 2 = 0

\* The mantissa FloatOf computes.
Rounded(X, P) ==
    LET low == X \div P
        rest == 2 * (X % P) - P
    IN  IF rest > 0 \/ (rest = 0 /\ low % 2 = 1) THEN low + 1 ELSE low

LEMMA RoundedIsClosest ==
    ASSUME NEW X \in Nat, NEW P \in Nat \ {0}
    PROVE  Rounded(X, P) \in Nat /\ Closest(X, P, Rounded(X, P))
  <1> DEFINE q == X \div P
             r == X % P
  <1>1. q \in Int /\ r \in 0 .. P - 1 /\ X = P * q + r /\ q \in Nat
    <2>1. X \in Int
      OBVIOUS
    <2>2. r \in 0 .. P - 1 /\ X = P * q + r
      BY <2>1, Quotient
    <2>3. q \in Nat
      BY QuotientType
    <2> QED
      BY <2>2, <2>3
  <1>2. Rounded(X, P) = IF 2 * r - P > 0 \/ (2 * r - P = 0 /\ q % 2 = 1) THEN q + 1 ELSE q
    BY DEF Rounded
  <1> HIDE DEF q, r
  <1> DEFINE y == P * q
  <1>3. q * P = y /\ (q + 1) * P = y + P /\ y \in Nat
    BY <1>1
  <1>4. X = y + r
    BY <1>1
  <1> HIDE DEF y
  <1>5. CASE 2 * r - P > 0 \/ (2 * r - P = 0 /\ q % 2 = 1)
    <2>1. Rounded(X, P) = q + 1
      BY <1>2, <1>5
    <2>2. 2 * (y + P) - 2 * X <= P /\ 2 * X - 2 * (y + P) < P
      BY <1>1, <1>3, <1>4, <1>5
    <2>3. 2 * (y + P) - 2 * X = P => (q + 1) % 2 = 0
      BY <1>1, <1>3, <1>4, <1>5
    <2>4. 2 * X - 2 * (y + P) # P
      BY <1>1, <1>3, <1>4, <1>5
    <2> QED
      BY <2>1, <2>2, <2>3, <2>4, <1>1, <1>3 DEF Closest
  <1>6. CASE ~(2 * r - P > 0 \/ (2 * r - P = 0 /\ q % 2 = 1))
    <2>1. Rounded(X, P) = q
      BY <1>2, <1>6
    <2>2. 2 * y - 2 * X <= P /\ 2 * X - 2 * y <= P /\ 2 * y - 2 * X # P
      BY <1>1, <1>3, <1>4, <1>6
    <2>3. 2 * X - 2 * y = P => q % 2 = 0
      BY <1>1, <1>3, <1>4, <1>6
    <2> QED
      BY <2>1, <2>2, <2>3, <1>1, <1>3 DEF Closest
  <1> QED
    BY <1>5, <1>6

LEMMA ClosestOrder ==
    ASSUME NEW X \in Nat, NEW P \in Nat \ {0}, NEW m \in Nat, NEW n \in Nat,
           Closest(X, P, m), Closest(X, P, n)
    PROVE  ~(m < n)
  <1> SUFFICES ASSUME m < n PROVE FALSE
    OBVIOUS
  <1> DEFINE y == m * P
             z == n * P
  <1>1. y \in Nat /\ z \in Nat /\ y + P <= z /\ (n > m + 1 => y + 2 * P <= z)
    <2>1. ASSUME NEW a \in Nat, NEW b \in Nat, a <= b PROVE a * P <= b * P
      BY <2>1
    <2>2. m + 1 <= n /\ (n > m + 1 => m + 2 <= n)
      OBVIOUS
    <2>3. (m + 1) * P = y + P /\ (m + 2) * P = y + 2 * P
      OBVIOUS
    <2>4. m + 1 \in Nat /\ m + 2 \in Nat
      OBVIOUS
    <2>5. (m + 1) * P <= z
      BY <2>1, <2>2, <2>4
    <2>6. n > m + 1 => (m + 2) * P <= z
      BY <2>1, <2>2, <2>4
    <2> QED
      BY <2>3, <2>5, <2>6, NatProduct
  <1>2. /\ 2 * z - 2 * X <= P /\ 2 * X - 2 * y <= P
        /\ 2 * X - 2 * y = P => m % 2 = 0
        /\ 2 * z - 2 * X = P => n % 2 = 0
    BY DEF Closest
  <1> HIDE DEF y, z
  <1>3. 2 * X - 2 * y = P /\ 2 * z - 2 * X = P /\ n = m + 1
    BY <1>1, <1>2
  <1> QED
    BY <1>2, <1>3

LEMMA ClosestUnique ==
    ASSUME NEW X \in Nat, NEW P \in Nat \ {0}, NEW m \in Nat, NEW n \in Nat,
           Closest(X, P, m), Closest(X, P, n)
    PROVE  m = n
  <1>1. ~(m < n) /\ ~(n < m)
    BY ClosestOrder
  <1> QED
    BY <1>1

\* The mantissa is at least Half, and Two(Bits) just if it is rounded up to that.
LEMMA ClosestBounds ==
    ASSUME NEW X \in Nat, NEW P \in Nat \ {0}, NEW m \in Nat, NEW h \in Nat,
           Closest(X, P, m)
    PROVE  /\ h * P <= X => h <= m
           /\ X <= h * P => m <= h
  <1> DEFINE y == m * P
             z == h * P
  <1>1. y \in Nat /\ z \in Nat
    BY NatProduct
  <1>2. 2 * y - 2 * X <= P /\ 2 * X - 2 * y <= P
    BY DEF Closest
  <1>3. ASSUME NEW a \in Nat, NEW b \in Nat, a < b PROVE a * P + P <= b * P
    <2>1. a + 1 <= b /\ a + 1 \in Nat
      BY <1>3
    <2>2. (a + 1) * P <= b * P
      BY <2>1
    <2> QED
      BY <2>2
  <1>4. m < h => y + P <= z
    BY <1>3
  <1>5. h < m => z + P <= y
    BY <1>3
  <1> HIDE DEF y, z
  <1>6. z <= X => h <= m
    BY <1>1, <1>2, <1>4
  <1>7. X <= z => m <= h
    BY <1>1, <1>2, <1>5
  <1> QED
    BY <1>6, <1>7 DEF z

----------------------------------------------------------------------------
(***************************************************************************)
(* The float a decimal reads as.                                           *)
(***************************************************************************)
\* The decimal is rounded to a mantissa of Bits bits, or up to the next power of
\* two, which is a mantissa of Bits bits at the next exponent.
ReadsAs(d, f) ==
    /\ f \in [m : Nat, k : Nat]
    /\ \/ /\ InRange(d, f.k)
          /\ f.m < Two(Bits)
          /\ Closest(d.coef * Two(f.k), Ten(d.exp), f.m)
       \/ /\ InRange(d, f.k + 1)
          /\ f.m = Half
          /\ Closest(d.coef * Two(f.k + 1), Ten(d.exp), Two(Bits))

FloatAt(d, k) ==
    LET m == Rounded(d.coef * Two(k), Ten(d.exp))
    IN  IF m = Two(Bits) THEN [m |-> Two(Bits - 1), k |-> k - 1] ELSE [m |-> m, k |-> k]

LEMMA FloatOfDefined ==
    ASSUME NEW d, Fits(d), NEW x \in Nat, InRange(d, x)
    PROVE  FloatOf(d) = FloatAt(d, x)
  <1> DEFINE k == CHOOSE y \in 0 .. 3 * Bits :
                    /\ Two(Bits - 1) * Ten(d.exp) <= d.coef * Two(y)
                    /\ d.coef * Two(y) < Two(Bits) * Ten(d.exp)
  <1>1. \A y \in Nat : InRange(d, y) <=>
                    /\ Two(Bits - 1) * Ten(d.exp) <= d.coef * Two(y)
                    /\ d.coef * Two(y) < Two(Bits) * Ten(d.exp)
    BY HalfFacts DEF InRange, Half
  <1>2. x \in 0 .. 3 * Bits
    BY RangeBound
  <1>3. 3 * Bits \in Nat
    BY HalfFacts
  <1>4. k \in 0 .. 3 * Bits /\ InRange(d, k)
    BY <1>1, <1>2, <1>3
  <1>5. FloatOf(d) = FloatAt(d, k)
    <2>1. d.coef # 0
      BY FitsType
    <2> QED
      BY <2>1 DEF FloatOf, FloatAt, Rounded
  <1> HIDE DEF k
  <1>6. k = x
    BY <1>3, <1>4, RangeUnique
  <1> QED
    BY <1>5, <1>6

LEMMA FloatIsRead ==
    ASSUME NEW d, Fits(d), d.coef <= Half * Ten(d.exp)
    PROVE  ReadsAs(d, FloatOf(d))
  <1> DEFINE P == Ten(d.exp)
  <1>1. PICK x \in Nat : InRange(d, x)
    BY RangeExists
  <1> DEFINE X == d.coef * Two(x)
             m == Rounded(X, P)
  <1>2. P \in Nat \ {0} /\ d.coef \in Nat \ {0} /\ Two(x) \in Nat /\ X \in Nat
    BY FitsType, TwoType, NatProduct
  <1>3. m \in Nat /\ Closest(X, P, m)
    BY <1>2, RoundedIsClosest
  <1>4. FloatOf(d) = IF m = Two(Bits) THEN [m |-> Half, k |-> x - 1] ELSE [m |-> m, k |-> x]
    BY <1>1, FloatOfDefined DEF FloatAt, Half
  <1>5. Half \in Nat \ {0} /\ Two(Bits) = 2 * Half
    BY HalfFacts
  <1> HIDE DEF m
  <1>6. m <= Two(Bits)
    <2>1. X < (2 * Half) * P
      BY <1>1 DEF InRange
    <2>2. (2 * Half) * P \in Nat
      BY <1>2, <1>5, NatProduct
    <2>3. X <= (2 * Half) * P
      BY <1>2, <2>1, <2>2
    <2>4. m <= 2 * Half
      <3> 2 * Half \in Nat
        BY <1>5
      <3> QED
        BY <1>2, <1>3, <2>3, ClosestBounds
    <2> QED
      BY <1>5, <2>4
  <1>7. CASE m = Two(Bits)
    <2>1. x # 0
      <3> SUFFICES ASSUME x = 0 PROVE FALSE
        OBVIOUS
      <3>1. X <= Half * P
        BY <1>2, TwoFew
      <3>2. m <= Half
        BY <1>2, <1>3, <1>5, <3>1, ClosestBounds
      <3> QED
        BY <1>5, <1>7, <3>2
    <2>2. x - 1 \in Nat /\ (x - 1) + 1 = x
      BY <2>1
    <2>3. FloatOf(d) = [m |-> Half, k |-> x - 1]
      BY <1>4, <1>7
    <2>4. InRange(d, FloatOf(d).k + 1) /\ Closest(d.coef * Two(FloatOf(d).k + 1), Ten(d.exp), Two(Bits))
      BY <1>1, <1>3, <1>7, <2>2, <2>3
    <2> QED
      BY <1>5, <2>2, <2>3, <2>4 DEF ReadsAs
  <1>8. CASE m # Two(Bits)
    <2>1. FloatOf(d) = [m |-> m, k |-> x]
      BY <1>4, <1>8
    <2>2. m < Two(Bits)
      BY <1>3, <1>5, <1>6, <1>8
    <2>3. InRange(d, FloatOf(d).k) /\ Closest(d.coef * Two(FloatOf(d).k), Ten(d.exp), FloatOf(d).m)
      BY <1>1, <1>3, <2>1
    <2> QED
      BY <1>3, <2>1, <2>2, <2>3 DEF ReadsAs
  <1> QED
    BY <1>7, <1>8

LEMMA ReadIsFloat ==
    ASSUME NEW d, Fits(d), NEW f, ReadsAs(d, f)
    PROVE  FloatOf(d) = f
  <1> DEFINE P == Ten(d.exp)
  <1>1. f \in [m : Nat, k : Nat] /\ f.m \in Nat /\ f.k \in Nat
    BY DEF ReadsAs
  <1>2. P \in Nat \ {0} /\ d.coef \in Nat \ {0}
    BY FitsType
  <1>3. Half \in Nat \ {0} /\ Two(Bits) = 2 * Half /\ Two(Bits) \in Nat
    BY HalfFacts
  <1>4. CASE /\ InRange(d, f.k)
             /\ f.m < Two(Bits)
             /\ Closest(d.coef * Two(f.k), Ten(d.exp), f.m)
    <2> DEFINE X == d.coef * Two(f.k)
    <2>1. X \in Nat
      BY <1>1, <1>2, TwoType, NatProduct
    <2>2. Rounded(X, P) = f.m
      BY <1>1, <1>2, <1>4, <2>1, RoundedIsClosest, ClosestUnique
    <2>3. FloatOf(d) = FloatAt(d, f.k)
      BY <1>1, <1>4, FloatOfDefined
    <2>4. f.m # Two(Bits)
      BY <1>1, <1>3, <1>4
    <2>5. FloatOf(d) = [m |-> f.m, k |-> f.k]
      BY <2>2, <2>3, <2>4 DEF FloatAt
    <2> QED
      BY <1>1, <2>5
  <1>5. CASE /\ InRange(d, f.k + 1)
             /\ f.m = Half
             /\ Closest(d.coef * Two(f.k + 1), Ten(d.exp), Two(Bits))
    <2> DEFINE x == f.k + 1
               X == d.coef * Two(x)
    <2>0. x \in Nat /\ x - 1 = f.k
      BY <1>1
    <2> HIDE DEF x
    <2>1. X \in Nat
      BY <2>0, <1>2, TwoType, NatProduct
    <2>2. Rounded(X, P) = Two(Bits)
      <3>1. Closest(X, P, Two(Bits))
        BY <1>5 DEF x
      <3>2. Rounded(X, P) \in Nat /\ Closest(X, P, Rounded(X, P))
        BY <1>2, <2>1, RoundedIsClosest
      <3> HIDE DEF X, P
      <3> QED
        BY <1>2, <1>3, <2>1, <3>1, <3>2, ClosestUnique
    <2>3. FloatOf(d) = FloatAt(d, x)
      BY <2>0, <1>5, FloatOfDefined DEF x
    <2>5. FloatOf(d) = [m |-> f.m, k |-> f.k]
      BY <1>5, <2>0, <2>2, <2>3 DEF FloatAt, Half
    <2> QED
      BY <1>1, <2>5
  <1> QED
    BY <1>4, <1>5 DEF ReadsAs

----------------------------------------------------------------------------
\* Which float a decimal reads as depends on what it is worth.
LEMMA WorthProduct ==
    ASSUME NEW c, Fits(c), NEW d, Fits(d), SameWorth(c, d), NEW x \in Nat
    PROVE  LET P == Ten(c.exp)
               R == Ten(d.exp)
           IN  (c.coef * Two(x)) * R = (d.coef * Two(x)) * P
  <1> DEFINE P == Ten(c.exp)
             R == Ten(d.exp)
             Q == Two(x)
  <1>1. P \in Nat /\ R \in Nat /\ c.coef \in Nat /\ d.coef \in Nat /\ Q \in Nat
    BY FitsType, TwoType
  <1>2. c.coef * R = d.coef * P
    BY DEF SameWorth
  <1> HIDE DEF P, Q, R
  <1>3. (c.coef * Q) * R = (c.coef * R) * Q /\ (d.coef * Q) * P = (d.coef * P) * Q
    BY <1>1
  <1>4. (c.coef * Q) * R = (d.coef * Q) * P
    BY <1>2, <1>3
  <1> QED
    BY <1>4 DEF P, Q, R

LEMMA WorthOrder ==
    ASSUME NEW X \in Nat, NEW Y \in Nat, NEW P \in Nat \ {0}, NEW R \in Nat \ {0}, X * R = Y * P,
           NEW h \in Nat
    PROVE  /\ h * P <= X <=> h * R <= Y
           /\ X < h * P <=> Y < h * R
  <1>1. h * P \in Int /\ h * R \in Int
    OBVIOUS
  <1>2. (h * P) * R = (h * R) * P
    OBVIOUS
  <1>3. /\ (h * P) * R <= X * R <=> h * P <= X
        /\ X * R < (h * P) * R <=> X < h * P
        /\ (h * R) * P <= Y * P <=> h * R <= Y
        /\ Y * P < (h * R) * P <=> Y < h * R
    BY <1>1, Cancel
  <1> QED
    BY <1>2, <1>3

LEMMA WorthClosest ==
    ASSUME NEW X \in Nat, NEW Y \in Nat, NEW P \in Nat \ {0}, NEW R \in Nat \ {0}, X * R = Y * P,
           NEW m \in Nat, Closest(X, P, m)
    PROVE  Closest(Y, R, m)
  <1> DEFINE a == 2 * (m * P) - 2 * X
             b == 2 * (m * R) - 2 * Y
  <1>1. a \in Int /\ b \in Int
    OBVIOUS
  <1>2. a * R = b * P
    <2>1. a * R = 2 * ((m * P) * R) - 2 * (X * R)
      OBVIOUS
    <2>2. b * P = 2 * ((m * R) * P) - 2 * (Y * P)
      OBVIOUS
    <2>3. (m * P) * R = (m * R) * P
      OBVIOUS
    <2> QED
      BY <2>1, <2>2, <2>3
  <1>3. 2 * X - 2 * (m * P) = -a /\ 2 * Y - 2 * (m * R) = -b
    OBVIOUS
  <1>4. a <= P /\ -a <= P /\ (a = P \/ -a = P => m % 2 = 0)
    BY <1>3 DEF Closest
  <1> HIDE DEF a, b
  <1>5. /\ a * R <= P * R <=> a <= P
        /\ (-a) * R <= P * R <=> -a <= P
        /\ a * R = P * R <=> a = P
        /\ (-a) * R = P * R <=> -a = P
        /\ b * P <= R * P <=> b <= R
        /\ (-b) * P <= R * P <=> -b <= R
        /\ b * P = R * P <=> b = R
        /\ (-b) * P = R * P <=> -b = R
    <2>1. -a \in Int /\ -b \in Int
      BY <1>1
    <2> QED
      BY <1>1, <2>1, Cancel
  <1>6. P * R = R * P /\ (-a) * R = (-b) * P
    <2>1. (-a) * R = -(a * R) /\ (-b) * P = -(b * P)
      BY <1>1
    <2> QED
      BY <1>2, <2>1
  <1>7. b <= R /\ -b <= R /\ (b = R \/ -b = R => m % 2 = 0)
    BY <1>2, <1>4, <1>5, <1>6
  <1> QED
    BY <1>3, <1>7 DEF Closest, b

LEMMA WorthReads ==
    ASSUME NEW c, Fits(c), NEW d, Fits(d), SameWorth(c, d), NEW f, ReadsAs(c, f)
    PROVE  ReadsAs(d, f)
  <1> DEFINE P == Ten(c.exp)
             R == Ten(d.exp)
  <1>1. f \in [m : Nat, k : Nat] /\ f.m \in Nat /\ f.k \in Nat /\ f.k + 1 \in Nat
    BY DEF ReadsAs
  <1>2. P \in Nat \ {0} /\ R \in Nat \ {0} /\ c.coef \in Nat /\ d.coef \in Nat
    BY FitsType
  <1>3. Half \in Nat /\ 2 * Half \in Nat /\ Two(Bits) \in Nat
    BY HalfFacts
  <1>4. ASSUME NEW x \in Nat
        PROVE  /\ InRange(c, x) => InRange(d, x)
               /\ \A m \in Nat : Closest(c.coef * Two(x), P, m) => Closest(d.coef * Two(x), R, m)
    <2> DEFINE X == c.coef * Two(x)
               Y == d.coef * Two(x)
    <2>1. X \in Nat /\ Y \in Nat
      BY <1>2, TwoType, NatProduct
    <2>2. X * R = Y * P
      BY WorthProduct
    <2>3. InRange(c, x) <=> Half * P <= X /\ X < (2 * Half) * P
      BY DEF InRange
    <2>4. InRange(d, x) <=> Half * R <= Y /\ Y < (2 * Half) * R
      BY DEF InRange
    <2> HIDE DEF X, Y, P, R
    <2>5. InRange(c, x) => InRange(d, x)
      BY <1>2, <1>3, <2>1, <2>2, <2>3, <2>4, WorthOrder
    <2>6. \A m \in Nat : Closest(X, P, m) => Closest(Y, R, m)
      BY <1>2, <2>1, <2>2, WorthClosest
    <2> QED
      BY <2>5, <2>6 DEF X, Y
  <1> QED
    BY <1>1, <1>3, <1>4 DEF ReadsAs

LEMMA WorthFloat ==
    ASSUME NEW c, Fits(c), NEW d, Fits(d), SameWorth(c, d), c.coef <= Half * Ten(c.exp)
    PROVE  FloatOf(c) = FloatOf(d)
  BY FloatIsRead, WorthReads, ReadIsFloat

----------------------------------------------------------------------------
\* How far a decimal and its float may be apart.
LEMMA FloatBounds ==
    ASSUME NEW d, Fits(d), NEW f, ReadsAs(d, f)
    PROVE  LET P == Ten(d.exp)
               y == f.m * P
               X == d.coef * Two(f.k)
           IN  /\ f.m \in Nat /\ f.k \in Nat
               /\ Half <= f.m /\ f.m < 2 * Half
               /\ 2 * y - 2 * X <= P
               /\ 2 * X - 2 * y <= P
               /\ 2 * (Half * P) - P <= 2 * X
  <1> DEFINE P == Ten(d.exp)
             y == f.m * P
             X == d.coef * Two(f.k)
             Z == Half * P
  <1>1. f.m \in Nat /\ f.k \in Nat
    BY DEF ReadsAs
  <1>2. P \in Nat \ {0} /\ d.coef \in Nat \ {0}
    BY FitsType
  <1>3. Half \in Nat \ {0} /\ Two(Bits) = 2 * Half
    BY HalfFacts
  <1>4. X \in Nat /\ Z \in Nat /\ y \in Nat
    BY <1>1, <1>2, <1>3, TwoType, NatProduct
  <1>5. 2 * Half * P = 2 * Z
    BY <1>2, <1>3
  <1>6. CASE InRange(d, f.k) /\ f.m < Two(Bits) /\ Closest(X, P, f.m)
    <2>1. Z <= X
      BY <1>6 DEF InRange
    <2>2. 2 * y - 2 * X <= P /\ 2 * X - 2 * y <= P
      BY <1>6 DEF Closest
    <2>3. Half <= f.m
      BY <1>1, <1>2, <1>3, <1>4, <1>6, <2>1, ClosestBounds
    <2> HIDE DEF P, y, X, Z
    <2>4. 2 * Z - P <= 2 * X
      BY <1>2, <1>4, <2>1
    <2> QED
      BY <1>1, <1>3, <1>6, <2>2, <2>3, <2>4 DEF P, y, X, Z
  <1>7. CASE InRange(d, f.k + 1) /\ f.m = Half /\ Closest(d.coef * Two(f.k + 1), P, Two(Bits))
    <2>1. d.coef * Two(f.k + 1) = 2 * X
      <3>1. Two(f.k + 1) = 2 * Two(f.k) /\ Two(f.k) \in Nat
        BY <1>1, TwoNext, TwoType
      <3> QED
        BY <1>2, <3>1
    <2>2. 2 * X < 2 * Z
      BY <1>5, <1>7, <2>1 DEF InRange
    <2>3. 2 * (2 * Z) - 2 * (2 * X) <= P
      <3>1. Two(Bits) * P = 2 * Z
        BY <1>3, <1>5
      <3> QED
        BY <1>7, <2>1, <3>1 DEF Closest
    <2>4. y = Z
      BY <1>7
    <2> HIDE DEF P, y, X, Z
    <2>5. 2 * y - 2 * X <= P /\ 2 * X - 2 * y <= P /\ 2 * Z - P <= 2 * X
      BY <1>2, <1>4, <2>2, <2>3, <2>4
    <2>6. Half <= f.m /\ f.m < 2 * Half
      BY <1>3, <1>7
    <2> QED
      BY <1>1, <2>5, <2>6 DEF P, y, X, Z
  <1> QED
    BY <1>6, <1>7 DEF ReadsAs

\* A decimal between another one and its float reads as the same float.
LEMMA BetweenReads ==
    ASSUME NEW d, Fits(d), NEW f, ReadsAs(d, f),
           NEW c, Fits(c), c.exp = d.exp,
           LET P == Ten(d.exp)
               y == f.m * P
               X == d.coef * Two(f.k)
               Y == c.coef * Two(f.k)
           IN  (X <= Y /\ Y <= y) \/ (y <= Y /\ Y <= X)
    PROVE  ReadsAs(c, f)
  <1> DEFINE P == Ten(d.exp)
             y == f.m * P
             X == d.coef * Two(f.k)
             Y == c.coef * Two(f.k)
             Z == Half * P
  <1>1. f \in [m : Nat, k : Nat] /\ f.m \in Nat /\ f.k \in Nat
    BY DEF ReadsAs
  <1>2. P \in Nat \ {0} /\ d.coef \in Nat \ {0} /\ c.coef \in Nat \ {0}
    BY FitsType
  <1>3. Half \in Nat \ {0} /\ Two(Bits) = 2 * Half
    BY HalfFacts
  <1>4. X \in Nat /\ Y \in Nat /\ Z \in Nat /\ y \in Nat
    BY <1>1, <1>2, <1>3, TwoType, NatProduct
  <1>5. 2 * Half * P = 2 * Z
    BY <1>2, <1>3
  <1>6. Half <= f.m /\ f.m < 2 * Half
    BY FloatBounds
  <1>7. Z <= y /\ y < 2 * Z
    <2>1. (2 * Half) * P = 2 * Z /\ 2 * Half \in Int
      BY <1>3, <1>5
    <2> QED
      BY <1>1, <1>2, <1>3, <1>6, <2>1, Cancel
  <1>8. (X <= Y /\ Y <= y) \/ (y <= Y /\ Y <= X)
    OBVIOUS
  <1>9. Two(f.k + 1) = 2 * Two(f.k) /\ Two(f.k) \in Nat
    BY <1>1, TwoNext, TwoType
  <1>10. CASE InRange(d, f.k) /\ f.m < Two(Bits) /\ Closest(X, P, f.m)
    <2>1. Z <= X /\ X < 2 * Z
      BY <1>5, <1>10 DEF InRange
    <2>2. /\ 2 * y - 2 * X <= P
          /\ 2 * X - 2 * y <= P
          /\ (2 * y - 2 * X = P \/ 2 * X - 2 * y = P) => f.m % 2 = 0
      BY <1>10 DEF Closest
    <2>3. Closest(Y, P, f.m)
      <3> HIDE DEF P, X, Y, Z
      <3>1. /\ 2 * y - 2 * Y <= P
            /\ 2 * Y - 2 * y <= P
            /\ (2 * y - 2 * Y = P \/ 2 * Y - 2 * y = P) => f.m % 2 = 0
        <4> HIDE DEF y
        <4> QED
          BY <1>2, <1>4, <1>8, <2>2
      <3> QED
        BY <3>1 DEF Closest
    <2>4. Z <= Y /\ Y < 2 * Z
      <3> HIDE DEF P, X, Y, Z, y
      <3> QED
        BY <1>4, <1>7, <1>8, <2>1
    <2>5. InRange(c, f.k)
      BY <1>5, <2>4 DEF InRange
    <2> QED
      BY <1>1, <1>10, <2>3, <2>5 DEF ReadsAs
  <1>11. CASE InRange(d, f.k + 1) /\ f.m = Half /\ Closest(d.coef * Two(f.k + 1), P, Two(Bits))
    <2>1. d.coef * Two(f.k + 1) = 2 * X /\ c.coef * Two(f.k + 1) = 2 * Y
      BY <1>2, <1>9
    <2>2. Z <= 2 * X /\ 2 * X < 2 * Z
      BY <1>5, <1>11, <2>1 DEF InRange
    <2>3. 2 * (2 * Z) - 2 * (2 * X) <= P
      <3>1. Two(Bits) * P = 2 * Z
        BY <1>3, <1>5
      <3> QED
        BY <1>11, <2>1, <3>1 DEF Closest
    <2>4. y = Z
      BY <1>11
    <2>5. X <= Y /\ Y <= Z
      <3> HIDE DEF P, X, Y, Z, y
      <3> QED
        BY <1>4, <1>8, <2>2, <2>4
    <2>6. CASE Y < Z
      <3>1. Z <= 2 * Y /\ 2 * Y < 2 * Z /\ 2 * (2 * Z) - 2 * (2 * Y) <= P /\ 2 * (2 * Y) - 2 * (2 * Z) < 0
        <4> HIDE DEF P, X, Y, Z, y
        <4> QED
          BY <1>2, <1>4, <2>2, <2>3, <2>5, <2>6
      <3>2. InRange(c, f.k + 1)
        BY <1>5, <2>1, <3>1 DEF InRange
      <3>3. Closest(c.coef * Two(f.k + 1), P, Two(Bits))
        <4>1. Two(Bits) * P = 2 * Z /\ Two(Bits) % 2 = 0
          BY <1>3, <1>5
        <4>2. c.coef * Two(f.k + 1) = 2 * Y
          BY <2>1
        <4> HIDE DEF P, Y, Z
        <4> QED
          BY <1>2, <1>4, <3>1, <4>1, <4>2 DEF Closest
      <3> QED
        BY <1>1, <1>11, <3>2, <3>3 DEF ReadsAs
    <2>7. CASE Y = Z
      <3>1. InRange(c, f.k)
        <4>1. Z <= Y /\ Y < 2 * Z
          <5>1. Z # 0
            BY <1>2, <1>3
          <5> HIDE DEF Y, Z
          <5> QED
            BY <1>4, <2>7, <5>1
        <4> QED
          BY <1>5, <4>1 DEF InRange
      <3>2. Closest(Y, P, f.m)
        <4>1. f.m * P = Y
          BY <2>4, <2>7
        <4> HIDE DEF P, Y, Z, y
        <4> QED
          BY <1>2, <1>4, <4>1 DEF Closest
      <3>3. f.m < Two(Bits)
        BY <1>3, <1>6
      <3> QED
        BY <1>1, <3>1, <3>2, <3>3 DEF ReadsAs
    <2> QED
      BY <1>4, <2>5, <2>6, <2>7
  <1> QED
    BY <1>10, <1>11 DEF ReadsAs

----------------------------------------------------------------------------
(***************************************************************************)
(* The text of a float.                                                    *)
(***************************************************************************)
\* The Near and Off of TextOf.
Below(f, e) == (f.m * Ten(e)) \div Two(f.k)

NearTo(f, e) == {c \in {Below(f, e), Below(f, e) + 1} : FloatOf([coef |-> c, exp |-> e]) = f}

OffFrom(f, c, e) == LET o == f.m * Ten(e) - c * Two(f.k) IN IF o < 0 THEN -o ELSE o

LEMMA TextChosen ==
    ASSUME NEW f, f.m \in Nat, f.k \in Nat, NEW e \in 0 .. 4, NearTo(f, e) # {}
    PROVE  /\ TextOf(f).exp \in 0 .. e
           /\ TextOf(f).coef \in NearTo(f, TextOf(f).exp)
           /\ \A b \in NearTo(f, TextOf(f).exp) :
                 OffFrom(f, TextOf(f).coef, TextOf(f).exp) <= OffFrom(f, b, TextOf(f).exp)
  <1> DEFINE T == {x \in 0 .. 4 : NearTo(f, x) # {}}
             p == Min(T)
             Q == Two(f.k)
             b == Below(f, p)
             Best(c) == \A a \in NearTo(f, p) : OffFrom(f, c, p) <= OffFrom(f, a, p)
  <1>1. T \in SUBSET Nat /\ T # {} /\ e \in T
    OBVIOUS
  <1>2. p \in T /\ p <= e
    <2> HIDE DEF T
    <2> QED
      BY <1>1, MinIsLeast
  <1>3. p \in 0 .. e /\ p \in Nat /\ NearTo(f, p) # {}
    BY <1>2
  <1> HIDE DEF T
  <1>4. TextOf(f) = [coef |-> CHOOSE c \in NearTo(f, p) : Best(c), exp |-> p]
    BY DEF TextOf, NearTo, OffFrom, Below, T
  <1> HIDE DEF p
  <1>5. Q \in Nat \ {0} /\ f.m * Ten(p) \in Nat
    BY <1>3, TwoType, TenType, NatProduct
  <1>6. b \in Nat
    BY <1>5, QuotientType DEF Below
  <1>7. \A c \in NearTo(f, p) : c \in {b, b + 1} /\ OffFrom(f, c, p) \in Int
    <2> TAKE c \in NearTo(f, p)
    <2>1. c \in {b, b + 1}
      BY DEF NearTo
    <2>2. c \in Nat
      BY <1>6, <2>1
    <2>3. c * Q \in Nat
      BY <1>5, <2>2, NatProduct
    <2>4. OffFrom(f, c, p) = LET o == f.m * Ten(p) - c * Q IN IF o < 0 THEN -o ELSE o
      BY DEF OffFrom
    <2> HIDE DEF Q, b
    <2> QED
      BY <1>5, <2>1, <2>3, <2>4
  <1>8. \E c \in NearTo(f, p) : Best(c)
    <2> HIDE DEF b
    <2> DEFINE g == OffFrom(f, b, p)
               h == OffFrom(f, b + 1, p)
    <2>1. CASE b \notin NearTo(f, p) \/ b + 1 \notin NearTo(f, p)
      <3>1. PICK c : NearTo(f, p) = {c}
        BY <1>3, <1>7, <2>1
      <3>2. OffFrom(f, c, p) <= OffFrom(f, c, p)
        <4>1. OffFrom(f, c, p) \in Int
          BY <3>1, <1>7
        <4> QED
          BY <4>1
      <3> QED
        BY <3>1, <3>2
    <2>2. CASE b \in NearTo(f, p) /\ b + 1 \in NearTo(f, p)
      <3>1. g \in Int /\ h \in Int
        BY <1>7, <2>2
      <3>2. NearTo(f, p) = {b, b + 1}
        BY <1>7, <2>2
      <3>3. CASE g <= h
        <4>1. g <= g
          BY <3>1
        <4>2. Best(b)
          BY <3>2, <3>3, <4>1
        <4> QED
          BY <2>2, <4>2
      <3>4. CASE h <= g
        <4>1. h <= h
          BY <3>1
        <4>2. Best(b + 1)
          BY <3>2, <3>4, <4>1
        <4> QED
          BY <2>2, <4>2
      <3>5. g <= h \/ h <= g
        <4> HIDE DEF g, h
        <4> QED
          BY <3>1
      <3> QED
        BY <3>3, <3>4, <3>5
    <2> QED
      BY <2>1, <2>2
  <1> DEFINE c == CHOOSE a \in NearTo(f, p) : Best(a)
  <1>9. c \in NearTo(f, p) /\ Best(c)
    <2> HIDE DEF Best
    <2> QED
      BY <1>8
  <1>10. TextOf(f).coef = c /\ TextOf(f).exp = p
    BY <1>4
  <1> HIDE DEF c
  <1> QED
    BY <1>3, <1>9, <1>10

LEMMA ZeroFloat ==
    ASSUME NEW d, d.coef = 0
    PROVE  FloatOf(d) = [m |-> 0, k |-> 0]
  BY DEF FloatOf

LEMMA ZeroText == TextOf([m |-> 0, k |-> 0]) = [coef |-> 0, exp |-> 0]
  <1> DEFINE f == [m |-> 0, k |-> 0]
             z == [coef |-> 0, exp |-> 0]
  <1>1. FloatOf(z) = f
    BY ZeroFloat
  <1>2. f.m = 0 /\ f.k = 0 /\ Two(0) = 1 /\ Ten(0) = 1
    BY TwoFew, TenFew
  <1>3. Below(f, 0) = 0
    BY <1>2 DEF Below
  <1>4. 0 \in NearTo(f, 0)
    BY <1>1, <1>3 DEF NearTo
  <1>5. \A c \in NearTo(f, 0) : c \in {0, 1} /\ OffFrom(f, c, 0) = c
    BY <1>2, <1>3 DEF NearTo, OffFrom
  <1> HIDE DEF f
  <1> DEFINE u == TextOf(f)
  <1>6. /\ u.exp \in 0 .. 0
        /\ u.coef \in NearTo(f, u.exp)
        /\ \A b \in NearTo(f, u.exp) : OffFrom(f, u.coef, u.exp) <= OffFrom(f, b, u.exp)
    <2>1. f.m \in Nat /\ f.k \in Nat /\ 0 \in 0 .. 4
      BY <1>2
    <2> HIDE DEF u
    <2>2. NearTo(f, 0) # {}
      BY <1>4
    <2> QED
      BY <2>1, <2>2, TextChosen DEF u
  <1>7. u.exp = 0
    BY <1>6
  <1>8. u.coef = 0
    BY <1>4, <1>5, <1>6, <1>7
  <1>9. u = [coef |-> u.coef, exp |-> u.exp]
    BY DEF TextOf
  <1> HIDE DEF u
  <1> QED
    BY <1>7, <1>8, <1>9 DEF u, f

----------------------------------------------------------------------------
\* A price, or what is read of one, is well below the largest mantissa, so that
\* its float has places of its own.
Small(d) == Fits(d) /\ 2 * d.coef <= Half * Ten(d.exp)

LEMMA SmallFloat ==
    ASSUME NEW d, Small(d)
    PROVE  LET f == FloatOf(d)
           IN  /\ ReadsAs(d, f) /\ f.m \in Nat \ {0} /\ f.k \in Nat
               /\ \A e \in Nat : f.m * Ten(e) < Two(f.k) * (Half * Ten(e))
  <1> DEFINE f == FloatOf(d)
             P == Ten(d.exp)
             Q == Two(f.k)
             Z == Half * P
  <1>1. Fits(d) /\ 2 * d.coef <= Z
    BY DEF Small
  <1>2. P \in Nat \ {0} /\ d.coef \in Nat \ {0} /\ Half \in Nat \ {0} /\ 2000 <= Half
    BY <1>1, FitsType, HalfFacts
  <1>3. Z \in Nat /\ 2000 * P <= Z
    BY <1>2
  <1>4. ReadsAs(d, f)
    BY <1>1, <1>2, <1>3, FloatIsRead
  <1> HIDE DEF f
  <1>5. /\ f.m \in Nat /\ f.k \in Nat
        /\ Half <= f.m /\ f.m < 2 * Half
        /\ 2 * Z - P <= 2 * (d.coef * Q)
    BY <1>1, <1>4, FloatBounds
  <1>6. Q \in Nat \ {0}
    BY <1>5, TwoType
  <1>7. Q # 1
    <2> SUFFICES ASSUME Q = 1 PROVE FALSE
      OBVIOUS
    <2>1. d.coef * Q = d.coef
      BY <1>2
    <2> HIDE DEF P, Q, Z
    <2> QED
      BY <1>1, <1>2, <1>3, <1>5, <2>1
  <1>8. f.m < Q * Half
    <2> HIDE DEF Q
    <2>1. 2 * Half <= Q * Half
      BY <1>2, <1>6, <1>7
    <2> QED
      BY <1>2, <1>5, <1>6, <2>1
  <1>9. ASSUME NEW e \in Nat PROVE f.m * Ten(e) < Q * (Half * Ten(e))
    <2>1. Ten(e) \in Nat \ {0}
      BY TenType
    <2> DEFINE p == Ten(e)
    <2> HIDE DEF Q, p
    <2>2. Q * Half \in Int /\ p \in Nat \ {0}
      BY <1>2, <1>6, <2>1 DEF p
    <2>3. f.m * p < (Q * Half) * p
      BY <1>5, <1>8, <2>2, Cancel
    <2>4. (Q * Half) * p = Q * (Half * p)
      BY <1>2, <1>6, <2>2
    <2> QED
      BY <2>3, <2>4 DEF p
  <1> QED
    BY <1>2, <1>4, <1>5, <1>9 DEF f

LEMMA TextReads ==
    ASSUME NEW d, Small(d)
    PROVE  LET u == TextOf(FloatOf(d))
           IN  /\ Fits(u) /\ u.exp <= d.exp
               /\ u.coef <= Half * Ten(u.exp)
               /\ FloatOf(u) = FloatOf(d)
  <1> DEFINE f == FloatOf(d)
             u == TextOf(f)
             P == Ten(d.exp)
             Q == Two(f.k)
             X == d.coef * Q
             y == f.m * P
             q == Below(f, d.exp)
  <1>1. /\ ReadsAs(d, f) /\ f.m \in Nat \ {0} /\ f.k \in Nat
        /\ \A e \in Nat : f.m * Ten(e) < Q * (Half * Ten(e))
    BY SmallFloat
  <1>2. Fits(d) /\ d.exp \in 0 .. 4
    BY DEF Small, Fits
  <1> HIDE DEF f
  <1>3. P \in Nat \ {0} /\ d.coef \in Nat \ {0} /\ Q \in Nat \ {0} /\ Half \in Nat
    BY <1>1, <1>2, FitsType, TwoType, HalfFacts
  <1>4. X \in Nat /\ y \in Nat
    BY <1>1, <1>3, NatProduct
  <1>5. q \in Nat /\ Q * q <= y /\ y < Q * (q + 1)
    <2>1. q = y \div Q /\ y \in Int
      BY <1>4 DEF Below
    <2> HIDE DEF Q, y, q
    <2>2. q \in Nat
      BY <1>3, <1>4, <2>1, QuotientType
    <2>3. Q * q <= y /\ y < Q * (q + 1)
      BY <1>3, <2>1, Quotient
    <2> QED
      BY <2>2, <2>3
  <1>6. NearTo(f, d.exp) # {}
    <2> DEFINE c == IF X <= y THEN q ELSE q + 1
               b == [coef |-> c, exp |-> d.exp]
               Y == c * Q
    <2>1. c \in Nat /\ c # 0 /\ ((X <= Y /\ Y <= y) \/ (y <= Y /\ Y <= X))
      <3>1. CASE X <= y
        <4>1. c = q
          BY <3>1
        <4>2. d.coef <= q
          <5>1. d.coef * Q < (q + 1) * Q
            <6>1. Q * (q + 1) = (q + 1) * Q
              BY <1>3, <1>5
            <6> HIDE DEF q, Q, y
            <6> QED
              BY <1>4, <1>5, <3>1, <1>3, <6>1
          <5>2. q + 1 \in Int
            BY <1>5
          <5> HIDE DEF q, Q
          <5>3. d.coef < q + 1
            BY <1>3, <5>1, <5>2, Cancel
          <5> QED
            BY <1>3, <1>5, <5>3
        <4>3. d.coef * Q <= q * Q /\ q * Q = Q * q
          <5> HIDE DEF q, Q
          <5> QED
            BY <1>3, <1>5, <4>2, Cancel
        <4> HIDE DEF q, Q, y
        <4> QED
          BY <1>3, <1>5, <4>1, <4>2, <4>3
      <3>2. CASE ~(X <= y)
        <4>1. c = q + 1
          BY <3>2
        <4>2. q < d.coef
          <5>1. q * Q < d.coef * Q
            <6>1. Q * q = q * Q
              BY <1>3, <1>5
            <6>2. q * Q \in Int
              BY <1>3, <1>5
            <6> HIDE DEF q, Q, y
            <6> QED
              BY <1>4, <1>5, <3>2, <6>1, <6>2
          <5> HIDE DEF q, Q
          <5> QED
            BY <1>3, <1>5, <5>1, Cancel
        <4>3. q + 1 <= d.coef /\ q + 1 \in Nat
          BY <1>3, <1>5, <4>2
        <4>4. (q + 1) * Q <= d.coef * Q /\ (q + 1) * Q = Q * (q + 1)
          <5> HIDE DEF q, Q
          <5> QED
            BY <1>3, <4>3, Cancel
        <4>5. y <= Y /\ Y <= X
          <5>1. Q * (q + 1) \in Int
            BY <1>3, <1>5
          <5> HIDE DEF q, Q, y
          <5> QED
            BY <1>4, <1>5, <4>1, <4>4, <5>1
        <4> QED
          BY <1>5, <4>1, <4>5
      <3> QED
        BY <3>1, <3>2
    <2> HIDE DEF c
    <2>2. Fits(b) /\ b.coef = c /\ b.exp = d.exp
      BY <1>2, <2>1 DEF Fits, Decimal
    <2>3. ReadsAs(b, f)
      <3> HIDE DEF b
      <3> QED
        BY <1>1, <1>2, <2>1, <2>2, BetweenReads
    <2>4. FloatOf(b) = f
      BY <2>2, <2>3, ReadIsFloat
    <2>5. c \in NearTo(f, d.exp)
      BY <2>4 DEF NearTo, c
    <2> QED
      BY <2>5
  <1>7. u.exp \in 0 .. d.exp /\ u.coef \in NearTo(f, u.exp)
    BY <1>1, <1>2, <1>6, TextChosen
  <1>8. u = [coef |-> u.coef, exp |-> u.exp]
    BY DEF TextOf
  <1>9. u.coef \in {Below(f, u.exp), Below(f, u.exp) + 1} /\ FloatOf(u) = f
    BY <1>7, <1>8 DEF NearTo
  <1> HIDE DEF u
  <1>10. u.exp \in Nat /\ u.exp <= d.exp /\ u.exp \in 0 .. 4
    BY <1>2, <1>7
  <1>11. Below(f, u.exp) \in Nat /\ Below(f, u.exp) < Half * Ten(u.exp)
    <2> DEFINE p == Ten(u.exp)
               b == Below(f, u.exp)
               w == Half * p
    <2>1. p \in Nat \ {0}
      BY <1>10, TenType
    <2>2. b = (f.m * p) \div Q /\ f.m * p \in Nat /\ w \in Nat
      BY <1>1, <1>3, <2>1, NatProduct DEF Below
    <2>3. f.m * p < Q * w
      BY <1>1, <1>10
    <2>4. b \in Nat
      <3> HIDE DEF b, p, Q
      <3> QED
        BY <1>3, <2>2, QuotientType
    <2>5. Q * b <= f.m * p
      <3> HIDE DEF b, p, Q
      <3>1. f.m * p \in Int
        BY <2>2
      <3> QED
        BY <1>3, <2>2, <3>1, Quotient
    <2>6. b < w
      <3> HIDE DEF b, p, Q, w
      <3>1. b * Q < w * Q
        <4>1. Q * b = b * Q /\ Q * w = w * Q /\ Q * b \in Int /\ Q * w \in Int
          BY <1>3, <2>2, <2>4
        <4> QED
          BY <2>2, <2>3, <2>5, <4>1
      <3> QED
        BY <1>3, <2>2, <2>4, <3>1, Cancel
    <2> QED
      BY <2>4, <2>6
  <1>12. u.coef \in Nat /\ u.coef <= Half * Ten(u.exp)
    <2>1. Half * Ten(u.exp) \in Nat
      BY <1>3, <1>10, TenType, NatProduct
    <2> QED
      BY <1>9, <1>11, <2>1
  <1>13. u.coef # 0
    BY <1>1, <1>9, ZeroFloat
  <1>14. Fits(u)
    BY <1>8, <1>10, <1>12, <1>13 DEF Fits, Decimal
  <1> QED
    BY <1>9, <1>10, <1>12, <1>14 DEF u, f

----------------------------------------------------------------------------
(***************************************************************************)
(* Prices and their texts.                                                 *)
(***************************************************************************)
\* Two decimals with the same places and the same float are within its spacing.
LEMMA ReadGap ==
    ASSUME NEW c, Fits(c), NEW d, Fits(d), c.exp = d.exp,
           NEW f, ReadsAs(c, f), ReadsAs(d, f)
    PROVE  (d.coef - c.coef) * Two(f.k) <= Ten(d.exp)
  <1> DEFINE P == Ten(d.exp)
             Q == Two(f.k)
             y == f.m * P
             X == c.coef * Q
             Y == d.coef * Q
  <1>1. P \in Nat \ {0} /\ d.coef \in Nat /\ c.coef \in Nat
    BY FitsType
  <1>2. f.m \in Nat /\ f.k \in Nat
    BY FloatBounds
  <1>3. 2 * X - 2 * y <= P /\ 2 * y - 2 * X <= P
    BY FloatBounds
  <1>4. 2 * Y - 2 * y <= P
    BY FloatBounds
  <1>5. Q \in Nat
    BY <1>2, TwoType
  <1>6. X \in Nat /\ Y \in Nat /\ y \in Nat
    BY <1>1, <1>2, <1>5, NatProduct
  <1>7. (d.coef - c.coef) * Q = Y - X
    <2> HIDE DEF Q
    <2> QED
      BY <1>1, <1>5
  <1> HIDE DEF P, X, Y, y, Q
  <1>8. Y - X <= P
    BY <1>1, <1>3, <1>4, <1>6
  <1> QED
    BY <1>7, <1>8 DEF P, Q

\* A decimal with more places.
LEMMA MorePlaces ==
    ASSUME NEW u, Fits(u), NEW e \in 0 .. 4, u.exp <= e
    PROVE  LET v == [coef |-> u.coef * Ten(e - u.exp), exp |-> e]
           IN  Fits(v) /\ SameWorth(u, v)
  <1> DEFINE r == Ten(e - u.exp)
             p == Ten(u.exp)
             v == [coef |-> u.coef * r, exp |-> e]
  <1>1. u.coef \in Nat \ {0} /\ u.exp \in Nat /\ p \in Nat \ {0}
    BY FitsType
  <1>2. e \in Nat /\ e - u.exp \in Nat
    BY <1>1
  <1>3. r \in Nat \ {0} /\ Ten(e) = p * r
    BY <1>1, <1>2, TenType, TenGrows
  <1> HIDE DEF r, p
  <1>4. u.coef * r \in Nat \ {0} /\ u.coef * (p * r) = (u.coef * r) * p
    BY <1>1, <1>3
  <1>5. Fits(v)
    BY <1>2, <1>4 DEF Fits, Decimal
  <1>6. SameWorth(u, v)
    BY <1>3, <1>4 DEF SameWorth, p
  <1> QED
    BY <1>5, <1>6 DEF r

LEMMA FewDigitsFloat ==
    ASSUME NEW d, Fits(d), d.coef < Ten(Digits)
    PROVE  /\ Small(d)
           /\ d.coef <= Half * Ten(d.exp)
           /\ Ten(d.exp) < Two(FloatOf(d).k)
           /\ d.exp = 2 => 200 < Two(FloatOf(d).k)
  <1> DEFINE f == FloatOf(d)
             P == Ten(d.exp)
             Q == Two(f.k)
             Z == Half * P
             X == d.coef * Q
  <1>1. P \in Nat \ {0} /\ d.coef \in Nat \ {0} /\ Half \in Nat \ {0} /\ 2000 <= Half
    BY FitsType, HalfFacts
  <1>2. 2 * d.coef <= Half - 2
    BY <1>1, HalfFacts
  <1>3. Z \in Nat /\ Half <= Z
    BY <1>1
  <1>4. Small(d) /\ d.coef <= Z
    <2> HIDE DEF Z
    <2>1. 2 * d.coef <= Z /\ d.coef <= Z
      BY <1>1, <1>2, <1>3
    <2> QED
      BY <2>1 DEF Small, Z
  <1>5. f.k \in Nat /\ 2 * Z - P <= 2 * X
    BY <1>4, SmallFloat, FloatBounds
  <1>6. Q \in Nat \ {0}
    BY <1>5, TwoType
  <1> HIDE DEF f, P, Q
  <1>7. 2 * X <= (Half - 2) * Q /\ 2 * X = (2 * d.coef) * Q
    <2>1. 2 * X = (2 * d.coef) * Q
      BY <1>1, <1>6
    <2>2. 2 * d.coef \in Int /\ Half - 2 \in Int
      BY <1>1
    <2>3. (2 * d.coef) * Q <= (Half - 2) * Q
      BY <1>2, <1>6, <2>2, Cancel
    <2> QED
      BY <2>1, <2>3
  <1>8. 2 * Z - P <= (Half - 2) * Q
    <2>1. 2 * X \in Int /\ 2 * Z - P \in Int /\ (Half - 2) * Q \in Int
      BY <1>1, <1>3, <1>6
    <2> HIDE DEF X, Z
    <2> QED
      BY <1>5, <1>7, <2>1
  <1>9. ASSUME NEW b \in Nat, Q <= b PROVE (Half - 2) * Q <= (Half - 2) * b
    <2>1. Half - 2 \in Nat
      BY <1>1
    <2> DEFINE h == Half - 2
    <2> HIDE DEF h
    <2>2. h \in Nat
      BY <2>1 DEF h
    <2>3. h * Q <= h * b
      BY <1>6, <1>9, <2>2
    <2> QED
      BY <2>3 DEF h
  <1>10. P < Q
    <2> SUFFICES ASSUME Q <= P PROVE FALSE
      BY <1>1, <1>6
    <2>1. (Half - 2) * Q <= (Half - 2) * P
      BY <1>1, <1>9
    <2>2. (Half - 2) * P = Z - 2 * P /\ P <= Z
      BY <1>1
    <2>3. (Half - 2) * Q \in Int
      BY <1>1, <1>6
    <2> HIDE DEF Z
    <2> QED
      BY <1>1, <1>3, <1>8, <2>1, <2>2, <2>3
  <1>11. ASSUME d.exp = 2 PROVE 200 < Q
    <2> SUFFICES ASSUME Q <= 200 PROVE FALSE
      BY <1>6
    <2>1. P = 100
      BY <1>11, TenFew DEF P
    <2>2. (Half - 2) * Q <= (Half - 2) * 200
      BY <1>9
    <2>3. Z = 100 * Half
      BY <1>1, <2>1
    <2>4. (Half - 2) * Q \in Int
      BY <1>1, <1>6
    <2> HIDE DEF Z
    <2> QED
      BY <1>1, <1>8, <2>1, <2>2, <2>3, <2>4
  <1> QED
    BY <1>4, <1>10, <1>11 DEF f, P, Q

LEMMA SameFloatSameCoef ==
    ASSUME NEW c, Fits(c), NEW d, Fits(d), c.exp = d.exp,
           NEW f, ReadsAs(c, f), ReadsAs(d, f), Ten(d.exp) < Two(f.k)
    PROVE  c.coef = d.coef
  <1> DEFINE Q == Two(f.k)
             P == Ten(d.exp)
  <1>1. c.coef \in Nat /\ d.coef \in Nat /\ P \in Nat
    BY FitsType
  <1>2. Q \in Nat
    BY FloatBounds, TwoType
  <1>3. (d.coef - c.coef) * Q <= P /\ (c.coef - d.coef) * Q <= P
    BY ReadGap
  <1> HIDE DEF P, Q
  <1>4. ASSUME NEW a \in Int, a * Q <= P PROVE a < 1
    <2> SUFFICES ASSUME 1 <= a PROVE FALSE
      BY <1>4
    <2>1. Q <= a * Q /\ a * Q \in Int
      BY <1>2
    <2> QED
      BY <1>1, <1>2, <1>4, <2>1 DEF P, Q
  <1>5. d.coef - c.coef < 1 /\ c.coef - d.coef < 1
    <2>1. d.coef - c.coef \in Int /\ c.coef - d.coef \in Int
      BY <1>1
    <2> QED
      BY <1>3, <1>4, <2>1
  <1> QED
    BY <1>1, <1>5

\* The text of a price of at most Digits digits is worth this price: no such
\* price is lost in a float.
LEMMA ExactText ==
    ASSUME NEW d \in Decimal, d.exp \in 0 .. 4, Normal(d).coef < Ten(Digits)
    PROVE  LET u == TextOf(FloatOf(d))
           IN  u \in Decimal /\ u.exp \in 0 .. 4 /\ SameWorth(u, d)
  <1>1. CASE d.coef = 0
    <2>1. TextOf(FloatOf(d)) = [coef |-> 0, exp |-> 0]
      BY <1>1, ZeroFloat, ZeroText
    <2>2. Ten(d.exp) \in Nat /\ Ten(0) = 1
      BY TenType, TenFew
    <2> QED
      BY <1>1, <2>1, <2>2 DEF Decimal, SameWorth
  <1>2. CASE d.coef # 0
    <2> DEFINE n == Normal(d)
               f == FloatOf(d)
               u == TextOf(f)
               v == [coef |-> u.coef * Ten(n.exp - u.exp), exp |-> n.exp]
    <2>1. n \in Decimal /\ n.exp <= d.exp /\ SameWorth(n, d) /\ d.coef = n.coef * Ten(d.exp - n.exp)
      BY NormalDefined, NormalWorth
    <2> HIDE DEF n
    <2>2. n.coef # 0
      <3>1. n.exp \in Nat /\ d.exp \in Nat /\ d.exp - n.exp \in Nat
        BY <2>1 DEF Decimal
      <3>2. Ten(d.exp - n.exp) \in Nat
        BY <3>1, TenType
      <3> QED
        BY <1>2, <2>1, <3>2
    <2>3. Fits(n) /\ Fits(d)
      <3>1. n.exp \in 0 .. 4
        BY <2>1 DEF Decimal
      <3>2. n.coef > 0 /\ d.coef > 0
        BY <1>2, <2>1, <2>2 DEF Decimal
      <3> QED
        BY <2>1, <3>1, <3>2 DEF Fits
    <2>4. Small(n) /\ n.coef <= Half * Ten(n.exp) /\ Ten(n.exp) < Two(FloatOf(n).k)
      BY <2>3, FewDigitsFloat DEF n
    <2>5. FloatOf(n) = f
      BY <2>1, <2>3, <2>4, WorthFloat
    <2> HIDE DEF f
    <2>6. Fits(u) /\ u.exp <= n.exp /\ u.coef <= Half * Ten(u.exp) /\ FloatOf(u) = f
      BY <2>4, <2>5, TextReads
    <2> HIDE DEF u
    <2>7. Fits(v) /\ SameWorth(u, v)
      <3>1. n.exp \in 0 .. 4
        BY <2>3 DEF Fits
      <3> QED
        BY <2>6, <3>1, MorePlaces
    <2>8. ReadsAs(v, f) /\ v.exp = n.exp
      <3>1. ReadsAs(u, f)
        BY <2>6, FloatIsRead
      <3> QED
        BY <2>6, <2>7, <3>1, WorthReads
    <2>9. ReadsAs(n, f)
      BY <2>3, <2>4, <2>5, FloatIsRead
    <2> HIDE DEF v
    <2>10. v.coef = n.coef
      BY <2>3, <2>4, <2>5, <2>7, <2>8, <2>9, SameFloatSameCoef
    <2>11. SameWorth(v, n)
      BY <2>8, <2>10 DEF SameWorth
    <2>12. u \in Decimal /\ v \in Decimal /\ u.exp \in 0 .. 4
      BY <2>6, <2>7 DEF Fits
    <2>13. SameWorth(u, d)
      BY <2>1, <2>7, <2>11, <2>12, SameWorthTransitive
    <2> QED
      BY <2>12, <2>13 DEF u, f
  <1> QED
    BY <1>1, <1>2

\* A number that reads as a price is less than half a kobo from this price: a
\* float that has no more than two places is one whose neighbours are near.
LEMMA NearKobo ==
    ASSUME NEW d, Small(d), d.exp = 3, Accepts(TextOf(FloatOf(d)))
    PROVE  2 * Apart(d.coef, NairaToKobo(TextOf(FloatOf(d)))) < 10
  <1> DEFINE f == FloatOf(d)
             u == TextOf(f)
             s == NairaToKobo(u)
             b == [coef |-> s, exp |-> 2]
             v == [coef |-> b.coef * Ten(3 - b.exp), exp |-> 3]
             Q == Two(f.k)
  <1>1. /\ Fits(u) /\ u.coef <= Half * Ten(u.exp) /\ FloatOf(u) = f
        /\ ReadsAs(d, f) /\ f.k \in Nat
    BY TextReads, SmallFloat
  <1>2. Accepts(u)
    OBVIOUS
  <1>3. Fits(d) /\ u \in Decimal
    BY <1>1 DEF Small, Fits
  <1> HIDE DEF f, u
  <1>4. s \in 1 .. Ten(Digits) - 1 /\ s * Ten(u.exp) = u.coef * 100
    <2>1. Normal(u).exp <= Places
      BY <1>2 DEF Accepts
    <2> QED
      BY <1>2, <1>3, <2>1, AcceptedKobo, KoboExact DEF KoboPerNaira
  <1>5. s \in Nat \ {0} /\ s < Ten(Digits)
    BY <1>4, HalfFacts
  <1> HIDE DEF s
  <1>6. Fits(b) /\ SameWorth(u, b) /\ b.coef < Ten(Digits) /\ b.exp = 2 /\ b.coef = s
    BY <1>4, <1>5, TenFew DEF Fits, Decimal, SameWorth
  <1> HIDE DEF b
  <1>7. FloatOf(b) = f
    BY <1>1, <1>6, WorthFloat
  <1>8. ReadsAs(b, f) /\ 200 < Q
    BY <1>6, <1>7, FewDigitsFloat, FloatIsRead
  <1>9. Fits(v) /\ SameWorth(b, v)
    <2>1. 3 \in 0 .. 4 /\ b.exp <= 3
      BY <1>6
    <2> HIDE DEF v
    <2> QED
      BY <1>6, <2>1, MorePlaces DEF v
  <1>10. v.coef = 10 * s /\ v.exp = 3
    <2>1. Ten(3 - b.exp) = 10
      BY <1>6, TenFew
    <2> QED
      BY <1>5, <1>6, <2>1
  <1> HIDE DEF v
  <1>11. ReadsAs(v, f)
    BY <1>6, <1>8, <1>9, WorthReads
  <1>12. (d.coef - v.coef) * Q <= 1000 /\ (v.coef - d.coef) * Q <= 1000
    BY <1>1, <1>3, <1>9, <1>10, <1>11, ReadGap, TenFew
  <1>13. d.coef \in Nat /\ v.coef \in Nat /\ Q \in Nat
    BY <1>1, <1>3, <1>9, FitsType, TwoType
  <1> HIDE DEF Q
  <1>14. ASSUME NEW a \in Int, a * Q <= 1000 PROVE a < 5
    <2> SUFFICES ASSUME 5 <= a PROVE FALSE
      BY <1>14
    <2>1. 5 * Q <= a * Q
      BY <1>13
    <2>2. 1005 <= 5 * Q /\ 5 * Q \in Int /\ a * Q \in Int
      BY <1>8, <1>13
    <2> QED
      BY <1>14, <2>1, <2>2
  <1>15. d.coef - v.coef < 5 /\ v.coef - d.coef < 5
    <2>1. d.coef - v.coef \in Int /\ v.coef - d.coef \in Int
      BY <1>13
    <2> QED
      BY <1>12, <1>14, <2>1
  <1>16. 2 * Apart(d.coef, s) < 10
    BY <1>5, <1>10, <1>13, <1>15 DEF Apart
  <1> QED
    BY <1>16 DEF f, u, s
=============================================================================
