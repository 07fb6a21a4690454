---------------------------- MODULE MoneyProofs -----------------------------
(***************************************************************************)
(* What Money guarantees for every number of digits and every size of      *)
(* float that tells prices of these digits apart, and for every price in   *)
(* thousandths that a client sends: it is stored as it was sent, told as   *)
(* it is stored, and sent back without a change.  IInv adds to the type    *)
(* invariant what has become of the price in each state.                   *)
(***************************************************************************)
EXTENDS MoneyFloats

Sent == [form : {"number", "string"}, price : [coef : 0 .. MaxLiteral, exp : {Places + 1}]]

\* The price as pydantic got it.
Price == Understood(sent.form, sent.price)

IInv ==
    /\ TypeOK
    /\ sent # Nothing => sent \in Sent
    /\ sent # Nothing /\ stored = Nothing => ~Accepts(Price)
    /\ stored # Nothing =>
          /\ sent # Nothing /\ status # 422
          /\ Accepts(Price) /\ stored = NairaToKobo(Price)
    /\ told # Nothing => stored # Nothing /\ told = NairaToJson(KoboToNaira(stored))

----------------------------------------------------------------------------
\* What is sent, and what pydantic makes of it, are decimals.
LEMMA SentDecimal ==
    ASSUME NEW d \in [coef : 0 .. MaxLiteral, exp : {Places + 1}]
    PROVE  /\ d \in Decimal /\ d.exp = 3 /\ d.coef \in 0 .. MaxLiteral
           /\ d.coef # 0 => Small(d)
  <1>1. MaxLiteral \in Nat /\ MaxLiteral <= Ten(Digits + 3)
    <2>1. Digits + 3 \in Nat
      BY MoneyAssumption
    <2>2. Ten(Digits + 3) \in Nat
      BY <2>1, TenType
    <2> QED
      BY <2>2, MoneyAssumption
  <1>2. Ten(Digits + 3) = Ten(Digits) * 1000
    BY TenAdd, TenFew, MoneyAssumption
  <1>3. d \in Decimal /\ d.exp = 3 /\ d.coef \in 0 .. MaxLiteral
    BY <1>1 DEF Decimal, Places
  <1>4. ASSUME d.coef # 0 PROVE Small(d)
    <2>1. 2 * d.coef <= Half * 1000
      BY <1>1, <1>2, <1>3, HalfFacts
    <2>2. Fits(d)
      BY <1>3, <1>4 DEF Fits
    <2> QED
      BY <1>3, <2>1, <2>2, TenFew DEF Small
  <1> QED
    BY <1>3, <1>4

LEMMA UnderstoodDecimal ==
    ASSUME NEW d \in [coef : 0 .. MaxLiteral, exp : {Places + 1}], NEW form
    PROVE  Understood(form, d) \in Decimal
  <1>0. d.exp # 0
    BY SentDecimal
  <1>1. CASE form # "number"
    BY <1>1, SentDecimal DEF Understood
  <1>2. CASE form = "number" /\ d.coef = 0
    BY <1>0, <1>2, ZeroFloat, ZeroText DEF Understood, Decimal
  <1>3. CASE form = "number" /\ d.coef # 0
    <2>1. Fits(TextOf(FloatOf(d)))
      BY <1>3, SentDecimal, TextReads
    <2> QED
      BY <1>0, <1>3, <2>1 DEF Understood, Fits
  <1> QED
    BY <1>1, <1>2, <1>3

\* What a stored price is told as, and what is understood when this is sent back.
LEMMA ToldWorth ==
    ASSUME NEW s \in 1 .. Ten(Digits) - 1
    PROVE  LET w == NairaToJson(KoboToNaira(s))
               u == TextOf(FloatOf(w))
               k == [coef |-> s, exp |-> Places]
           IN  /\ k \in Decimal
               /\ w \in Decimal /\ w.exp \in 0 .. 4 /\ SameWorth(w, k)
               /\ Accepts(w) /\ NairaToKobo(w) = s
               /\ u \in Decimal /\ SameWorth(u, k)
               /\ Accepts(u) /\ NairaToKobo(u) = s
  <1> DEFINE n == KoboToNaira(s)
             w == NairaToJson(n)
             u == TextOf(FloatOf(w))
             k == [coef |-> s, exp |-> Places]
  <1>1. s \in Nat \ {0} /\ s < Ten(Digits)
    BY HalfFacts
  <1>2. k \in Decimal
    BY <1>1 DEF Decimal, Places
  <1>3. /\ n \in Decimal /\ n.exp <= Places /\ n.coef \in 1 .. s
        /\ SameWorth(n, k) /\ Accepts(n) /\ NairaToKobo(n) = s
    BY KoboRoundTrip
  <1>4. Normal(k) = n
    BY DEF KoboToNaira
  <1> HIDE DEF n
  <1>5. n.coef < Ten(Digits) /\ n.exp \in 0 .. 4
    BY <1>1, <1>3, HalfFacts DEF Decimal, Places
  <1> HIDE DEF k
  <1>6. ASSUME NEW c \in Decimal, c.exp \in 0 .. 4, SameWorth(c, k)
        PROVE  /\ TextOf(FloatOf(c)) \in Decimal /\ TextOf(FloatOf(c)).exp \in 0 .. 4
               /\ SameWorth(TextOf(FloatOf(c)), k)
    <2>1. Normal(c).coef < Ten(Digits)
      BY <1>2, <1>4, <1>5, <1>6, NormalUnique
    <2>2. /\ TextOf(FloatOf(c)) \in Decimal /\ TextOf(FloatOf(c)).exp \in 0 .. 4
          /\ SameWorth(TextOf(FloatOf(c)), c)
      BY <1>6, <2>1, ExactText
    <2> QED
      BY <1>2, <1>6, <2>2, SameWorthTransitive
  <1>7. w \in Decimal /\ w.exp \in 0 .. 4 /\ SameWorth(w, k)
    <2>1. CASE n.exp = 0
      BY <1>3, <1>5, <2>1 DEF NairaToJson
    <2>2. CASE n.exp # 0
      <3>1. w = TextOf(FloatOf(n))
        BY <2>2 DEF NairaToJson
      <3> HIDE DEF w
      <3> QED
        BY <1>3, <1>5, <1>6, <3>1
    <2> QED
      BY <2>1, <2>2
  <1> HIDE DEF w
  <1>8. u \in Decimal /\ SameWorth(u, k)
    BY <1>6, <1>7
  <1> HIDE DEF u
  <1>9. ASSUME NEW c \in Decimal, SameWorth(c, k)
        PROVE  Accepts(c) /\ NairaToKobo(c) = s
    <2>1. SameWorth(k, c)
      BY <1>9 DEF SameWorth
    <2>2. SameWorth(n, c)
      BY <1>2, <1>3, <1>9, <2>1, SameWorthTransitive
    <2> QED
      BY <1>3, <1>9, <2>2, SameKobo
  <1>10. /\ Accepts(w) /\ NairaToKobo(w) = s
         /\ Accepts(u) /\ NairaToKobo(u) = s
    BY <1>7, <1>8, <1>9
  <1> QED
    BY <1>2, <1>7, <1>8, <1>10 DEF n, w, u, k

\* A price sent again is the price that is stored, and is not refused.
LEMMA ResentIsStored ==
    ASSUME IInv, told # Nothing, Put("number", told, 200)
    PROVE  stored # Nothing /\ stored' = stored /\ status' = 200
  <1> DEFINE u == Understood("number", told)
  <1>1. stored # Nothing /\ told = NairaToJson(KoboToNaira(stored)) /\ stored \in 1 .. Ten(Digits) - 1
    BY DEF IInv, TypeOK
  <1>2. u = told \/ u = TextOf(FloatOf(told))
    BY DEF Understood
  <1>3. Accepts(u) /\ NairaToKobo(u) = stored
    BY <1>1, <1>2, ToldWorth
  <1> HIDE DEF u
  <1> QED
    BY <1>1, <1>3 DEF Put, u

----------------------------------------------------------------------------
\* The inductive invariant: what is stored is what was understood of the price
\* sent, and what is told is made of what is stored.
THEOREM MoneyInvariance == Spec => []IInv
  <1>1. Init => IInv
    BY DEF Init, IInv, TypeOK
  <1>2. IInv /\ [Next]_vars => IInv'
    <2> SUFFICES ASSUME IInv, [Next]_vars PROVE IInv'
      OBVIOUS
    <2>0. IInv
      OBVIOUS
    <2>1. ASSUME NEW form \in {"number", "string"}, NEW n \in 0 .. MaxLiteral, Create(form, n)
          PROVE  IInv'
      <3> DEFINE d == [coef |-> n, exp |-> Places + 1]
                 u == Understood(form, d)
      <3>1. /\ sent = Nothing /\ sent' = [form |-> form, price |-> d]
            /\ told' = told
            /\ Put(form, d, 201)
        BY <2>1 DEF Create
      <3>2. stored = Nothing /\ told = Nothing
        BY <2>0, <3>1 DEF IInv
      <3>3. d \in [coef : 0 .. MaxLiteral, exp : {Places + 1}] /\ d \in Decimal
        <4>1. d \in [coef : 0 .. MaxLiteral, exp : {Places + 1}]
          OBVIOUS
        <4> HIDE DEF d
        <4> QED
          BY <4>1, SentDecimal
      <3>4. u \in Decimal
        BY <3>3, UnderstoodDecimal
      <3> HIDE DEF d, u
      <3>5. sent' \in Sent /\ sent' # Nothing
        BY <3>1, <3>3, MoneyAssumption DEF Sent, Decimal
      <3>6. Price' = u
        BY <3>1 DEF Price, u
      <3>7. CASE Accepts(u)
        <4>1. status' = 201 /\ stored' = NairaToKobo(u)
          BY <3>1, <3>7 DEF Put, u
        <4>2. stored' \in 1 .. Ten(Digits) - 1
          BY <3>4, <3>7, <4>1, AcceptedKobo
        <4>3. stored' # Nothing
          BY <4>2, HalfFacts, MoneyAssumption
        <4>4. TypeOK'
          BY <3>1, <3>2, <3>5, <4>1, <4>2 DEF TypeOK, Sent
        <4> QED
          BY <3>1, <3>2, <3>5, <3>6, <3>7, <4>1, <4>3, <4>4 DEF IInv
      <3>8. CASE ~Accepts(u)
        <4>1. status' = 422 /\ stored' = Nothing
          BY <3>1, <3>2, <3>8 DEF Put, u
        <4>2. TypeOK'
          BY <3>1, <3>2, <3>5, <4>1 DEF TypeOK, Sent
        <4> QED
          BY <3>1, <3>2, <3>5, <3>6, <3>8, <4>1, <4>2 DEF IInv
      <3> QED
        BY <3>7, <3>8
    <2>2. CASE Get
      <3>1. /\ stored # Nothing /\ told' = NairaToJson(KoboToNaira(stored))
            /\ sent' = sent /\ status' = status /\ stored' = stored
        BY <2>2 DEF Get
      <3>2. stored \in 1 .. Ten(Digits) - 1
        BY <2>0, <3>1 DEF IInv, TypeOK
      <3>3. told' \in Decimal /\ told'.exp \in 0 .. 4
        BY <3>1, <3>2, ToldWorth
      <3>4. TypeOK'
        BY <2>0, <3>1, <3>3 DEF IInv, TypeOK, Decimal
      <3>5. Price' = Price
        BY <3>1 DEF Price
      <3> QED
        BY <2>0, <3>1, <3>4, <3>5 DEF IInv
    <2>3. CASE Update
      <3>1. told # Nothing /\ Put("number", told, 200) /\ sent' = sent /\ told' = told
        BY <2>3 DEF Update
      <3>2. stored # Nothing /\ stored' = stored /\ status' = 200
        BY <2>0, <3>1, ResentIsStored
      <3>3. Price' = Price
        BY <3>1 DEF Price
      <3>4. TypeOK'
        BY <2>0, <3>1, <3>2 DEF IInv, TypeOK
      <3> QED
        BY <2>0, <3>1, <3>2, <3>3, <3>4 DEF IInv
    <2>4. CASE UNCHANGED vars
      BY <2>0, <2>4 DEF IInv, TypeOK, Price, vars
    <2> QED
      BY <2>1, <2>2, <2>3, <2>4 DEF Next
  <1> QED
    BY <1>1, <1>2, PTL DEF Spec

\* A stored price is positive and has no more digits than a price may have.
THEOREM MoneyTypeCorrect == Spec => []TypeOK
  <1>1. IInv => TypeOK
    BY DEF IInv
  <1> QED
    BY <1>1, MoneyInvariance, PTL

\* A price is stored as it was sent: exactly if it is a string or has no more
\* digits than it may have, and to less than half a kobo if it has more.
THEOREM AmountsKept == Spec => []AmountIsKept
  <1>1. IInv => AmountIsKept
    <2> SUFFICES ASSUME IInv, sent # Nothing
                 PROVE  LET d == sent.price
                            exact == sent.form = "string" \/ Normal(d).coef < Ten(Digits)
                        IN  /\ stored # Nothing => 2 * Apart(d.coef, stored) < 10
                            /\ exact => /\ stored = Nothing <=> ~Accepts(d)
                                        /\ stored # Nothing => Apart(d.coef, stored) = 0
      BY DEF AmountIsKept
    <2> DEFINE d == sent.price
               u == Price
    <2>1. /\ sent.form \in {"number", "string"}
          /\ d \in [coef : 0 .. MaxLiteral, exp : {Places + 1}]
      BY DEF IInv, Sent
    <2>2. /\ stored = Nothing => ~Accepts(u)
          /\ stored # Nothing => Accepts(u) /\ stored = NairaToKobo(u)
      BY DEF IInv
    <2>3. u = Understood(sent.form, d)
      BY DEF Price
    <2>4. u \in Decimal
      BY <2>1, <2>3, UnderstoodDecimal
    <2>5. d \in Decimal /\ d.exp = 3 /\ (d.coef # 0 => Small(d))
      BY <2>1, SentDecimal
    <2> HIDE DEF d, u
    <2>6. ASSUME sent.form = "string" \/ Normal(d).coef < Ten(Digits)
          PROVE  SameWorth(u, d)
      <3>1. CASE sent.form = "string"
        BY <2>3, <3>1 DEF Understood, SameWorth
      <3>2. CASE sent.form = "number" /\ Normal(d).coef < Ten(Digits)
        <4>1. u = TextOf(FloatOf(d))
          BY <2>3, <2>5, <3>2 DEF Understood
        <4>2. d.exp \in 0 .. 4
          BY <2>5
        <4> QED
          BY <2>5, <3>2, <4>1, <4>2, ExactText
      <3> QED
        BY <2>1, <2>6, <3>1, <3>2
    <2>7. ASSUME SameWorth(u, d), Accepts(u)
          PROVE  Apart(d.coef, NairaToKobo(u)) = 0
      <3>1. Accepts(d) /\ NairaToKobo(u) = NairaToKobo(d)
        BY <2>4, <2>5, <2>7, SameKobo
      <3>2. NairaToKobo(d) \in Nat /\ NairaToKobo(d) * 1000 = d.coef * 100
        <4>1. Normal(d).exp <= Places
          BY <3>1 DEF Accepts
        <4> QED
          BY <2>5, <4>1, KoboExact, TenFew DEF KoboPerNaira
      <3>3. d.coef \in Nat
        BY <2>5 DEF Decimal
      <3> QED
        BY <3>1, <3>2, <3>3 DEF Apart
    <2>8. ASSUME sent.form = "string" \/ Normal(d).coef < Ten(Digits)
          PROVE  /\ stored = Nothing <=> ~Accepts(d)
                 /\ stored # Nothing => Apart(d.coef, stored) = 0
      <3>1. SameWorth(u, d)
        BY <2>6, <2>8
      <3>2. Accepts(u) <=> Accepts(d)
        BY <2>4, <2>5, <3>1, SameKobo
      <3> QED
        BY <2>2, <2>7, <3>1, <3>2
    <2>9. ASSUME stored # Nothing
          PROVE  2 * Apart(d.coef, stored) < 10
      <3>1. Accepts(u) /\ stored = NairaToKobo(u)
        BY <2>2, <2>9
      <3>2. CASE sent.form = "string"
        <4>1. Apart(d.coef, stored) = 0
          BY <2>8, <2>9, <3>2
        <4> QED
          BY <4>1
      <3>3. CASE sent.form = "number"
        <4>1. u = TextOf(FloatOf(d))
          BY <2>3, <2>5, <3>3 DEF Understood
        <4>2. d.coef # 0
          <5> SUFFICES ASSUME d.coef = 0 PROVE FALSE
            OBVIOUS
          <5>1. SameWorth(u, d)
            BY <4>1, ZeroFloat, ZeroText, TenFew, <2>5 DEF SameWorth
          <5>2. Accepts(d)
            BY <2>4, <2>5, <3>1, <5>1, SameKobo
          <5>3. /\ Normal(d) \in Decimal /\ Normal(d).exp <= d.exp
                /\ 0 = Normal(d).coef * Ten(d.exp - Normal(d).exp)
            BY <2>5, NormalDefined
          <5>4. Normal(d).exp \in Nat /\ Normal(d).coef \in Nat /\ 3 - Normal(d).exp \in Nat
            BY <2>5, <5>3 DEF Decimal
          <5>5. Ten(d.exp - Normal(d).exp) \in Nat \ {0}
            BY <2>5, <5>4, TenType
          <5>6. Normal(d).coef = 0
            BY <5>3, <5>4, <5>5
          <5> QED
            BY <5>2, <5>6 DEF Accepts
        <4> QED
          BY <2>5, <3>1, <4>1, <4>2, NearKobo
      <3> QED
        BY <2>1, <3>2, <3>3
    <2> QED
      BY <2>8, <2>9 DEF d
  <1> QED
    BY <1>1, MoneyInvariance, PTL

\* Every answer tells the stored price to the kobo, as it is written and as it is
\* read.
THEOREM ToldTruly == Spec => []ToldIsStored
  <1>1. IInv => ToldIsStored
    <2> SUFFICES ASSUME IInv, told # Nothing,
                        NEW reading \in {told, TextOf(FloatOf(told))}
                 PROVE  reading.coef * KoboPerNaira = stored * Ten(reading.exp)
      BY DEF ToldIsStored
    <2>1. told = NairaToJson(KoboToNaira(stored)) /\ stored \in 1 .. Ten(Digits) - 1
      BY DEF IInv, TypeOK
    <2>2. SameWorth(reading, [coef |-> stored, exp |-> Places])
      BY <2>1, ToldWorth
    <2> QED
      BY <2>2, TenFew DEF SameWorth, Places, KoboPerNaira
  <1> QED
    BY <1>1, MoneyInvariance, PTL

\* A client that sends back the price it was told is not refused, and changes
\* nothing, however often it does.
THEOREM ResendsKeep == Spec => ResendChangesNothing
  <1>1. IInv /\ [Next]_vars => [told # Nothing => stored' = stored /\ status' # 422]_vars
    <2> SUFFICES ASSUME IInv, Next, told # Nothing
                 PROVE  stored' = stored /\ status' # 422
      BY DEF vars
    <2>1. sent # Nothing /\ stored # Nothing /\ status # 422
      BY DEF IInv
    <2>2. CASE Get
      BY <2>1, <2>2 DEF Get
    <2>3. CASE Update
      BY <2>3, ResentIsStored DEF Update
    <2>4. ASSUME NEW form, NEW n, Create(form, n) PROVE FALSE
      BY <2>1, <2>4 DEF Create
    <2> QED
      BY <2>2, <2>3, <2>4 DEF Next
  <1> QED
    BY <1>1, MoneyInvariance, PTL DEF Spec, ResendChangesNothing

\* The code's own prices, of 15 digits and two places, and its floats, of 53 bits,
\* are among those the theorems are about: MoneyAssumption's condition holds.
THEOREM FloatsAreFineEnough == 15 > Places /\ 4 * Ten(15) <= Two(53)
  <1>1. Ten(15) = 1000000000000000
    <2>1. Ten(7) = 10000000
      <3>1. Ten(3 + 4) = Ten(3) * Ten(4)
        BY TenAdd
      <3> QED
        BY <3>1, TenFew
    <2>2. Ten(8) = 100000000
      <3>1. Ten(4 + 4) = Ten(4) * Ten(4)
        BY TenAdd
      <3> QED
        BY <3>1, TenFew
    <2>3. Ten(7 + 8) = Ten(7) * Ten(8)
      BY TenAdd
    <2> QED
      BY <2>1, <2>2, <2>3
  <1>2. Two(53) = 9007199254740992
    <2>1. Two(1 + 1) = 2 * Two(1) /\ Two(2 + 1) = 2 * Two(2)
      BY TwoNext
    <2>2. Two(2) = 4 /\ Two(3) = 8
      BY <2>1, TwoFew
    <2>3. Two(2 + 3) = Two(2) * Two(3)
      BY TwoAdd
    <2>4. Two(5) = 32
      BY <2>2, <2>3
    <2>5. Two(5 + 5) = Two(5) * Two(5)
      BY TwoAdd
    <2>6. Two(10) = 1024
      BY <2>4, <2>5
    <2>7. Two(10 + 10) = Two(10) * Two(10)
      BY TwoAdd
    <2>8. Two(20) = 1048576
      BY <2>6, <2>7
    <2>9. Two(20 + 20) = Two(20) * Two(20)
      BY TwoAdd
    <2>10. Two(40) = 1099511627776
      BY <2>8, <2>9
    <2>11. Two(40 + 10) = Two(40) * Two(10)
      BY TwoAdd
    <2>12. Two(50) = 1125899906842624
      BY <2>6, <2>10, <2>11
    <2>13. Two(50 + 3) = Two(50) * Two(3)
      BY TwoAdd
    <2> QED
      BY <2>2, <2>12, <2>13
  <1> QED
    BY <1>1, <1>2 DEF Places
=============================================================================
