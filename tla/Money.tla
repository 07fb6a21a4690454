------------------------------- MODULE Money --------------------------------
(***************************************************************************)
(* A price on its way through the API: a JSON number or string, a float, a *)
(* Decimal of naira, an integer of kobo in the database, and a JSON number *)
(* again, which a client may send back as it got it.                       *)
(*                                                                         *)
(* A decimal is [coef, exp], coef / 10^exp; a float is [m, k], m / 2^k,    *)
(* with a mantissa m of Bits bits.  The code has 15 digits and floats of   *)
(* 53 bits; smaller numbers with 4 * 10^Digits <= 2^Bits behave alike.     *)
(***************************************************************************)
EXTENDS Integers, FiniteSetsExt

CONSTANTS
    Digits,       \* max_digits of a price
    Bits,         \* bits of a float's mantissa
    MaxLiteral,   \* bound on the prices sent, in thousandths of a naira
    Nothing       \* no price

KoboPerNaira == 100
Places == 2

\* The powers of b.
Power(b) == LET p[n \in Nat] == IF n = 0 THEN 1 ELSE b * p[n - 1] IN p
Ten(n) == Power(10)[n]
Two(n) == Power(2)[n]

ASSUME MoneyAssumption ==
    /\ Digits \in Nat /\ Digits > Places
    /\ Bits \in Nat /\ 4 * Ten(Digits) <= Two(Bits)
    /\ MaxLiteral \in 0 .. Ten(Digits + 3)
    /\ Nothing \notin Int \cup [form : {"number", "string"}, price : [coef : Nat, exp : Nat]]

VARIABLES
    sent,     \* the price of the POST and how it is written, or Nothing
    status,   \* of the last answer to a POST or PATCH: 201, 200, 422, or Nothing
    stored,   \* listings.price, in kobo, or Nothing
    told      \* the price in the last answer to a GET, or Nothing

vars == <<sent, status, stored, told>>

----------------------------------------------------------------------------
\* Decimals.  A decimal is normal if it has no zeros at the end of its places.
Normal(d) ==
    LET e == Min({x \in 0 .. d.exp : d.coef % Ten(d.exp - x) = 0})
    IN  [coef |-> d.coef \div Ten(d.exp - e), exp |-> e]

\* Mutant of Accepts: decimal_places is not given.
AcceptsAnyPlaces(d) ==
    LET n == Normal(d)
    IN  n.coef > 0 /\ n.coef < Ten(Digits) /\ n.exp <= Digits

\* What Field(max_digits, decimal_places, gt=0) accepts: no more places than
\* Places, and before the point no more digits than then are left.
Accepts(d) ==
    LET n == Normal(d)
    IN  /\ n.coef > 0
        /\ n.exp <= Places
        /\ n.coef < Ten(Digits - Places + n.exp)

\* Floats.  The float next to a decimal; of two, the one with an even mantissa.
FloatOf(d) ==
    IF d.coef = 0 THEN [m |-> 0, k |-> 0]
    ELSE LET k == CHOOSE x \in 0 .. 3 * Bits :
                    /\ Two(Bits - 1) * Ten(d.exp) <= d.coef * Two(x)
                    /\ d.coef * Two(x) < Two(Bits) * Ten(d.exp)
             low == (d.coef * Two(k)) \div Ten(d.exp)
             rest == 2 * ((d.coef * Two(k)) % Ten(d.exp)) - Ten(d.exp)
             m == IF rest > 0 \/ (rest = 0 /\ low % 2 = 1) THEN low + 1 ELSE low
         IN  IF m = Two(Bits) THEN [m |-> Two(Bits - 1), k |-> k - 1] ELSE [m |-> m, k |-> k]

\* The decimal Python writes for a float: of those with the fewest places that
\* read as this float again, the nearest.
TextOf(f) ==
    LET Near(e) == {c \in {(f.m * Ten(e)) \div Two(f.k), (f.m * Ten(e)) \div Two(f.k) + 1} :
                        FloatOf([coef |-> c, exp |-> e]) = f}
        Off(c, e) == LET o == f.m * Ten(e) - c * Two(f.k) IN IF o < 0 THEN -o ELSE o
        places == Min({e \in 0 .. 4 : Near(e) # {}})
    IN  [coef |-> CHOOSE c \in Near(places) :
                     \A b \in Near(places) : Off(c, places) <= Off(b, places),
         exp |-> places]

\* A price as pydantic gets it: a JSON number with a point has been made a float, and
\* is converted by way of the float's text; an integer or a string is read as it stands.
Understood(form, d) == IF form = "number" /\ d.exp # 0 THEN TextOf(FloatOf(d)) ELSE d

\* Mutant of NairaToKobo: int(float(naira) * 100).
NairaToKoboFloat(d) == (FloatOf(d).m * KoboPerNaira) \div Two(FloatOf(d).k)

NairaToKobo(d) == (d.coef * KoboPerNaira) \div Ten(d.exp)

KoboToNaira(k) == Normal([coef |-> k, exp |-> Places])

\* Mutant of NairaToJson: int(value) for every price.
NairaToJsonInt(d) == [coef |-> d.coef \div Ten(d.exp), exp |-> 0]

\* A whole amount is written as an integer, another one as a float.
NairaToJson(d) == IF d.exp = 0 THEN d ELSE TextOf(FloatOf(d))

----------------------------------------------------------------------------
Init ==
    /\ sent = Nothing
    /\ status = Nothing
    /\ stored = Nothing
    /\ told = Nothing

\* A price d is put in a POST or a PATCH: stored in kobo, or refused.
Put(form, d, success) ==
    LET u == Understood(form, d)
    IN  \/ /\ Accepts(u)
           /\ status' = success
           /\ stored' = NairaToKobo(u)
        \/ /\ ~Accepts(u)
           /\ status' = 422
           /\ UNCHANGED stored

\* The price is written with three places; to write it as an integer is the same as
\* to write it as a string.
Create(form, n) ==
    /\ sent = Nothing
    /\ LET d == [coef |-> n, exp |-> Places + 1]
       IN  /\ sent' = [form |-> form, price |-> d]
           /\ Put(form, d, 201)
    /\ UNCHANGED told

Get ==
    /\ stored # Nothing
    /\ told' = NairaToJson(KoboToNaira(stored))
    /\ UNCHANGED <<sent, status, stored>>

\* A client sends the price back as it read it.
Update ==
    /\ told # Nothing
    /\ Put("number", told, 200)
    /\ UNCHANGED <<sent, told>>

Next ==
    \/ \E form \in {"number", "string"}, n \in 0 .. MaxLiteral : Create(form, n)
    \/ Get
    \/ Update

Spec == Init /\ [][Next]_vars

----------------------------------------------------------------------------
\* A stored price is positive and has no more digits than a price may have,
\* which is what keeps it within BIGINT and true to its CHECK constraint.
TypeOK ==
    /\ sent # Nothing => sent.form \in {"number", "string"} /\ sent.price.coef \in 0 .. MaxLiteral
    /\ status \in {Nothing, 200, 201, 422}
    /\ stored # Nothing => stored \in 1 .. Ten(Digits) - 1
    /\ told # Nothing => told.coef \in Nat /\ told.exp \in 0 .. 4

\* The difference of a number of thousandths and of kobo, in thousandths.
Apart(n, kobo) == IF n > 10 * kobo THEN n - 10 * kobo ELSE 10 * kobo - n

\* No money is lost on the way in.  A price written as a string, or with no more
\* digits than it may have, is stored as it was sent, and refused just if it is
\* none.  A number with more digits has become a float before it is looked at:
\* if that float is a price, it is less than half a kobo from what was sent.
AmountIsKept ==
    LET d == sent.price
        exact == sent.form = "string" \/ Normal(d).coef < Ten(Digits)
    IN  sent # Nothing =>
            /\ stored # Nothing => 2 * Apart(d.coef, stored) < 10
            /\ exact => /\ stored = Nothing <=> ~Accepts(d)
                        /\ stored # Nothing => Apart(d.coef, stored) = 0

\* Every answer tells the price that is stored, to the kobo, though it may have
\* been made a float, a text and a float again by the time a client reads it.
ToldIsStored ==
    told # Nothing =>
        \A reading \in {told, TextOf(FloatOf(told))} :
            reading.coef * KoboPerNaira = stored * Ten(reading.exp)

\* A client that sends back the price it was told changes nothing: the price does
\* not creep from one PATCH to the next, and none of them is refused.
ResendChangesNothing == [][told # Nothing => stored' = stored /\ status' # 422]_vars
=============================================================================
