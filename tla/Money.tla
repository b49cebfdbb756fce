-------------------------------- MODULE Money --------------------------------
(***************************************************************************)
(* The decimals of src/src/money.ts.  An amount is an integer, in units of *)
(* the last fraction digit; outside the program it is a decimal string,    *)
(* here a sign and the digits before and after the point.                  *)
(***************************************************************************)
EXTENDS Integers, Sequences

CONSTANTS
    Decimals,       \* SCALE_DECIMALS
    IntegerDigits,  \* the most digits before the point, of MONEY_RE and of NUMERIC(28,8)
    MoneyError      \* what parseAmount throws

ASSUME MoneyAssumption ==
    Decimals \in Nat \ {0} /\ IntegerDigits \in Nat \ {0} /\ MoneyError \notin Int

Abs(n) == IF n < 0 THEN -n ELSE n

\* BigInt of digits.
NumberOf(digits) ==
    LET upTo[i \in 0 .. Len(digits)] == IF i = 0 THEN 0 ELSE 10 * upTo[i - 1] + digits[i]
    IN  upTo[Len(digits)]

Zeros(n) == [i \in 1 .. n |-> 0]
TenTo(k) == NumberOf(<<1>> \o Zeros(k))
SCALE == TenTo(Decimals)

\* The digits of a BigInt, as few as it needs.
LengthOf(n) == CHOOSE k \in 1 .. n + 1 : n < TenTo(k) /\ (k = 1 \/ TenTo(k - 1) <= n)
Digits(n, length) == [i \in 1 .. length |-> (n \div TenTo(length - i)) % 10]
DigitsOf(n) == Digits(n, LengthOf(n))

WithoutTrailingZeros(digits) ==
    LET significant == {i \in DOMAIN digits : digits[i] # 0}
    IN  IF significant = {} THEN <<>>
        ELSE SubSeq(digits, 1, CHOOSE i \in significant : \A j \in significant : j <= i)

ParseAmount(text) ==
    IF Len(text.int) \in 1 .. IntegerDigits /\ Len(text.frac) \in 0 .. Decimals
    THEN LET frac == text.frac \o Zeros(Decimals - Len(text.frac))
         IN  (IF text.neg THEN -1 ELSE 1) * (NumberOf(text.int) * SCALE + NumberOf(frac))
    ELSE MoneyError

\* The fraction digits of an amount, as many as there are decimals.
FractionOf(n) ==
    LET digits == DigitsOf(Abs(n) % SCALE) IN Zeros(Decimals - Len(digits)) \o digits

\* Fault: the fraction is not padded.
FormatAmountUnpadded(n) ==
    [neg |-> n < 0, int |-> DigitsOf(Abs(n) \div SCALE),
     frac |-> WithoutTrailingZeros(DigitsOf(Abs(n) % SCALE))]

FormatAmount(n) ==
    [neg |-> n < 0, int |-> DigitsOf(Abs(n) \div SCALE), frac |-> WithoutTrailingZeros(FractionOf(n))]

\* How the database renders a NUMERIC of that scale.
DbNumeric(n) == [neg |-> n < 0, int |-> DigitsOf(Abs(n) \div SCALE), frac |-> FractionOf(n)]
=============================================================================
