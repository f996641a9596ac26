---------------------------- MODULE DecimalAmount ----------------------------
(***************************************************************************)
(* The decimal texts of Sezzle's reports and the integers read from them   *)
(* (src/src/domain/decimal.ts, src/src/domain/settlement.ts).              *)
(*                                                                         *)
(* A text is typed one part after the other, so that every beginning of a  *)
(* text is an input as well.  Whatever the pattern of decimal.ts refuses   *)
(* for other reasons than a missing digit is left out.                     *)
(***************************************************************************)
EXTENDS Integers, Sequences, SequencesExt

CONSTANTS
  Digits,       \* the digits that occur
  Exponents,    \* the exponents that occur
  MaxExponent,  \* 10_000
  MaxCents,     \* Number.MAX_SAFE_INTEGER
  MaxWhole, MaxFraction  \* bounds on the digits before and after the point

ASSUME DecimalAssumption ==
  /\ Digits \subseteq 0..9 /\ Exponents \subseteq Int
  /\ {MaxExponent, MaxCents, MaxWhole, MaxFraction} \subseteq Nat

VARIABLE text

\* The groups of decimalPattern; without an exponent it is 0.
Blank(negative) ==
  [negative |-> negative, whole |-> << >>, point |-> FALSE, fraction |-> << >>,
   exponent |-> 0]

TextInit == \E negative \in BOOLEAN : text = Blank(negative)

TypeWhole(d) ==
  /\ ~text.point /\ text.exponent = 0 /\ Len(text.whole) < MaxWhole
  /\ text' = [text EXCEPT !.whole = Append(@, d)]

TypePoint ==
  /\ ~text.point /\ text.exponent = 0
  /\ text' = [text EXCEPT !.point = TRUE]

TypeFraction(d) ==
  /\ text.point /\ text.exponent = 0 /\ Len(text.fraction) < MaxFraction
  /\ text' = [text EXCEPT !.fraction = Append(@, d)]

TypeExponent(e) ==
  /\ text.exponent = 0 /\ e # 0
  /\ text' = [text EXCEPT !.exponent = e]

TextNext ==
  \/ \E d \in Digits : TypeWhole(d) \/ TypeFraction(d)
  \/ TypePoint
  \/ \E e \in Exponents : TypeExponent(e)

TextSpec == TextInit /\ [][TextNext]_text

-----------------------------------------------------------------------------
(* Digits and integers.                                                    *)

Zeros(n) == [i \in 1..n |-> 0]
AllZero(digits) == \A i \in DOMAIN digits : digits[i] = 0
Power[n \in Nat] == IF n = 0 THEN 1 ELSE 10 * Power[n - 1]
Integer(digits) == FoldLeft(LAMBDA n, d : 10 * n + d, 0, digits)
DigitsOf[n \in Nat] == IF n < 10 THEN <<n>> ELSE Append(DigitsOf[n \div 10], n % 10)

\* Leading zeros go, the last digit stays.
WithoutLeadingZeros(digits) ==
  LET start == CHOOSE i \in DOMAIN digits :
                 /\ \A j \in 1..(i - 1) : digits[j] = 0
                 /\ i = Len(digits) \/ digits[i] # 0
  IN  SubSeq(digits, start, Len(digits))

-----------------------------------------------------------------------------
(* Reading and writing.                                                    *)

Units(n) == [code |-> "OK", units |-> n]
Refused(code) == [code |-> code, units |-> 0]

\* A text that begins with its point has a zero put before it.
Whole(t) == IF t.whole = << >> /\ t.point THEN <<0>> ELSE t.whole

\* Fault: digits beyond the scale are cut off.
ShiftedCut(digits, shift) ==
  IF shift >= 0 THEN Units(Integer(digits \o Zeros(shift)))
  ELSE IF -shift > Len(digits) THEN Units(0)
  ELSE Units(Integer(SubSeq(digits, 1, Len(digits) + shift)))

\* Digits beyond the scale must be zeros.
Shifted(digits, shift) ==
  LET left == Len(digits) + shift IN
  IF shift >= 0 THEN Units(Integer(digits \o Zeros(shift)))
  ELSE IF left < 0 THEN
    IF AllZero(digits) THEN Units(0) ELSE Refused("DECIMAL_PRECISION_EXCEEDED")
  ELSE IF ~AllZero(SubSeq(digits, left + 1, Len(digits)))
    THEN Refused("DECIMAL_PRECISION_EXCEEDED")
  ELSE Units(Integer(SubSeq(digits, 1, left)))

ParseDecimalToScaledUnits(t, scale) ==
  IF Whole(t) = << >> THEN Refused("INVALID_DECIMAL_AMOUNT")
  ELSE IF t.exponent \notin -MaxExponent..MaxExponent THEN Refused("DECIMAL_OUT_OF_RANGE")
  ELSE LET parsed == Shifted(WithoutLeadingZeros(Whole(t) \o t.fraction),
                             t.exponent - Len(t.fraction) + scale)
       IN  IF t.negative THEN [parsed EXCEPT !.units = -@] ELSE parsed

ScaledUnitsToSafeNumber(parsed) ==
  IF parsed.code = "OK" /\ parsed.units \notin -MaxCents..MaxCents
    THEN Refused("AMOUNT_OUT_OF_RANGE")
  ELSE parsed

SignedMoney(t) == ScaledUnitsToSafeNumber(ParseDecimalToScaledUnits(t, 2))

FormatScaledUnits(units, scale) ==
  LET plain == DigitsOf[IF units < 0 THEN -units ELSE units]
      digits == Zeros(scale + 1 - Len(plain)) \o plain
      split == Len(digits) - scale
  IN  [negative |-> units < 0, whole |-> SubSeq(digits, 1, split), point |-> scale > 0,
       fraction |-> SubSeq(digits, split + 1, Len(digits)), exponent |-> 0]

\* A balance or a change of the interest account, as units and as text.
InterestDecimal(t) ==
  LET parsed == ParseDecimalToScaledUnits(t, 4) IN
  [code |-> parsed.code, units |-> parsed.units,
   decimal |-> FormatScaledUnits(parsed.units, 4)]

-----------------------------------------------------------------------------
(* Properties.                                                             *)

\* A text that has a digit denotes Coefficient * 10^Weight units of a scale.
Denominated == text.whole \o text.fraction # << >> /\ text.exponent \in -MaxExponent..MaxExponent
Coefficient(t) ==
  LET n == Integer(t.whole \o t.fraction) IN IF t.negative THEN -n ELSE n
Weight(t, scale) == t.exponent - Len(t.fraction) + scale

Denotes(t, scale, n) ==
  LET weight == Weight(t, scale) IN
  IF weight >= 0 THEN n = Coefficient(t) * Power[weight]
  ELSE n * Power[-weight] = Coefficient(t)

Representable(t, scale) ==
  Weight(t, scale) >= 0 \/ Integer(t.whole \o t.fraction) % Power[-Weight(t, scale)] = 0

\* Amounts are read exactly or refused, never rounded, whatever zeros and exponents they
\* are written with, and refused only if no safe number of cents, or no number of
\* ten-thousandths, is what they say; and what is written of a balance, of any sign and
\* size, is what was read (decimal.ts:35-75, settlement.ts:102, 255).
AmountsExact ==
  LET money == SignedMoney(text)
      interest == InterestDecimal(text)
  IN  Denominated =>
        /\ IF money.code = "OK" THEN Denotes(text, 2, money.units)
           ELSE ~Representable(text, 2) \/ \A n \in -MaxCents..MaxCents : ~Denotes(text, 2, n)
        /\ IF interest.code = "OK"
             THEN /\ Denotes(text, 4, interest.units)
                  /\ Denotes(interest.decimal, 4, interest.units)
                  /\ Len(interest.decimal.fraction) = 4
           ELSE ~Representable(text, 4)
=============================================================================
