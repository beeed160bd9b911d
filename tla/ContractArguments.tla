-------------------------- MODULE ContractArguments --------------------------
(***************************************************************************)
(* How identifiers and amounts become arguments of contract calls, and how *)
(* an identifier comes back in an event: uuidToFelt252, felt252ToUuid,     *)
(* convertToWei and bnToUint256.  An order is found again only if what     *)
(* comes back names it.                                                    *)
(*                                                                         *)
(* A text is a sequence of characters: digits are numbers, and Hyphen, Dot *)
(* and Other (any further character) lie outside them.  Upper case, which  *)
(* denotes the same digits, is left out.                                   *)
(***************************************************************************)
EXTENDS Integers, Sequences, SequencesExt, FiniteSetsExt

CONSTANTS
    Base,       \* 16 for identifiers, 10 for amounts: one small base stands for both
    IdLength,   \* digits of a uuid: 32
    Cuts,       \* after so many digits of a uuid comes a hyphen: 8, 12, 16, 20
    Decimals,   \* getTokenDecimals: 18 for every token
    Word,       \* 2^128
    MaxLength   \* bound: length of the texts tried

ArgumentsAssumption ==
    /\ Base \in Nat \ {0, 1} /\ IdLength \in Nat \ {0} /\ Word \in Nat \ {0}
    /\ Cuts \subseteq 1..(IdLength - 1)
    /\ Decimals \in Nat /\ MaxLength \in Nat

VARIABLE text    \* what a caller wrote

Digits == 0..(Base - 1)
Hyphen == -1
Dot    == -2
Other  == -3
Throws == -1     \* instead of a number

IsDigits(s) == \A i \in 1..Len(s) : s[i] \in Digits
Number(s)   == FoldLeft(LAMBDA value, digit : value * Base + digit, 0, s)
Zeros(n)    == [i \in 1..Max({n, 0}) |-> 0]
Without(s, c) ==
    FoldLeft(LAMBDA kept, char : IF char = c THEN kept ELSE Append(kept, char), <<>>, s)

(***************************************************************************)
(* Identifiers.                                                            *)
(***************************************************************************)
Clean(s) == Without(s, Hyphen)

\* A wrong length throws here, another character in BigInt.
uuidToFelt252(s) ==
    IF Len(Clean(s)) = IdLength /\ IsDigits(Clean(s)) THEN Number(Clean(s)) ELSE Throws

\* num.toHex: no leading zeros.
toHex[n \in Nat] == IF n < Base THEN <<n>> ELSE Append(toHex[n \div Base], n % Base)

PadStart(s) == Zeros(IdLength - Len(s)) \o s

\* The slices of the digits; the last one takes what is left.
Hyphenated(s) ==
    FlattenSeq([i \in 1..Len(s) |-> IF i - 1 \in Cuts THEN <<Hyphen, s[i]>> ELSE <<s[i]>>])

\* Mutant: the leading zeros are lost.
felt252ToUuidUnpadded(felt) == Hyphenated(toHex[felt])

felt252ToUuid(felt) == Hyphenated(PadStart(toHex[felt]))

(***************************************************************************)
(* Amounts.                                                                *)
(***************************************************************************)
\* The pieces of text.split('.'): what stands before the first dot, and between
\* the first and the second.
FirstDot(s)  == Min({i \in 1..Len(s) : s[i] = Dot} \cup {Len(s) + 1})
WholePart(s) == SubSeq(s, 1, FirstDot(s) - 1)
DecimalPart(s) ==
    LET piece == WholePart(SubSeq(s, FirstDot(s) + 1, Len(s)))
    IN  IF piece = <<>> THEN <<0>> ELSE piece

\* An empty text is 0 and a sign may lead.  White space, which is skipped, and
\* the prefixes of other bases are left out.
BigInt(s) ==
    IF IsDigits(s) THEN Number(s)
    ELSE IF Head(s) = Hyphen /\ Len(s) > 1 /\ IsDigits(Tail(s)) THEN -Number(Tail(s))
    ELSE Throws

\* padEnd and substring: exactly Decimals characters.
PaddedDecimalPart(s) ==
    [i \in 1..Decimals |-> IF i <= Len(DecimalPart(s)) THEN DecimalPart(s)[i] ELSE 0]

convertToWei(s) == BigInt(WholePart(s) \o PaddedDecimalPart(s))

\* bnToUint256: low and high word; it refuses what is negative or too large.
Refused == <<>>
bnToUint256(n) ==
    IF n >= 0 /\ n < Word * Word THEN <<n % Word, n \div Word>> ELSE Refused

\* The amount of swap_token_to_fiat, in the token's smallest unit.
TokenAmount(s) == bnToUint256(convertToWei(s))

\* That of swap_fiat_to_token: BigInt of a number, which throws on a fraction.
FiatAmount(s) ==
    IF \A i \in 1..Len(DecimalPart(s)) : DecimalPart(s)[i] = 0
      THEN bnToUint256(BigInt(WholePart(s)))
      ELSE Refused

(***************************************************************************)
(* Every text of at most MaxLength characters is tried.                    *)
(***************************************************************************)
Init == text = <<>>

Write == /\ Len(text) < MaxLength
         /\ \E char \in Digits \cup {Hyphen, Dot, Other} : text' = Append(text, char)

Spec == Init /\ [][Write]_text

(***************************************************************************)
(* Properties.                                                             *)
(***************************************************************************)

\* An identifier the conversion takes comes back from the contract as the uuid
\* with the same digits, leading zeros included: the event of an order finds the
\* order's row (completeNearestPendingOrder looks it up by this text).
IdentifierComesBack ==
    uuidToFelt252(text) # Throws =>
      felt252ToUuid(uuidToFelt252(text)) = Hyphenated(Clean(text))

\* Base^n, as a function that a proof can unfold.
Power[n \in Nat] == IF n = 0 THEN 1 ELSE Base * Power[n - 1]

\* A text that is a decimal number, and the number it is, times Base^Decimals.
IsDecimal(s) ==
    /\ \E i \in 1..Len(s) : s[i] \in Digits
    /\ \A i \in 1..Len(s) : s[i] \in Digits \/ (s[i] = Dot /\ FirstDot(s) = i)
Fraction(s) == Len(s) - FirstDot(s)
ScaledValue(s) ==
    LET digits == Number(Without(s, Dot))
    IN  IF FirstDot(s) > Len(s) THEN digits * Power[Decimals]
                                ELSE (digits * Power[Decimals]) \div Power[Fraction(s)]

\* The contract gets the amount that was written: a token amount rounded down to
\* the token's smallest unit and never up, a fiat amount exactly; an amount that
\* does not fit, or a fraction of a fiat unit, is refused and never altered.
AmountArrives ==
    IsDecimal(text) =>
      LET n == ScaledValue(text)
          got(argument) == argument[1] + Word * argument[2]
      IN  /\ IF n < Word * Word THEN TokenAmount(text) # Refused /\ got(TokenAmount(text)) = n
                                ELSE TokenAmount(text) = Refused
          /\ FiatAmount(text) # Refused => got(FiatAmount(text)) * Power[Decimals] = n

=============================================================================
