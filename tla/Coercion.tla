------------------------------ MODULE Coercion ------------------------------
(***************************************************************************)
(* Path parameters: value_for_path_param of src/params.rs, which turns a   *)
(* segment that looks like an integer, a float or a boolean into one.      *)
(*                                                                         *)
(* A segment is a sequence of pieces: "-", ".", a decimal digit, or other  *)
(* text.  MaxInt stands for i64::MAX, FloatDigits for the 309 digits up to *)
(* which a number is below the largest f64.                                *)
(***************************************************************************)
EXTENDS Integers, Sequences, SequencesExt, Option

CONSTANTS Segments,         \* the segments considered
          MaxInt,           \* i64::MAX; i64::MIN is one further from zero
          FloatDigits       \* digits before the point that f64 can hold

ASSUME SegmentsAssumption == Segments \subseteq Seq(STRING)
ASSUME WidthsAssumption == MaxInt \in Nat /\ FloatDigits \in Nat

VARIABLE segment            \* a path segment, or NONE

CoercionInit == segment \in Segments

Digits == <<"0", "1", "2", "3", "4", "5", "6", "7", "8", "9">>
Digit == {Digits[k] : k \in 1 .. 10}
IsDigit(piece) == piece \in Digit
DigitValue(piece) == (CHOOSE k \in 1 .. 10 : Digits[k] = piece) - 1

IsNegative(s) == s # <<>> /\ Head(s) = "-"
Unsigned(s) == IF IsNegative(s) THEN Tail(s) ELSE s

\* str::parse: the number the digits stand for.
Magnitude[digits \in Seq(Digit)] ==
    IF digits = <<>> THEN 0 ELSE 10 * Magnitude[Front(digits)] + DigitValue(Last(digits))
Parsed(s) == IF IsNegative(s) THEN - Magnitude[Unsigned(s)] ELSE Magnitude[s]
FitsI64(n) == n \in -(MaxInt + 1) .. MaxInt

\* Mutant: leading zeros are accepted.
AnyDigits(s) ==
    /\ Unsigned(s) # <<>>
    /\ \A k \in DOMAIN Unsigned(s) : IsDigit(Unsigned(s)[k])

\* is_valid_integer_literal: no leading zeros, and no minus zero.
IsValidIntegerLiteral(s) ==
    LET digits == Unsigned(s)
    IN  /\ digits # <<>>
        /\ ~(Len(digits) > 1 /\ digits[1] = "0")
        /\ ~(IsNegative(s) /\ digits = <<"0">>)
        /\ \A k \in DOMAIN digits : IsDigit(digits[k])

\* is_valid_float_literal: one point between two runs of digits.
IsValidFloatLiteral(s) ==
    LET digits == Unsigned(s)
    IN  \E k \in DOMAIN digits :
            /\ digits[k] = "."
            /\ 1 < k /\ k < Len(digits)
            /\ ~(k > 2 /\ digits[1] = "0")
            /\ \A j \in DOMAIN digits \ {k} : IsDigit(digits[j])

\* str::parse of a float literal: its digits, or infinity if f64 cannot hold them.
ParsedFloat(s) ==
    LET digits == Unsigned(s)
        point  == CHOOSE k \in DOMAIN digits : digits[k] = "."
    IN  IF point - 1 > FloatDigits THEN "inf" ELSE s

\* value_for_path_param
ValueForPathParam(s) ==
    IF s = <<"true">> THEN [type |-> "bool", value |-> TRUE]
    ELSE IF s = <<"false">> THEN [type |-> "bool", value |-> FALSE]
    ELSE IF IsValidIntegerLiteral(s) /\ FitsI64(Parsed(s))
         THEN [type |-> "int", value |-> Parsed(s)]
    ELSE IF IsValidFloatLiteral(s) THEN [type |-> "float", value |-> ParsedFloat(s)]
    ELSE [type |-> "str", value |-> s]

-----------------------------------------------------------------------------
(* Properties.                                                             *)

\* str(n) of Python: the digits of a number, written without looking at the parser.
Numeral[n \in Nat] ==
    IF n < 10 THEN <<Digits[n + 1]>>
    ELSE Append(Numeral[n \div 10], Digits[(n % 10) + 1])
Decimal(n) == IF n < 0 THEN <<"-">> \o Numeral[-n] ELSE Numeral[n]

\* A handler can rebuild the segment from its parameter: it is given an int exactly for
\* the way Python writes an i64, so that no two segments (7, 07, +7, -0 ...) become the
\* same int, and text is passed on as it is, however long its digits are.
CoercionExact ==
    segment # NONE =>
        LET param == ValueForPathParam(segment)
        IN  /\ (param.type = "int") <=> (\E n \in -(MaxInt + 1) .. MaxInt : Decimal(n) = segment)
            /\ param.type = "int" => Decimal(param.value) = segment
            /\ param.type = "str" => param.value = segment

=============================================================================
