----------------------------- MODULE LogStream -----------------------------
(***************************************************************************)
(* LogStream: a line is put together in a FixedBuffer, which leaves out    *)
(* what does not fit; and the text of numbers.                             *)
(*                                                                         *)
(* A piece of a line is a record: what it is, the number it is of, its     *)
(* text if it is a number, and how many characters it has.                 *)
(***************************************************************************)
EXTENDS CDivision, Sequences

CONSTANTS kSmallBuffer, kMaxNumericSize         \* 4000, 48

ASSUME StreamAssumption == kSmallBuffer \in Nat /\ kMaxNumericSize \in Nat

-----------------------------------------------------------------------------
(* The text of an integer *)

\* The table of characters for a last digit from -9 to 9.
digits == <<9, 8, 7, 6, 5, 4, 3, 2, 1, 0, 1, 2, 3, 4, 5, 6, 7, 8, 9>>
zero(lsd) == digits[10 + lsd]

MaxDigits == 64         \* no integer has more, in any base

\* convert and convertHex, the digits in the order of the text after the reversal.
Converted(value, base) ==
    LET rest[k \in Nat] == IF k = 0 THEN value ELSE Quotient(rest[k - 1], base)
        count == CHOOSE k \in 1 .. MaxDigits :
                    rest[k] = 0 /\ \A j \in 1 .. k - 1 : rest[j] # 0
    IN  [k \in 1 .. count |-> Remainder(rest[count - k], base)]

-----------------------------------------------------------------------------
(* Quantities with a unit *)

Pow10 == <<1, 10, 100>>                 \* Pow10[d + 1] is ten to the d

\* What snprintf(3) may print for quantity / unit with so many decimals, as a whole number:
\* the nearest one, or either one where the quotient, being a double, is near the middle.
Printed(quantity, unit, decimals) ==
    LET scale == Pow10[decimals + 1]
        part == (quantity % unit) * scale
        below == (quantity \div unit) * scale + part \div unit
        rest == part % unit
    IN  {n \in {below, below + 1} :
            IF n = below THEN 2 * rest <= unit ELSE 2 * rest >= unit}

Thousandths(quantity, unit) == (quantity \div unit) * 1000 + ((quantity % unit) * 1000) \div unit

\* The rows of the tables of formatSI and formatIEC: a quantity below so many thousandths of
\* the unit is printed with so many decimals.
Row(unit, below, decimals) == [unit |-> unit, below |-> below, decimals |-> decimals]

SIRows == <<Row(1000, 9995, 2), Row(1000, 99950, 1), Row(1000, 999500, 0),
            Row(1000000, 9995, 2), Row(1000000, 99950, 1), Row(1000000, 999500, 0)>>

IECRows == <<Row(1024, 9995, 2), Row(1024, 99950, 1), Row(1024, 1023500, 0),
             Row(1048576, 9995, 2), Row(1048576, 99950, 1), Row(1048576, 1023500, 0)>>

RowOf(rows, quantity) ==
    rows[CHOOSE i \in DOMAIN rows :
            /\ Thousandths(quantity, rows[i].unit) < rows[i].below
            /\ \A j \in 1 .. i - 1 : Thousandths(quantity, rows[j].unit) >= rows[j].below]

-----------------------------------------------------------------------------
(* Pieces *)

NoText == [negative |-> FALSE, digits |-> <<>>, decimals |-> 0, letters |-> 0]
Text(what, len) == [what |-> what, of |-> 0, text |-> NoText, len |-> len]

Chars(text) == (IF text.negative THEN 1 ELSE 0) + Len(text.digits)
               + (IF text.decimals > 0 THEN 1 ELSE 0) + text.letters
Numeral(what, of, text) == [what |-> what, of |-> of, text |-> text, len |-> Chars(text)]

Integer(value) ==
    Numeral("integer", value,
            [NoText EXCEPT !.negative = value < 0,
                           !.digits = LET d == Converted(value, 10) IN [k \in DOMAIN d |-> zero(d[k])]])
Pointer(value) ==
    Numeral("pointer", value, [NoText EXCEPT !.digits = Converted(value, 16), !.letters = 2])

\* The strings formatSI and formatIEC may return.
Formatted(what, value, least, rows, letters) ==
    IF value < least THEN {[Integer(value) EXCEPT !.what = what]}
    ELSE LET row == RowOf(rows, value) IN
         {Numeral(what, value, [negative |-> FALSE, digits |-> Converted(n, 10),
                                decimals |-> row.decimals, letters |-> letters]) :
            n \in Printed(value, row.unit, row.decimals)}
FormatSI(value) == Formatted("SI", value, 1000, SIRows, 1)
FormatIEC(value) == Formatted("IEC", value, 1024, IECRows, 2)

-----------------------------------------------------------------------------
(* FixedBuffer *)

\* touched: history, the end of the characters that have been written, a NUL behind a
\* number included.
EmptyBuffer == [kept |-> <<>>, length |-> 0, touched |-> 0]
Avail(buffer) == kSmallBuffer - buffer.length

Written(buffer, piece, nul) ==
    [kept |-> Append(buffer.kept, piece), length |-> buffer.length + piece.len,
     touched |-> LET end == buffer.length + piece.len + nul IN
                 IF end > buffer.touched THEN end ELSE buffer.touched]

IsNumeric(piece) == piece.what \in {"integer", "pointer", "double"}

Fits_Mutant(buffer, piece) ==       \* seeded bug: a number is only measured when it is there
    IF IsNumeric(piece) THEN Avail(buffer) >= piece.len ELSE Avail(buffer) > piece.len
Fits(buffer, piece) ==
    IF IsNumeric(piece) THEN Avail(buffer) >= kMaxNumericSize ELSE Avail(buffer) > piece.len

Appended(buffer, piece) ==
    IF ~Fits(buffer, piece) THEN buffer
    ELSE Written(buffer, piece, IF IsNumeric(piece) THEN 1 ELSE 0)

\* operator<<
buffer ## piece == Appended(buffer, piece)
=============================================================================
