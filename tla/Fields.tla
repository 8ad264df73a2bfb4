------------------------------- MODULE Fields -------------------------------
(***************************************************************************)
(* The fields of a record (comps/database/src: BaseField, FieldTemplate,   *)
(* FieldFactory): the class that a column's type and UNSIGNED_FLAG select, *)
(* and the numbers that a field of that class can hold.  A field keeps its *)
(* value in the C++ type of its class, so that what is put into it is cut  *)
(* to the width of that type, or rounded to a double.                      *)
(***************************************************************************)
EXTENDS Integers, FiniteSets

CONSTANTS
    Width,       \* the bits of the integer types
    Mantissa     \* the bits of a double's mantissa, 53

Sized == {"TINY", "SHORT", "LONG", "LONGLONG"}
IntTypes == Sized \cup {"TIMESTAMP"}
FloatTypes == {"FLOAT", "DOUBLE"}
DoubleTypes == FloatTypes \cup {"NEWDECIMAL"}     \* the fields that keep a double
StringTypes == {"STRING", "VAR_STRING", "DATE", "DATETIME"}
BlobTypes == {"TINY_BLOB", "BLOB", "MEDIUM_BLOB", "LONG_BLOB"}

ASSUME WidthAssumption ==
    /\ Width \in [Sized -> Nat \ {0}]
    /\ Width["TINY"] <= Width["LONG"] /\ Width["SHORT"] <= Width["LONG"]
    /\ \A t \in Sized \ {"LONGLONG"} : Width[t] < Width["LONGLONG"]
    /\ Mantissa \in Nat

\* FieldFactory::CreateField has a class for these, and returns null otherwise.
Creatable(d) ==
    d.type \in IntTypes \cup DoubleTypes \cup StringTypes \cup BlobTypes

\* static_cast to an integer type of so many bits keeps the low ones.
ToUnsigned(v, bits) == v % 2^bits
ToSigned(v, bits) == ((v + 2^(bits - 1)) % 2^bits) - 2^(bits - 1)

Bits(type) == IF type = "TIMESTAMP" THEN Width["LONGLONG"] ELSE Width[type]

\* The integers that a type of so many bits can hold, and those of a field.
UnsignedRange(b) == 0..2^b - 1
SignedRange(b) == -(2^(b - 1))..2^(b - 1) - 1
RangeOf(d) ==
    IF d.unsigned THEN UnsignedRange(Bits(d.type)) ELSE SignedRange(Bits(d.type))
Sint64 == SignedRange(Width["LONGLONG"])

\* `_val = v` in an integer field.
Cast(v, d) == IF d.unsigned THEN ToUnsigned(v, Bits(d.type)) ELSE ToSigned(v, Bits(d.type))

\* `_val = atoll(value)`: of an integer out of range, atoll makes the nearest sint64.
Atoll(n) ==
    LET half == 2^(Width["LONGLONG"] - 1) IN
    IF n >= half THEN half - 1 ELSE IF n < -half THEN -half ELSE n

\* `_val = n` in a field that keeps a double: beyond 2^Mantissa only every second
\* integer is a double, beyond twice that every fourth, and so on; the nearest is
\* taken, of two as near the even multiple.
Spacing(m) == 2^Cardinality({j \in Mantissa..Width["LONGLONG"] - 1 : 2^j < m})
Nearest(m) ==
    LET step == Spacing(m)
        q == m \div step
        r == m % step
    IN
    IF 2 * r < step \/ (2 * r = step /\ q % 2 = 0) THEN step * q ELSE step * (q + 1)
ToDouble(n) == IF n < 0 THEN -Nearest(-n) ELSE Nearest(n)
=============================================================================
