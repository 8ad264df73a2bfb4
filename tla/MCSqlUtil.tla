----------------------------- MODULE MCSqlUtil ------------------------------
(***************************************************************************)
(* Values of SqlUtil's constants for TLC, everything at a small scale: the *)
(* integer types have 2, 3, 4 and 5 bits and at most 3 characters, a       *)
(* double has 3 bits of mantissa and "%f" one decimal, names are 4 to 6    *)
(* characters long and BuildOperation adds 15 bytes.                       *)
(***************************************************************************)
EXTENDS SqlUtil

MCWidth == [t \in Sized |->
    CASE t = "TINY" -> 2 [] t = "SHORT" -> 3 [] t = "LONG" -> 4 [] OTHER -> 5]

Of(t, u, l) == [type |-> t, unsigned |-> u, name |-> 4, len |-> l]
Table(cols, key) == [name |-> 6, cols |-> cols, key |-> key]

\* Columns of growing and of falling length, numbers before and after them, the
\* types without a format and one without a class, and no key.
MCTables == {
    Table(<<Of("SHORT", TRUE, 2), Of("VAR_STRING", FALSE, 3),
            Of("BLOB", FALSE, 12)>>, 1),
    Table(<<Of("BLOB", FALSE, 12), Of("STRING", FALSE, 3),
            Of("TINY", FALSE, 2)>>, 2),
    Table(<<Of("SHORT", FALSE, 2), Of("DOUBLE", FALSE, 4)>>, 1),
    Table(<<Of("FLOAT", FALSE, 3), Of("LONG", FALSE, 3)>>, 2),
    Table(<<Of("STRING", FALSE, 1), Of("LONGLONG", TRUE, 1)>>, 2),
    Table(<<Of("DOUBLE", FALSE, 20), Of("LONG", TRUE, 3)>>, 2),
    Table(<<Of("TINY", TRUE, 1), Of("TIMESTAMP", TRUE, 5)>>, 2),
    Table(<<Of("NEWDECIMAL", FALSE, 4), Of("DATETIME", FALSE, 5)>>, 2),
    Table(<<Of("TINY", TRUE, 1), Of("YEAR", TRUE, 4)>>, 1),
    Table(<<Of("TINY", TRUE, 1), Of("LONG_BLOB", FALSE, 2^8 - 1)>>, 1),
    Table(<<Of("VAR_STRING", FALSE, 50), Of("TINY", FALSE, 2)>>, 1),
    Table(<<Of("DOUBLE", FALSE, 4), Of("LONGLONG", FALSE, 3)>>, 1),
    Table(<<Of("TINY", TRUE, 1)>>, 0)}

\* In and out of the range of the integer types, the largest and the least sint64,
\* and one that is no double.
MCNumbers == {0, 1, 5, 9, 15, -1, -16}
\* 3.14, -0.04 (which prints as -0.0), -3, 20 (no sint64, but a uint64) and a number
\* of eleven characters, which the buffer of a number cuts.
MCDoubles == {314, -4, -300, 2000, -1310720000}
\* Empty, all escaped, some escaped; as long as a column, almost all of it escaped;
\* as long as one buffer of BuildCondition and BuildDelSql holds, and as neither does.
MCTexts == {[size |-> 0, escapes |-> 0], [size |-> 1, escapes |-> 1],
            [size |-> 3, escapes |-> 1], [size |-> 12, escapes |-> 0],
            [size |-> 12, escapes |-> 11], [size |-> 40, escapes |-> 0],
            [size |-> 50, escapes |-> 0]}
=============================================================================
