--------------------------- MODULE MCMysqlConnect ---------------------------
(***************************************************************************)
(* Values of MysqlConnect's constants for TLC.  The integer types have 3,  *)
(* 4, 5 and 6 bits, and a double's mantissa 4: it is exact up to 16.       *)
(***************************************************************************)
EXTENDS MysqlConnect, TLC

CONSTANTS c1, c2
OneConn == {c1}
TwoConns == {c1, c2}
Interchangeable == Permutations(TwoConns)

Def(t, u) == [type |-> t, unsigned |-> u]

\* A column that is redefined, a string, one of a type that has no field class, a
\* decimal that a double can or cannot be, and two expressions, one of them a decimal
\* that no sint64 can be.
MCColumns == {"level", "name", "born", "ratio", "count(*)", "avg(level)"}
MCKeyOf == [c \in MCColumns |-> IF c \in {"count(*)", "avg(level)"} THEN "." ELSE c]
MCDefinitions == [c \in MCColumns |->
    CASE c = "level" -> {Def("TINY", TRUE), Def("LONG", FALSE)}
      [] c = "name" -> {Def("VAR_STRING", FALSE)}
      [] c = "born" -> {Def("YEAR", TRUE)}
      [] c = "count(*)" -> {Def("LONGLONG", FALSE)}
      [] c = "ratio" -> {Def("NEWDECIMAL", TRUE)}
      [] c = "avg(level)" -> {Def("NEWDECIMAL", FALSE)}]

MCTexts == {"", "2", "5", "-9", "40", "x", "xyz", "12.5", "17.5", "-40.5"}
MCLeadingInt == [t \in MCTexts \cup {"NULL"} |->
    CASE t = "2" -> 2 [] t = "5" -> 5 [] t = "-9" -> -9 [] t = "40" -> 40
      [] t = "12.5" -> 12 [] t = "17.5" -> 17 [] t = "-40.5" -> -40 [] OTHER -> 0]
MCLengthOf == [t \in MCTexts \cup {"NULL"} |->
    CASE t \in {"NULL", ""} -> 0 [] t \in {"2", "5", "x"} -> 1 [] t \in {"-9", "40"} -> 2
      [] t = "xyz" -> 3 [] t = "-40.5" -> 5 [] OTHER -> 4]
MCHolds == [d \in UNION Range(MCDefinitions) |->
    CASE d.type = "TINY" -> {"5"} [] d.type = "LONG" -> {"-9"}
      [] d.type = "VAR_STRING" -> {"x", "xyz"}
      [] d.type = "LONGLONG" -> {"2"}
      [] d.type = "YEAR" -> {"40"}
      [] d = Def("NEWDECIMAL", TRUE) -> {"12.5", "17.5"}
      [] OTHER -> {"-40.5"}]
MCWidth == [t \in Sized |->
    CASE t = "TINY" -> 3 [] t = "SHORT" -> 4 [] t = "LONG" -> 5 [] OTHER -> 6]

MCSelections == {<<"level", "name">>, <<"ratio", "born">>,
                 <<"count(*)", "avg(level)">>}
NameOnly == {<<"name">>}
=============================================================================
