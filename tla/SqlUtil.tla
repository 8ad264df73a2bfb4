------------------------------ MODULE SqlUtil -------------------------------
(***************************************************************************)
(* The text of statements (comps/database/src/SqlUtil.cpp).  A program     *)
(* sets fields of a record; BuildOperation makes `f=v` of each field it    *)
(* has set, in a buffer whose size a first loop over the fields works out  *)
(* from their declared lengths, and BuildFormatSql prints the value.       *)
(*                                                                         *)
(* A text is its size and how many of its characters are escaped, of any   *)
(* size: no setter compares it with the declared length.  A double is a    *)
(* (finite) number of units, of which "%f" rounds off the last digit.      *)
(* What a statement does to the table is in Records; here it is whether    *)
(* the statement says what the setters were given.  A setter of texts for  *)
(* a number, or of numbers for a text, fails its assertion and sets        *)
(* nothing; those of the other kind of numbers cast.                       *)
(*                                                                         *)
(* Definitions marked (mutant) are no part of the model: each is the       *)
(* definition that follows it with a mistake in it.                        *)
(***************************************************************************)
EXTENDS Fields, Sequences

CONSTANTS
    Tables,    \* [name : its length, cols : columns in order,
               \*  key : the one the condition names, or 0]
    Numbers,   \* what SetInt may be given
    Doubles,   \* what SetDouble may be given, in units
    Texts,     \* [size : in bytes, escapes : the characters to be escaped]
    HalfWord,  \* 2^31: a uint32 is less than twice that
    NumLen,    \* __DefaultNum2StrLen
    Slack,     \* what BuildOperation adds to the length it has worked out
    NameMax,   \* the longest name of a table or column
    CondSize,  \* the size of sqlBuf in BuildCondition and BuildDelSql
    NumberMax, \* the characters of a LONGLONG, at most
    Decimals,  \* those that "%f" prints behind the point
    Unit,      \* the units of a double in one: it has a decimal more than "%f" prints
    MaxExp,    \* no double has more than MaxExp + 1 digits before the point
    LongBits   \* the bits of a `long`, 32 or 64

\* A column as DBFieldInfo has it: name is the length of the name, len what the
\* server declares as the column's length.
Column == [type : STRING, unsigned : BOOLEAN, name : 0..NameMax, len : Nat]
Word == 2 * HalfWord
Unbounded == Word - 1            \* the declared length of LONGTEXT and LONGBLOB

ASSUME ConstantsAssumption ==
    /\ HalfWord \in Nat /\ NumLen \in Nat \ {0} /\ Slack \in Nat /\ NameMax \in Nat
    /\ NumberMax \in Nat /\ NameMax + NumberMax + 6 <= Slack
    /\ CondSize \in Nat /\ Decimals \in Nat /\ MaxExp \in Nat
    /\ Unit \in Nat \ {0} /\ Unit = 10^(Decimals + 1)
    /\ \A t \in Tables :
         /\ t.name \in 0..NameMax
         /\ t.cols \in Seq(Column) /\ t.key \in 0..Len(t.cols)
         /\ \A f \in 1..Len(t.cols) :
              \/ 2 * t.cols[f].len + Slack < HalfWord
              \/ t.cols[f].len = Unbounded
    /\ Numbers \subseteq Sint64
    /\ Doubles \subseteq Int
    /\ Texts \subseteq [size : Nat, escapes : Nat]
    /\ \A t \in Texts : t.escapes <= t.size
    /\ NumLen + Slack < HalfWord
    /\ LongBits \in Nat /\ Width["LONG"] <= LongBits

VARIABLES
    table,    \* the record's columns
    val,      \* the values of its fields
    changed,  \* the fields whose _changed is set
    pc,       \* where BuildOperation is; "edit" outside SqlUtil
    op,       \* the statement in the making
    cond,     \* the key that its condition names: <<value>>, or <<>> for none
    idx,      \* the first loop has come to this field
    maxLen,   \* maxFeildStrLen, a sint32
    fields,   \* updateFields; in the second loop, those it has not come to
    out,      \* the assignments in strFormat
    given     \* history: what the last setter of each field was given

vars == <<table, val, changed, given, pc, op, cond, idx, maxLen, fields, out>>
loop == <<idx, maxLen, fields, out>>

Cols == DOMAIN table.cols
Col(f) == table.cols[f]

Textual == StringTypes \cup BlobTypes
IS_FIELD_NUM(type) ==
    type \in Sized \cup FloatTypes \cup {"YEAR", "INT24"}
\* The types with a case in BuildFormatSql's switch.
PrintableButDates ==                                       \* (mutant)
    Sized \cup FloatTypes \cup BlobTypes \cup {"STRING", "VAR_STRING"}
Printable == Sized \cup FloatTypes \cup Textual
\* Those that FieldFactory makes a field of all the same.
Unprintable == {"TIMESTAMP", "NEWDECIMAL"}

\* What a field may hold, and what its setters may be given.
Empty == [size |-> 0, escapes |-> 0]
ValuesOf(col) ==
    IF col.type \in IntTypes THEN RangeOf(col)
    ELSE IF col.type \in Textual THEN Texts \cup {Empty} ELSE Int
GivenOf(col) == IF col.type \in Textual THEN Texts \cup {Empty} ELSE Int

\* MakeDefRecord: 0, or the empty string.
Default(col) == IF col.type \in Textual THEN Empty ELSE 0

Init ==
    /\ table \in {t \in Tables : \A f \in DOMAIN t.cols : Creatable(t.cols[f])}
    /\ val = [f \in Cols |-> Default(Col(f))]
    /\ given = val
    /\ changed = {}
    /\ pc = "edit" /\ op = "none" /\ cond = <<>>
    /\ idx = 1 /\ maxLen = 0 /\ fields = <<>> /\ out = <<>>

\* static_cast of a double to an integer type: toward 0, and undefined when that is
\* out of the type's range (a processor's least or largest, or its low bits).
Truncated(x) == IF x < 0 THEN -((-x) \div Unit) ELSE x \div Unit
Converted(x, range) == IF Truncated(x) \in range THEN {Truncated(x)} ELSE range

Assign(f, v, g) ==
    /\ pc = "edit"
    /\ val' = [val EXCEPT ![f] = v]
    /\ given' = [given EXCEPT ![f] = g]
    /\ changed' = changed \cup {f}
    /\ UNCHANGED <<table, pc, op, cond, loop>>

SetInt(f, n) ==
    \/ Col(f).type \in IntTypes /\ Assign(f, Cast(n, Col(f)), n * Unit)
    \/ Col(f).type \in DoubleTypes /\ Assign(f, ToDouble(n) * Unit, n * Unit)

SetDouble(f, x) ==
    \/ /\ Col(f).type \in IntTypes
       /\ \E v \in Converted(x, RangeOf(Col(f))) : Assign(f, v, x)
    \/ Col(f).type \in DoubleTypes /\ Assign(f, x, x)

\* SetStr and SetBlob.
SetText(f, t) == Col(f).type \in Textual /\ Assign(f, t, t)

-----------------------------------------------------------------------------
(* BuildUpdateSql, BuildInsertSql, BuildDelSql.                            *)

\* A record without a key gets no statement.
Build(o) ==
    /\ pc = "edit" /\ table.key # 0
    /\ op' = o
    /\ pc' = IF o = "insert" THEN "collect" ELSE "cond"
    /\ UNCHANGED <<table, val, changed, given, cond, loop>>

\* What fits into the buffers of BuildCondition and, around its text, BuildDelSql.
CondRoom == CondSize - 2 - (IF op = "delete" THEN table.name + 29 ELSE 0)

\* What the condition may name.  "%lld" of GetInt for a number, which casts a double;
\* the text as it is for a string: it names no key when it is cut short, or holds a
\* character that should have been escaped.
NamedAsInt(col, v) ==                                      \* (mutant)
    IF col.type \in FloatTypes THEN {<<n>> : n \in Converted(v, Sint64)}
    ELSE IF IS_FIELD_NUM(col.type) THEN {<<ToSigned(v, Width["LONG"])>>}
    ELSE IF col.type \in Textual /\ v.escapes = 0 /\ col.name + v.size + 5 <= CondRoom
      THEN {<<v>>} ELSE {<<>>}
Named(col, v) ==
    IF col.type \in FloatTypes THEN {<<n>> : n \in Converted(v, Sint64)}
    ELSE IF IS_FIELD_NUM(col.type) THEN {<<ToSigned(v, Width["LONGLONG"])>>}
    ELSE IF col.type \in Textual /\ v.escapes = 0 /\ col.name + v.size + 5 <= CondRoom
      THEN {<<v>>} ELSE {<<>>}

\* GetInt for a number, GetStr for the rest.  GetStr of a class of numbers is
\* assert(false): the program ends, or NDEBUG makes it an empty text.
BuildCondition ==
    /\ pc = "cond"
    /\ \/ pc' = IF op = "delete" THEN "built" ELSE "collect"
       \/ /\ ~IS_FIELD_NUM(Col(table.key).type) /\ Col(table.key).type \notin Textual
          /\ pc' = "asserted"
    /\ cond' \in Named(Col(table.key), val[table.key])
    /\ UNCHANGED <<table, val, changed, given, op, loop>>

-----------------------------------------------------------------------------
(* BuildOperation, the first loop.                                         *)

\* uint32 and sint32: GetLen()*2 keeps 32 bits, and is assigned to a sint32, which
\* is compared as a uint32.
Wrapped(n) == IF n < Word THEN n ELSE n - Word
Sint32(n) == IF n < HalfWord THEN n ELSE n - Word
Uint32(n) == IF n < 0 THEN n + Word ELSE n

LengthAfterLast(col) ==                                    \* (mutant)
    IF IS_FIELD_NUM(col.type) /\ maxLen = 0 THEN NumLen
    ELSE IF col.len > Uint32(maxLen) THEN Sint32(Wrapped(2 * col.len)) ELSE col.len
LengthAfter(col) ==
    IF IS_FIELD_NUM(col.type) /\ maxLen = 0 THEN NumLen
    ELSE IF col.len > Uint32(maxLen) THEN Sint32(Wrapped(2 * col.len)) ELSE maxLen

CollectUnchecked ==                                        \* (mutant)
    /\ pc = "collect" /\ idx \in Cols
    /\ idx' = idx + 1
    /\ fields' = Append(fields, idx)
    /\ maxLen' = LengthAfter(Col(idx))
    /\ UNCHANGED <<table, val, changed, given, pc, op, cond, out>>
CollectOneMore ==                                          \* (mutant)
    /\ pc = "collect" /\ idx <= Len(table.cols) + 1
    /\ idx' = idx + 1
    /\ IF idx \in changed
         THEN fields' = Append(fields, idx) /\ maxLen' = LengthAfter(Col(idx))
         ELSE UNCHANGED <<fields, maxLen>>
    /\ UNCHANGED <<table, val, changed, given, pc, op, cond, out>>
Collect ==
    /\ pc = "collect" /\ idx \in Cols
    /\ idx' = idx + 1
    /\ IF idx \in changed
         THEN fields' = Append(fields, idx) /\ maxLen' = LengthAfter(Col(idx))
         ELSE UNCHANGED <<fields, maxLen>>
    /\ UNCHANGED <<table, val, changed, given, pc, op, cond, out>>

CollectDone ==
    /\ pc = "collect" /\ idx \notin Cols
    /\ IF fields = <<>> THEN pc' = "built" /\ UNCHANGED maxLen
                        ELSE pc' = "format" /\ maxLen' = maxLen + Slack
    /\ UNCHANGED <<table, val, changed, given, op, cond, idx, fields, out>>

-----------------------------------------------------------------------------
(* BuildFormatSql.                                                         *)

\* GetInt is a sint64; "%d" prints an int, "%ld" and "%lu" a long.
PrintedSigned(col, v) ==                                   \* (mutant)
    LET n == ToSigned(v, Width["LONGLONG"]) IN
    ToSigned(n, IF col.type = "LONGLONG" THEN Width["LONGLONG"]
                ELSE IF col.type = "LONG" THEN LongBits ELSE Width["LONG"])
PrintedInt(col, v) ==
    LET n == ToSigned(v, Width["LONGLONG"])
        long == IF col.type = "LONGLONG" THEN Width["LONGLONG"] ELSE LongBits
    IN
    IF col.unsigned THEN ToUnsigned(n, long)
    ELSE ToSigned(n, IF col.type \in {"LONG", "LONGLONG"} THEN long ELSE Width["LONG"])

\* "%f": so many decimals, the digits before the point, and the sign.
Rounded(x) == 10 * ((x + 5) \div 10)
Digits(n) == 1 + Cardinality({k \in 1..MaxExp : 10^k <= n})
Chars(x) ==
    LET r == Rounded(x)
        sign == IF x < 0 THEN 1 ELSE 0
    IN sign + Digits((IF r < 0 THEN -r ELSE r) \div Unit) + 1 + Decimals

\* The bytes of `name`=value, the closing NUL among them.
Needed(col, v) ==
    IF col.type \in Sized THEN col.name + NumberMax + 4
    ELSE IF col.type \in FloatTypes THEN col.name + Chars(v) + 4
    ELSE col.name + v.size + v.escapes + 6

\* Bytes written behind a buffer.  A string is escaped into twice its size, which
\* lacks the NUL when every character is escaped.  A blob is escaped into what is
\* left of the statement's buffer, however much it is.
Beyond(col, v) ==
    IF col.type \in StringTypes THEN IF v.size > 0 /\ v.escapes = v.size THEN 1 ELSE 0
    ELSE IF col.type \in BlobTypes /\ Needed(col, v) > maxLen THEN Needed(col, v) - maxLen
    ELSE 0

\* What the text says, if it is whole: <<value>>.  snprintf cuts off what the buffer
\* does not hold, and <<>> is a text without its end, of another number or of none.
\* Where bytes have been written behind a buffer it may be either.
Whole(col, v) ==
    IF col.type \in Sized THEN <<PrintedInt(col, v)>>
    ELSE IF col.type \in FloatTypes THEN <<Rounded(v)>> ELSE <<v>>
Printed(col, v) ==
    IF Beyond(col, v) > 0 THEN {Whole(col, v), <<>>}
    ELSE IF Needed(col, v) <= maxLen THEN {Whole(col, v)} ELSE {<<>>}

\* The next field of the list.
Format ==
    /\ pc = "format" /\ fields # <<>>
    /\ LET f == Head(fields) IN
         /\ Col(f).type \in Printable
         /\ \E p \in Printed(Col(f), val[f]) :
              out' = Append(out, [field |-> f, printed |-> p,
                                  needed |-> Needed(Col(f), val[f]),
                                  beyond |-> Beyond(Col(f), val[f])])
    /\ fields' = Tail(fields)
    /\ UNCHANGED <<table, val, changed, given, pc, op, cond, idx, maxLen>>

\* The default of the switch: assert(false), or with NDEBUG an empty text.
FormatAsserts ==
    /\ pc = "format" /\ fields # <<>>
    /\ Col(Head(fields)).type \notin Printable
    /\ \/ pc' = "asserted" /\ UNCHANGED fields
       \/ fields' = Tail(fields) /\ UNCHANGED pc
    /\ UNCHANGED <<table, val, changed, given, op, cond, idx, maxLen, out>>

\* The server does not take a list with an empty member for a statement.
FormatDone ==
    /\ pc = "format" /\ fields = <<>>
    /\ pc' = IF (\E f, g \in changed : f # g /\ Col(f).type \notin Printable)
               THEN "refused" ELSE "built"
    /\ UNCHANGED <<table, val, changed, given, op, cond, loop>>

\* The call returns; Update clears the flags when the server has taken the
\* statement.  Without any assignment there is none to send.
Return ==
    /\ pc \in {"built", "refused"}
    /\ pc' = "edit"
    /\ \/ UNCHANGED changed
       \/ pc = "built" /\ op = "update" /\ out # <<>> /\ changed' = {}
    /\ op' = "none" /\ cond' = <<>>
    /\ idx' = 1 /\ maxLen' = 0 /\ fields' = <<>> /\ out' = <<>>
    /\ UNCHANGED <<table, val, given>>

-----------------------------------------------------------------------------

Next ==
    \/ \E f \in Cols :
         \/ \E n \in Numbers : SetInt(f, n)
         \/ \E x \in Doubles : SetDouble(f, x)
         \/ \E t \in Texts : SetText(f, t)
    \/ \E o \in {"update", "insert", "delete"} : Build(o)
    \/ BuildCondition
    \/ Collect \/ CollectDone \/ Format \/ FormatAsserts \/ FormatDone \/ Return

Spec == Init /\ [][Next]_vars

-----------------------------------------------------------------------------
(* Properties.                                                             *)

\* Every variable has its type.
TypeOK ==
    /\ table \in Tables
    /\ DOMAIN val = Cols
    /\ \A f \in Cols : val[f] \in ValuesOf(Col(f))
    /\ DOMAIN given = Cols
    /\ \A f \in Cols : given[f] \in GivenOf(Col(f))
    /\ changed \subseteq Cols
    /\ pc \in {"edit", "cond", "collect", "format", "built", "refused", "asserted"}
    /\ op \in {"none", "update", "insert", "delete"}
    /\ cond = <<>> \/ cond \in Named(Col(table.key), val[table.key])
    /\ idx \in 1..Len(table.cols) + 1
    /\ maxLen \in -HalfWord..HalfWord - 1
    /\ fields \in Seq(Cols)
    /\ Len(out) <= Len(table.cols) /\ \A i \in DOMAIN out : out[i].field \in Cols

\* A value that is no harder to print than its column's declared length promises: a
\* text no longer than that, with at most Slack bytes of name, quotes and escapes
\* together and one character at least that is not escaped, or a number of no more
\* digits than Slack.  Nothing in the code keeps a value so: a longer one is cut
\* short, or, in a blob, written behind the buffer.
Moderate(col, v) ==
    CASE col.type \in Sized -> TRUE
      [] col.type \in FloatTypes -> col.name + Chars(v) + 4 <= Slack
      [] OTHER -> /\ v.size <= col.len
                  /\ col.name + v.escapes + 6 <= Slack
                  /\ v.size > 0 => v.escapes < v.size

\* The buffer that the first loop sizes holds what the second loop prints, whatever
\* the fields, their order and which of them are set: no moderate value is cut
\* short, none is written behind a buffer.  (SqlUtil.cpp:167 doubles a length only when it
\* is larger than all before, and a LONGTEXT's or LONGBLOB's doubles to -2.)
BufferHolds ==
    (\A f \in changed : Col(f).len # Unbounded) =>
        \A i \in DOMAIN out :
            LET f == out[i].field IN
            Moderate(Col(f), val[f]) => out[i].needed <= maxLen /\ out[i].beyond = 0

\* The statement sets the fields that the program has set, each once, in order,
\* but for those of a type without a format.
AllChanged ==
    (pc = "built" /\ op # "delete") =>
        /\ {out[i].field : i \in DOMAIN out} =
               {f \in changed : Col(f).type \notin Unprintable}
        /\ \A i, j \in DOMAIN out : i < j => out[i].field < out[j].field

\* A number that the field can hold: of its integer type, or a double.
Fits(col, g) ==
    CASE col.type \in IntTypes -> g % Unit = 0 /\ g \div Unit \in RangeOf(col)
      [] col.type \in DoubleTypes ->
           g % Unit = 0 => ToDouble(g \div Unit) = g \div Unit
      [] OTHER -> TRUE

\* The statement says what the program gave the setter, through the setter's cast,
\* GetInt or GetDouble, the format's type and the buffer, and the same is read back
\* through atoll and the field's type: exactly for integers (reading an unsigned
\* 64-bit one above 2^63-1 excepted), to half a millionth for floating-point
\* numbers, whole for texts.  So it is for what fits its field and is moderate, as
\* long as nothing in this statement has been written behind a buffer.
SavedIsSet ==
    (/\ \A f \in changed : Col(f).len # Unbounded
     /\ \A i \in DOMAIN out : out[i].beyond = 0) =>
        \A i \in DOMAIN out :
            LET f == out[i].field
                col == Col(f)
                n == given[f] \div Unit
            IN
            (Fits(col, given[f]) /\ Moderate(col, val[f])) =>
                CASE col.type \in Sized ->
                       /\ out[i].printed = <<n>>
                       /\ n < 2^(Width["LONGLONG"] - 1) => Cast(Atoll(n), col) = n
                  [] col.type \in FloatTypes ->
                       \E e \in -5..5 : out[i].printed = <<given[f] + e>>
                  [] OTHER -> out[i].printed = <<given[f]>>

\* The condition of an update or a delete names the record's own row: the key it
\* says is the key the record holds.  Excepted are unsigned keys above 2^63-1, which
\* it prints as negative, floating-point keys with a fraction or out of the range of
\* a sint64, texts with a character to be escaped, and texts longer than the two
\* buffers hold.
ConditionNamesKey ==
    (op \in {"update", "delete"} /\ pc \in {"collect", "format", "built", "refused"}) =>
        LET col == Col(table.key)
            v == val[table.key]
        IN
        CASE col.type \in Sized ->
               v < 2^(Width["LONGLONG"] - 1) => cond = <<v>>
          [] col.type \in FloatTypes ->
               (v % Unit = 0 /\ v \div Unit \in Sint64) => cond = <<v \div Unit>>
          [] col.type \in Textual ->
               (v.escapes = 0 /\ v.size + 2 * NameMax + 36 <= CondSize) => cond = <<v>>
          [] OTHER -> TRUE

\* The assertions in BuildFormatSql and in GetStr never fail: there is a format for
\* every field that FieldFactory makes, but for a TIMESTAMP and a NEWDECIMAL.
AssertsOnlyKnown ==
    pc = "asserted" =>
        \E f \in changed \cup {table.key} : Col(f).type \in Unprintable
=============================================================================
