--------------------------- MODULE SqlUtilProofs ----------------------------
(***************************************************************************)
(* Proofs about SqlUtil, for every table, every value and every size of    *)
(* the buffers: the two loops of BuildOperation agree, whatever fields are *)
(* set and in whatever order their columns come.                           *)
(*                                                                         *)
(* The inductive invariant IInv says of the first loop what maxFeildStrLen *)
(* is worth for the fields collected so far, and of the second what is     *)
(* left to be printed: the fields of `out` and those of `fields` are, one  *)
(* after the other, the set fields below idx in order.                     *)
(***************************************************************************)
EXTENDS SqlUtil, FieldsProofs

\* What the second loop may put into `out`.
Assignment ==
    [field : Cols, needed : Int, beyond : Int,
     printed : {<<>>} \cup
         UNION {{Whole(Col(f), v) : v \in ValuesOf(Col(f))} : f \in Cols}]

TypeInv ==
    /\ table \in Tables
    /\ val \in [Cols -> UNION {ValuesOf(Col(f)) : f \in Cols}]
    /\ given \in [Cols -> UNION {GivenOf(Col(f)) : f \in Cols}]
    /\ \A f \in Cols : /\ val[f] \in ValuesOf(Col(f)) /\ given[f] \in GivenOf(Col(f))
                       /\ Creatable(Col(f))
    /\ changed \subseteq Cols
    /\ pc \in {"edit", "cond", "collect", "format", "built", "refused", "asserted"}
    /\ op \in {"none", "update", "insert", "delete"}
    /\ idx \in 1..Len(table.cols) + 1
    /\ fields \in Seq(Cols)
    /\ out \in Seq(Assignment)

\* What the text needs of the buffer besides Slack, if it is moderate.
Room(f) == IF Col(f).type \in Textual THEN Col(f).len ELSE 0

\* maxLen after the first loop's fields: -2, if it has doubled an unbounded length.
LengthInv ==
    /\ pc \in {"edit", "cond"} => maxLen = 0
    /\ pc = "collect" => maxLen = -2 \/ (maxLen >= 0 /\ maxLen + Slack < HalfWord)
    /\ maxLen \in Int /\ maxLen >= -2 /\ maxLen < HalfWord
    /\ (\A f \in changed : Col(f).len # Unbounded) =>
         /\ maxLen >= 0
         /\ pc = "collect" =>
              \A i \in DOMAIN fields : Room(fields[i]) <= maxLen
         /\ pc = "format" =>
              /\ maxLen >= Slack
              /\ \A i \in DOMAIN fields : Room(fields[i]) + Slack <= maxLen

\* The two loops' lists.
ListInv ==
    /\ pc \in {"edit", "cond"} => idx = 1 /\ fields = <<>>
    /\ pc \in {"edit", "cond", "collect"} => out = <<>>
    /\ pc \in {"format", "refused"} => idx = Len(table.cols) + 1
    /\ pc = "built" => fields = <<>> /\ (op # "delete" => idx = Len(table.cols) + 1)
    /\ Len(out) + Len(fields) < idx
    /\ \A i \in DOMAIN fields : fields[i] < idx /\ fields[i] \in changed
    /\ \A i, j \in DOMAIN fields : i < j => fields[i] < fields[j]
    /\ \A i \in DOMAIN out : \A j \in DOMAIN fields : out[i].field < fields[j]
    /\ \A i, j \in DOMAIN out : i < j => out[i].field < out[j].field
    /\ \A i \in DOMAIN out : out[i].field \in changed
                             /\ Col(out[i].field).type \in Printable
    /\ pc \in {"collect", "format", "built"} =>
         \A f \in changed : f < idx /\ Col(f).type \notin Unprintable =>
            \/ \E i \in DOMAIN fields : fields[i] = f
            \/ \E i \in DOMAIN out : out[i].field = f

KeyInv == pc = "cond" => table.key # 0

\* BuildCondition comes first, and what it reads stays as it is until Return.
CondInv ==
    /\ pc \in {"edit", "cond"} => cond = <<>>
    /\ cond = <<>> \/ cond \in Named(Col(table.key), val[table.key])

IInv ==
    /\ TypeInv /\ LengthInv /\ ListInv /\ KeyInv /\ CondInv
    /\ BufferHolds /\ AssertsOnlyKnown

-----------------------------------------------------------------------------
(* Sequences.                                                              *)

LEMMA Members ==
    ASSUME NEW S, NEW s \in Seq(S)
    PROVE  Len(s) \in Nat /\ DOMAIN s = 1..Len(s) /\ \A i \in DOMAIN s : s[i] \in S
OBVIOUS

\* What push_back leaves as it was, and what it adds.
LEMMA Appended ==
    ASSUME NEW S, NEW s \in Seq(S), NEW e \in S
    PROVE  LET t == Append(s, e) IN
             /\ t \in Seq(S) /\ Len(t) = Len(s) + 1 /\ t[Len(t)] = e
             /\ \A i \in 1..Len(s) : t[i] = s[i]
             /\ \A i \in DOMAIN t : \/ i \in DOMAIN s /\ t[i] = s[i]
                                    \/ i = Len(s) + 1 /\ t[i] = e
             /\ Len(s) \in Nat /\ DOMAIN s = 1..Len(s) /\ DOMAIN t = 1..Len(t)
<1>1. ASSUME NEW i \in 1..Len(s) + 1
      PROVE  \/ i \in DOMAIN s /\ Append(s, e)[i] = s[i]
             \/ i = Len(s) + 1 /\ Append(s, e)[i] = e
  <2>1. CASE i = Len(s) + 1
    BY <2>1
  <2>2. CASE i # Len(s) + 1
    BY <2>2
  <2> QED  BY <2>1, <2>2
<1>2. DOMAIN Append(s, e) = 1..Len(s) + 1
  OBVIOUS
<1>3. \A i \in DOMAIN Append(s, e) : \/ i \in DOMAIN s /\ Append(s, e)[i] = s[i]
                                     \/ i = Len(s) + 1 /\ Append(s, e)[i] = e
  BY <1>1, <1>2
<1> DEFINE t == Append(s, e)
<1>4. /\ t \in Seq(S) /\ Len(t) = Len(s) + 1 /\ t[Len(t)] = e
      /\ \A i \in 1..Len(s) : t[i] = s[i]
      /\ Len(s) \in Nat /\ DOMAIN s = 1..Len(s) /\ DOMAIN t = 1..Len(t)
  OBVIOUS
<1>5. \A i \in DOMAIN t : \/ i \in DOMAIN s /\ t[i] = s[i]
                          \/ i = Len(s) + 1 /\ t[i] = e
  BY <1>3
<1> HIDE DEF t
<1> QED  BY <1>4, <1>5 DEF t

\* Without its first member a list is the same one place further on.
LEMMA Shifted ==
    ASSUME NEW S, NEW s \in Seq(S), s # <<>>
    PROVE  LET t == Tail(s) IN
             /\ t \in Seq(S) /\ Len(s) = Len(t) + 1 /\ Head(s) = s[1] /\ s[1] \in S
             /\ \A i \in 1..Len(t) : t[i] = s[i + 1] /\ i + 1 \in DOMAIN s
             /\ Len(t) \in Nat /\ DOMAIN s = 1..Len(s) /\ DOMAIN t = 1..Len(t)
OBVIOUS

-----------------------------------------------------------------------------
(* Columns and values.                                                     *)

\* The columns are counted from 1.
LEMMA ColumnsAre ==
    ASSUME TypeInv
    PROVE  /\ table.cols \in Seq(Column) /\ Len(table.cols) \in Nat
           /\ Cols = 1..Len(table.cols) /\ table.key \in 0..Len(table.cols)
<1>1. table.cols \in Seq(Column) /\ table.key \in 0..Len(table.cols)
  BY ConstantsAssumption DEF TypeInv
<1> QED  BY <1>1 DEF Cols

\* What the constants promise of a column of the record's table.
LEMMA ColumnType ==
    ASSUME TypeInv, NEW f \in Cols
    PROVE  /\ Col(f).type \in STRING /\ Col(f).name \in 0..NameMax
           /\ Col(f).len \in Nat
           /\ 2 * Col(f).len + Slack < HalfWord \/ Col(f).len = Unbounded
<1>1. table.cols \in Seq(Column) /\ f \in 1..Len(table.cols)
  BY ColumnsAre
<1>2. table.cols[f] \in Column
  BY <1>1
<1>3. \/ 2 * table.cols[f].len + Slack < HalfWord
      \/ table.cols[f].len = Unbounded
  BY <1>1, ConstantsAssumption DEF TypeInv
<1> QED  BY <1>2, <1>3 DEF Col, Column

\* A new record's field has a value of its column, and one that a setter could be given.
LEMMA DefaultType ==
    ASSUME NEW d
    PROVE  Default(d) \in ValuesOf(d) /\ Default(d) \in GivenOf(d)
<1>1. CASE d.type \in Textual
  <2>1. d.type \notin IntTypes
    BY <1>1 DEF Textual, StringTypes, BlobTypes, IntTypes, Sized
  <2> QED  BY <1>1, <2>1 DEF Default, ValuesOf, GivenOf
<1>2. CASE d.type \notin Textual
  BY <1>2, ZeroInRange DEF Default, ValuesOf, GivenOf
<1> QED  BY <1>1, <1>2

\* What the fields of each class hold.
LEMMA ValueType ==
    ASSUME TypeInv, NEW f \in Cols
    PROVE  /\ Col(f).type \in Textual =>
                /\ val[f].size \in Nat /\ val[f].escapes \in Nat
                /\ val[f].escapes <= val[f].size
           /\ Col(f).type \in DoubleTypes => val[f] \in Int
           /\ Col(f).type \in IntTypes => val[f] \in RangeOf(Col(f)) /\ val[f] \in Int
           /\ Col(f).type \notin Textual => given[f] \in Int
<1>1. val[f] \in ValuesOf(Col(f)) /\ given[f] \in GivenOf(Col(f))
  BY DEF TypeInv
<1>2. CASE Col(f).type \in Textual
  <2>1. Col(f).type \notin IntTypes /\ Col(f).type \notin DoubleTypes
    BY <1>2 DEF Textual, StringTypes, BlobTypes, IntTypes, Sized, DoubleTypes, FloatTypes
  <2>2. val[f] \in Texts \/ val[f] = Empty
    BY <1>1, <1>2, <2>1 DEF ValuesOf
  <2>3. CASE val[f] = Empty
    BY <1>2, <2>1, <2>3 DEF Empty
  <2>4. CASE val[f] \in Texts
    <3>1. val[f] \in [size : Nat, escapes : Nat] /\ val[f].escapes <= val[f].size
      BY <2>4, ConstantsAssumption
    <3> QED  BY <1>2, <2>1, <3>1
  <2> QED  BY <2>2, <2>3, <2>4
<1>3. CASE Col(f).type \notin Textual
  <2>1. Col(f).type \in DoubleTypes => Col(f).type \notin IntTypes
    BY DEF IntTypes, Sized, DoubleTypes, FloatTypes
  <2>2. Col(f).type \in DoubleTypes => val[f] \in Int
    BY <1>1, <1>3, <2>1 DEF ValuesOf
  <2>3. Col(f).type \in IntTypes => val[f] \in RangeOf(Col(f)) /\ val[f] \in Int
    BY <1>1, 0 \in Int, CastInRange DEF ValuesOf
  <2>4. given[f] \in Int
    BY <1>1, <1>3 DEF GivenOf
  <2> QED  BY <1>3, <2>2, <2>3, <2>4
<1> QED  BY <1>2, <1>3

\* "%f" makes so many characters of every double.
LEMMA CharsType ==
    ASSUME NEW x \in Int
    PROVE  Chars(x) \in Nat
<1>1. ASSUME NEW n PROVE Digits(n) \in Nat
  <2> DEFINE A == {k \in 1..MaxExp : 10^k <= n}
  <2>1. A \subseteq 1..MaxExp /\ IsFiniteSet(1..MaxExp)
    BY ConstantsAssumption, FS_Interval
  <2> HIDE DEF A
  <2>2. Cardinality(A) \in Nat
    BY <2>1, FS_Subset, FS_CardinalityType
  <2> QED  BY <2>2 DEF Digits, A
<1>2. Chars(x) = (IF x < 0 THEN 1 ELSE 0)
          + Digits((IF Rounded(x) < 0 THEN -Rounded(x) ELSE Rounded(x)) \div Unit)
          + 1 + Decimals
  BY DEF Chars
<1> QED  BY <1>1, <1>2, ConstantsAssumption

\* The sizes of what BuildFormatSql prints are integers.
LEMMA SizesType ==
    ASSUME TypeInv, NEW f \in Cols, Col(f).type \in Printable, maxLen \in Int
    PROVE  Needed(Col(f), val[f]) \in Int /\ Beyond(Col(f), val[f]) \in Int
<1>1. Needed(Col(f), val[f]) \in Int
  <2>1. Col(f).name \in Int /\ NumberMax \in Int
    BY ColumnType, ConstantsAssumption
  <2>2. CASE Col(f).type \in Sized
    BY <2>1, <2>2 DEF Needed
  <2>3. CASE Col(f).type \in FloatTypes
    <3>1. Chars(val[f]) \in Int
      BY <2>3, ValueType, CharsType DEF DoubleTypes
    <3> QED  BY <2>1, <2>3, <3>1 DEF Needed, Sized, FloatTypes
  <2>4. CASE Col(f).type \in Textual
    <3>1. val[f].size \in Int /\ val[f].escapes \in Int
      BY <2>4, ValueType
    <3> QED  BY <2>1, <2>4, <3>1
             DEF Needed, Sized, FloatTypes, Textual, StringTypes, BlobTypes
  <2> QED  BY <2>2, <2>3, <2>4 DEF Printable
<1>2. Beyond(Col(f), val[f]) \in Int
  BY <1>1 DEF Beyond
<1> QED  BY <1>1, <1>2

\* Whatever has become of the text of an assignment, it is one.
LEMMA AssignmentType ==
    ASSUME TypeInv, NEW f \in Cols, Col(f).type \in Printable, maxLen \in Int,
           NEW p \in Printed(Col(f), val[f])
    PROVE  [field |-> f, printed |-> p,
            needed |-> Needed(Col(f), val[f]),
            beyond |-> Beyond(Col(f), val[f])] \in Assignment
<1>1. p = Whole(Col(f), val[f]) \/ p = <<>>
  BY DEF Printed
<1>2. p \in {<<>>} \cup UNION {{Whole(Col(g), v) : v \in ValuesOf(Col(g))} : g \in Cols}
  BY <1>1 DEF TypeInv
<1> QED  BY <1>2, SizesType DEF Assignment

\* A moderate value needs no more than its column's length and Slack.
LEMMA ModerateFits ==
    ASSUME TypeInv, NEW f \in Cols, Col(f).type \in Printable,
           Moderate(Col(f), val[f]),
           maxLen \in Int, maxLen >= Slack, Room(f) + Slack <= maxLen
    PROVE  Needed(Col(f), val[f]) <= maxLen /\ Beyond(Col(f), val[f]) = 0
<1> DEFINE col == Col(f)  v == val[f]
<1>1. /\ col.name \in Nat /\ col.name <= NameMax /\ col.len \in Nat
      /\ NameMax \in Nat /\ NumberMax \in Nat /\ Slack \in Nat
      /\ NameMax + NumberMax + 6 <= Slack
  BY ColumnType, ConstantsAssumption
<1>2. CASE col.type \in Sized
  <2>1. col.type \notin Textual
    BY <1>2 DEF Textual, StringTypes, BlobTypes, Sized
  <2>2. Needed(col, v) = col.name + NumberMax + 4
    BY <1>2 DEF Needed
  <2>3. Beyond(col, v) = 0
    BY <2>1 DEF Beyond, Textual
  <2> QED  BY <1>1, <2>2, <2>3
<1>3. CASE col.type \in FloatTypes
  <2>1. col.type \notin Textual /\ col.type \notin Sized
    BY <1>3 DEF Textual, StringTypes, BlobTypes, Sized, FloatTypes
  <2>2. Needed(col, v) = col.name + Chars(v) + 4 /\ Needed(col, v) <= Slack
    BY <1>3, <2>1 DEF Needed, Moderate
  <2>3. Beyond(col, v) = 0
    BY <2>1 DEF Beyond, Textual
  <2>4. Chars(v) \in Nat
    BY <1>3, ValueType, CharsType DEF DoubleTypes
  <2> QED  BY <1>1, <2>2, <2>3, <2>4
<1>4. CASE col.type \in Textual
  <2>1. col.type \notin FloatTypes /\ col.type \notin Sized
    BY <1>4 DEF Textual, StringTypes, BlobTypes, Sized, FloatTypes
  <2>2. /\ v.size <= col.len /\ col.name + v.escapes + 6 <= Slack
        /\ v.size > 0 => v.escapes < v.size
    BY <2>1 DEF Moderate
  <2>3. Needed(col, v) = col.name + v.size + v.escapes + 6
    BY <2>1 DEF Needed
  <2>4. v.size \in Nat /\ v.escapes \in Nat
    BY <1>4, ValueType
  <2>5. col.len + Slack <= maxLen
    BY <1>4 DEF Room
  <2>6. Needed(col, v) <= maxLen
    BY <1>1, <2>2, <2>3, <2>4, <2>5
  <2>7. ~(v.size > 0 /\ v.escapes = v.size) /\ ~(Needed(col, v) > maxLen)
    BY <1>1, <2>2, <2>3, <2>4, <2>6
  <2>8. Beyond(col, v) = 0
    BY <2>7 DEF Beyond
  <2> QED  BY <2>6, <2>8
<1> QED  BY <1>2, <1>3, <1>4 DEF Printable

\* A cast of a whole double that is in range takes its integer.
LEMMA ConvertedType ==
    ASSUME NEW x \in Int, NEW R
    PROVE  /\ Converted(x, R) \subseteq R
           /\ x % Unit = 0 /\ x \div Unit \in R => Converted(x, R) = {x \div Unit}
<1>1. Unit \in Nat \ {0}
  BY ConstantsAssumption
<1>2. x % Unit = 0 => -((-x) \div Unit) = x \div Unit
  BY <1>1, DivTruncates
<1>3. x % Unit = 0 => Truncated(x) = x \div Unit
  BY <1>2 DEF Truncated
<1> QED  BY <1>3 DEF Converted

-----------------------------------------------------------------------------
(* The first loop's length.                                                *)

\* Of bounded columns maxFeildStrLen only grows, and is then at least the length
\* of the column at hand; an unbounded one makes it -2 for good.
LEMMA LengthGrows ==
    ASSUME TypeInv, NEW f \in Cols,
           maxLen = -2 \/ (maxLen \in Int /\ maxLen >= 0 /\ maxLen + Slack < HalfWord)
    PROVE  LET L == LengthAfter(Col(f)) IN
             /\ L = -2 \/ (L \in Int /\ L >= 0 /\ L + Slack < HalfWord)
             /\ maxLen # -2 /\ Col(f).len # Unbounded =>
                  L >= maxLen /\ L >= 0 /\ Room(f) <= L
<1> DEFINE col == Col(f)  L == LengthAfter(Col(f))
<1>1. /\ col.len \in Nat
      /\ 2 * col.len + Slack < HalfWord \/ col.len = Unbounded
  BY ColumnType
<1>2. /\ HalfWord \in Nat /\ NumLen \in Nat \ {0} /\ Slack \in Nat
      /\ NumLen + Slack < HalfWord /\ Slack >= 6
  BY ConstantsAssumption
<1>3. CASE IS_FIELD_NUM(col.type) /\ maxLen = 0
  <2>1. L = NumLen
    BY <1>3 DEF LengthAfter
  <2>2. Room(f) = 0
    BY <1>3 DEF Room, IS_FIELD_NUM, Textual, StringTypes, BlobTypes, Sized, FloatTypes
  <2> QED  BY <1>2, <1>3, <2>1, <2>2
<1>4. CASE ~(IS_FIELD_NUM(col.type) /\ maxLen = 0) /\ col.len > Uint32(maxLen)
  <2>1. L = Sint32(Wrapped(2 * col.len))
    BY <1>4 DEF LengthAfter
  <2>2. CASE col.len = Unbounded
    <3>1. Wrapped(2 * col.len) = 2 * HalfWord - 2
      BY <1>2, <2>2 DEF Wrapped, Unbounded, Word
    <3>2. L = -2
      BY <1>2, <2>1, <3>1 DEF Sint32, Word
    <3> QED  BY <2>2, <3>2
  <2>3. CASE 2 * col.len + Slack < HalfWord
    <3>1. L = 2 * col.len
      BY <1>1, <1>2, <2>1, <2>3 DEF Wrapped, Sint32, Word
    <3>2. maxLen # -2
      BY <1>1, <1>2, <1>4, <2>3 DEF Uint32, Word
    <3>3. Uint32(maxLen) = maxLen
      BY <3>2 DEF Uint32
    <3>4. Room(f) <= col.len
      BY <1>1 DEF Room
    <3>5. Room(f) \in Nat
      BY <1>1 DEF Room
    <3> QED  BY <1>1, <1>2, <1>4, <2>3, <3>1, <3>2, <3>3, <3>4, <3>5
  <2> QED  BY <1>1, <2>2, <2>3
<1>5. CASE ~(IS_FIELD_NUM(col.type) /\ maxLen = 0) /\ ~(col.len > Uint32(maxLen))
  <2>1. L = maxLen
    BY <1>5 DEF LengthAfter
  <2>2. maxLen # -2 => Room(f) <= maxLen
    BY <1>1, <1>5 DEF Room, Uint32
  <2> QED  BY <2>1, <2>2
<1> QED  BY <1>3, <1>4, <1>5

-----------------------------------------------------------------------------
(* The invariant is inductive.                                             *)

\* What of the invariant reads no more than the table, the values and the set
\* fields holds on, as no action but the setters changes those.
LEMMA Kept ==
    ASSUME IInv, UNCHANGED <<table, val, given>>, changed' \subseteq Cols,
           pc' \in {"edit", "cond", "collect", "format", "built", "refused", "asserted"},
           op' \in {"none", "update", "insert", "delete"},
           idx' \in 1..Len(table.cols) + 1,
           fields' \in Seq(Cols), out' \in Seq(Assignment)
    PROVE  TypeInv'
BY DEF IInv, TypeInv, Cols, Col, Assignment

\* BufferHolds is a statement about each member of `out`.
LEMMA SameText ==
    ASSUME IInv, UNCHANGED <<table, val, changed, maxLen, out>>
    PROVE  BufferHolds'
BY DEF IInv, BufferHolds, Col

LEMMA NoText ==
    ASSUME out' = <<>>
    PROVE  BufferHolds'
BY DEF BufferHolds

\* CondInv speaks of the record, the statement and its condition alone.
LEMMA SameCondition ==
    ASSUME IInv, UNCHANGED <<table, val, op, cond>>, pc' \notin {"edit", "cond"}
    PROVE  CondInv'
BY DEF IInv, CondInv, Named, CondRoom, Col

LEMMA NoCondition ==
    ASSUME cond' = <<>>
    PROVE  CondInv'
BY DEF CondInv

LEMMA InitInv == Init => IInv
<1> SUFFICES ASSUME Init PROVE IInv
  OBVIOUS
<1>1. table \in Tables /\ table.cols \in Seq(Column)
  BY ConstantsAssumption DEF Init
<1>2. TypeInv
  <2>1. \A f \in Cols : /\ val[f] \in ValuesOf(Col(f)) /\ given[f] \in GivenOf(Col(f))
                        /\ Creatable(Col(f))
    BY DefaultType DEF Init, Cols, Col
  <2>2. /\ val \in [Cols -> UNION {ValuesOf(Col(f)) : f \in Cols}]
        /\ given \in [Cols -> UNION {GivenOf(Col(f)) : f \in Cols}]
    BY <2>1 DEF Init
  <2> QED  BY <1>1, <2>1, <2>2 DEF Init, TypeInv
<1>3. LengthInv
  BY ConstantsAssumption DEF Init, LengthInv
<1>4. ListInv
  BY DEF Init, ListInv
<1> QED  BY <1>2, <1>3, <1>4 DEF Init, IInv, KeyInv, CondInv, BufferHolds, AssertsOnlyKnown

\* A setter only changes its field, outside SqlUtil.
LEMMA AssignInv ==
    ASSUME IInv, NEW f \in Cols, NEW v \in ValuesOf(Col(f)), NEW g \in GivenOf(Col(f)),
           Assign(f, v, g)
    PROVE  IInv'
<1> USE DEF IInv
<1>1. /\ table' = table /\ cond' = cond /\ pc' = "edit" /\ pc = "edit" /\ op' = op /\ idx' = idx
      /\ maxLen' = maxLen /\ fields' = fields /\ out' = out
      /\ changed' = changed \cup {f} /\ val' = [val EXCEPT ![f] = v]
      /\ given' = [given EXCEPT ![f] = g]
  BY DEF Assign, loop
<1>2. idx = 1 /\ maxLen = 0 /\ fields = <<>> /\ out = <<>>
  BY <1>1 DEF ListInv, LengthInv
<1>3. TypeInv'
  <2>1. Cols' = Cols /\ Assignment' = Assignment
    BY <1>1 DEF Cols, Assignment, Col
  <2>2. \A h \in Cols : /\ val'[h] \in ValuesOf(Col(h)) /\ given'[h] \in GivenOf(Col(h))
                        /\ Creatable(Col(h))
    BY <1>1 DEF TypeInv
  <2>3. \A h \in Cols' : /\ val'[h] \in ValuesOf(Col(h))' /\ given'[h] \in GivenOf(Col(h))'
                         /\ Creatable(Col(h))'
    BY <1>1, <2>1, <2>2 DEF Col
  <2>4. /\ DOMAIN val' = Cols' /\ val' = [h \in Cols' |-> val'[h]]
        /\ DOMAIN given' = Cols' /\ given' = [h \in Cols' |-> given'[h]]
    BY <1>1, <2>1 DEF TypeInv
  <2>5. val' \in [Cols -> UNION {ValuesOf(Col(h)) : h \in Cols}]'
    BY <2>3, <2>4
  <2>6. given' \in [Cols -> UNION {GivenOf(Col(h)) : h \in Cols}]'
    BY <2>3, <2>4
  <2> QED  BY <1>1, <2>1, <2>3, <2>5, <2>6 DEF TypeInv
<1>4. LengthInv'
  BY <1>1, <1>2, ConstantsAssumption DEF LengthInv
<1>5. ListInv'
  BY <1>1, <1>2 DEF ListInv
<1>6. CondInv'
  BY <1>1, NoCondition DEF CondInv
<1> QED  BY <1>1, <1>2, <1>3, <1>4, <1>5, <1>6, NoText DEF KeyInv, AssertsOnlyKnown

\* A setter's step is such an assignment, of a value that the field can hold.
LEMMA SetterType ==
    ASSUME TypeInv, NEW f \in Cols,
           \/ \E n \in Numbers : SetInt(f, n)
           \/ \E x \in Doubles : SetDouble(f, x)
           \/ \E t \in Texts : SetText(f, t)
    PROVE  \E v \in ValuesOf(Col(f)), g \in GivenOf(Col(f)) : Assign(f, v, g)
<1> DEFINE d == Col(f)
<1>1. /\ d.type \in IntTypes \cup DoubleTypes => d.type \notin Textual
      /\ d.type \in DoubleTypes \cup Textual => d.type \notin IntTypes
  BY DEF Textual, StringTypes, BlobTypes, IntTypes, Sized, DoubleTypes, FloatTypes
<1> HIDE DEF d
<1>2. /\ d.type \in IntTypes => ValuesOf(d) = RangeOf(d) /\ GivenOf(d) = Int
      /\ d.type \in DoubleTypes => ValuesOf(d) = Int /\ GivenOf(d) = Int
      /\ d.type \in Textual => Texts \subseteq ValuesOf(d) /\ Texts \subseteq GivenOf(d)
  BY <1>1 DEF ValuesOf, GivenOf
<1>3. Unit \in Int /\ Numbers \subseteq Int /\ Doubles \subseteq Int
  BY ConstantsAssumption DEF Sint64, SignedRange
<1>4. ASSUME NEW n \in Numbers, SetInt(f, n)
      PROVE  \E v \in ValuesOf(d), g \in GivenOf(d) : Assign(f, v, g)
  <2>1. n \in Int /\ n * Unit \in Int
    BY <1>3
  <2>2. CASE d.type \in IntTypes /\ Assign(f, Cast(n, d), n * Unit)
    BY <1>2, <2>1, <2>2, CastInRange
  <2>3. CASE d.type \in DoubleTypes /\ Assign(f, ToDouble(n) * Unit, n * Unit)
    <3>1. ToDouble(n) * Unit \in Int
      BY <1>3, <2>1, ToDoubleType
    <3> QED  BY <1>2, <2>1, <2>3, <3>1
  <2> QED  BY <1>4, <2>2, <2>3 DEF SetInt, d
<1>5. ASSUME NEW x \in Doubles, SetDouble(f, x)
      PROVE  \E v \in ValuesOf(d), g \in GivenOf(d) : Assign(f, v, g)
  <2>1. x \in Int /\ Converted(x, RangeOf(d)) \subseteq RangeOf(d)
    BY <1>3, ConvertedType
  <2>2. CASE d.type \in IntTypes /\ \E v \in Converted(x, RangeOf(d)) : Assign(f, v, x)
    BY <1>2, <2>1, <2>2
  <2>3. CASE d.type \in DoubleTypes /\ Assign(f, x, x)
    BY <1>2, <2>1, <2>3
  <2> QED  BY <1>5, <2>2, <2>3 DEF SetDouble, d
<1>6. ASSUME NEW t \in Texts, SetText(f, t)
      PROVE  \E v \in ValuesOf(d), g \in GivenOf(d) : Assign(f, v, g)
  BY <1>2, <1>6 DEF SetText, d
<1> QED  BY <1>4, <1>5, <1>6 DEF d

LEMMA BuildInv ==
    ASSUME IInv, NEW o \in {"update", "insert", "delete"}, Build(o)
    PROVE  IInv'
<1> USE DEF IInv
<1>1. /\ table' = table /\ val' = val /\ given' = given /\ changed' = changed /\ idx' = idx
      /\ cond' = cond
      /\ maxLen' = maxLen /\ fields' = fields /\ out' = out
      /\ pc = "edit" /\ pc' \in {"cond", "collect"} /\ op' = o /\ table.key # 0
  BY DEF Build, loop
<1>2. idx = 1 /\ maxLen = 0 /\ fields = <<>> /\ out = <<>>
  BY <1>1 DEF ListInv, LengthInv
<1>3. TypeInv'
  BY <1>1, Kept DEF TypeInv
<1>4. LengthInv'
  BY <1>1, <1>2, ConstantsAssumption DEF LengthInv
<1>5. ListInv'
  <2>1. changed \subseteq Cols /\ \A g \in Cols : ~(g < 1)
    <3>1. changed \subseteq Cols
      BY DEF TypeInv
    <3>2. Cols = 1..Len(table.cols)
      BY ColumnsAre
    <3> QED  BY <3>1, <3>2
  <2> QED  BY <1>1, <1>2, <2>1 DEF ListInv
<1>6. CondInv'
  BY <1>1, NoCondition DEF CondInv
<1> QED  BY <1>1, <1>2, <1>3, <1>4, <1>5, <1>6, NoText DEF KeyInv, AssertsOnlyKnown

LEMMA BuildConditionInv ==
    ASSUME IInv, BuildCondition
    PROVE  IInv'
<1> USE DEF IInv
<1>1. /\ table' = table /\ val' = val /\ given' = given /\ changed' = changed /\ idx' = idx /\ op' = op
      /\ maxLen' = maxLen /\ fields' = fields /\ out' = out
      /\ pc = "cond" /\ pc' \in {"built", "collect", "asserted"}
      /\ pc' = "built" => op = "delete"
      /\ cond' \in Named(Col(table.key), val[table.key])
  BY DEF BuildCondition, loop
<1>2. idx = 1 /\ maxLen = 0 /\ fields = <<>> /\ out = <<>>
  BY <1>1 DEF ListInv, LengthInv
<1>3. TypeInv'
  BY <1>1, Kept DEF TypeInv
<1>4. LengthInv'
  BY <1>1, <1>2, ConstantsAssumption DEF LengthInv
<1>5. ListInv'
  <2>1. changed \subseteq Cols /\ \A g \in Cols : ~(g < 1)
    <3>1. changed \subseteq Cols
      BY DEF TypeInv
    <3>2. Cols = 1..Len(table.cols)
      BY ColumnsAre
    <3> QED  BY <3>1, <3>2
  <2> QED  BY <1>1, <1>2, <2>1 DEF ListInv
<1>6. AssertsOnlyKnown'
  <2> SUFFICES ASSUME pc' = "asserted"
               PROVE  Col(table.key).type \in Unprintable
    BY <1>1 DEF AssertsOnlyKnown, Col
  <2>1. /\ ~IS_FIELD_NUM(Col(table.key).type)
        /\ Col(table.key).type \notin Textual
    BY <1>1 DEF BuildCondition
  <2>2. table.key \in Cols
    BY <1>1, ColumnsAre DEF KeyInv
  <2>3. Creatable(Col(table.key))
    BY <2>2 DEF TypeInv
  <2> QED  BY <2>1, <2>3
           DEF Creatable, DoubleTypes, IS_FIELD_NUM, IntTypes, Textual, Unprintable
<1>7. CondInv'
  BY <1>1 DEF CondInv, Named, CondRoom, Col
<1> QED  BY <1>1, <1>2, <1>3, <1>4, <1>5, <1>6, <1>7, NoText DEF KeyInv

LEMMA CollectInv ==
    ASSUME IInv, Collect
    PROVE  IInv'
<1> USE DEF IInv
<1>1. /\ table' = table /\ val' = val /\ given' = given /\ changed' = changed /\ idx' = idx + 1
      /\ op' = op /\ cond' = cond /\ out' = out /\ pc = "collect" /\ pc' = pc /\ idx \in Cols
      /\ idx \in changed => /\ fields' = Append(fields, idx)
                            /\ maxLen' = LengthAfter(Col(idx))
      /\ idx \notin changed => fields' = fields /\ maxLen' = maxLen
  BY DEF Collect
<1>2. idx \in Nat /\ idx + 1 \in 1..Len(table.cols) + 1
  <2>1. idx \in Cols
    BY <1>1
  <2>2. Cols = 1..Len(table.cols) /\ Len(table.cols) \in Nat
    BY ColumnsAre
  <2> QED  BY <2>1, <2>2
<1>s. fields \in Seq(Cols) /\ Len(fields) \in Nat /\ DOMAIN fields = 1..Len(fields)
  BY Members DEF TypeInv
<1>n. \A i \in DOMAIN fields : fields[i] \in Cols /\ fields[i] \in Nat
  <2>1. \A i \in DOMAIN fields : fields[i] \in Cols
    BY <1>s, Members
  <2> QED  BY <2>1, ColumnsAre
<1>3. out = <<>>
  BY <1>1 DEF ListInv
<1>4. /\ idx \in changed => /\ fields' \in Seq(Cols) /\ Len(fields') = Len(fields) + 1
                            /\ fields'[Len(fields')] = idx
                            /\ \A i \in 1..Len(fields) : fields'[i] = fields[i]
      /\ Len(fields) \in Nat /\ DOMAIN fields = 1..Len(fields)
      /\ DOMAIN fields' = 1..Len(fields')
  <2>1. CASE idx \in changed
    BY <1>1, <1>s, <2>1, Appended
  <2>2. CASE idx \notin changed
    BY <1>1, <1>s, <2>2
  <2> QED  BY <2>1, <2>2
<1>5. TypeInv'
  BY <1>1, <1>2, <1>s, <1>4, Kept DEF TypeInv
<1>6. LengthInv'
  <2>1. CASE idx \notin changed
    BY <1>1, <2>1 DEF LengthInv, Room, Col
  <2>2. CASE idx \in changed
    <3>1. maxLen = -2 \/ (maxLen \in Int /\ maxLen >= 0 /\ maxLen + Slack < HalfWord)
      BY <1>1 DEF LengthInv
    <3>2. /\ maxLen' = -2
             \/ (maxLen' \in Int /\ maxLen' >= 0 /\ maxLen' + Slack < HalfWord)
          /\ maxLen # -2 /\ Col(idx).len # Unbounded =>
               maxLen' >= maxLen /\ maxLen' >= 0 /\ Room(idx) <= maxLen'
      BY <1>1, <2>2, <3>1, LengthGrows
    <3>3. maxLen' \in Int /\ maxLen' >= -2 /\ maxLen' < HalfWord
      BY <3>2, ConstantsAssumption
    <3>4. ASSUME \A f \in changed : Col(f).len # Unbounded
          PROVE  /\ maxLen' >= 0
                 /\ \A i \in DOMAIN fields' : Room(fields'[i]) <= maxLen'
      <4>1. /\ maxLen >= 0 /\ maxLen # -2
            /\ \A i \in DOMAIN fields : Room(fields[i]) <= maxLen
        BY <1>1, <3>4 DEF LengthInv
      <4>2. maxLen' >= maxLen /\ maxLen' >= 0 /\ Room(idx) <= maxLen'
        BY <2>2, <3>2, <3>4, <4>1
      <4>3. \A f \in Cols : Room(f) \in Int
        BY ColumnType DEF Room
      <4>4. ASSUME NEW i \in DOMAIN fields'
            PROVE  Room(fields'[i]) <= maxLen'
        <5>1. CASE i = Len(fields')
          BY <1>4, <2>2, <4>2, <5>1
        <5>2. CASE i \in 1..Len(fields)
          <6>1. Room(fields[i]) <= maxLen /\ fields[i] \in Cols
            BY <1>4, <1>n, <4>1, <5>2
          <6>2. Room(fields[i]) \in Int
            BY <4>3, <6>1
          <6> QED  BY <1>4, <2>2, <3>1, <3>2, <4>1, <4>2, <5>2, <6>1, <6>2
        <5> QED  BY <1>4, <2>2, <5>1, <5>2
      <4> QED  BY <4>2, <4>4
    <3>5. (\A f \in changed : Col(f).len # Unbounded)' =>
            (\A f \in changed : Col(f).len # Unbounded)
      BY <1>1 DEF Col
    <3>6. \A f : Room(f)' = Room(f)
      BY <1>1 DEF Room, Col
    <3> QED  BY <1>1, <3>2, <3>3, <3>4, <3>5, <3>6 DEF LengthInv
  <2> QED  BY <2>1, <2>2
<1>7. ListInv'
  <2>1. /\ Len(out') = 0 /\ DOMAIN out' = {} /\ DOMAIN out = {}
        /\ Len(out) = 0 /\ Len(fields') < idx'
    <3>1. Len(out) = 0 /\ DOMAIN out = {} /\ Len(fields) < idx
      BY <1>1, <1>2, <1>3, <1>s DEF ListInv
    <3>2. Len(fields') < idx'
      <4>1. CASE idx \in changed
        BY <1>1, <1>2, <1>4, <3>1, <4>1
      <4>2. CASE idx \notin changed
        <5>1. fields' = fields /\ idx' = idx + 1
          BY <1>1, <4>2
        <5>2. Len(fields) < idx + 1
          BY <1>2, <1>s, <3>1
        <5> QED  BY <5>1, <5>2
      <4> QED  BY <4>1, <4>2
    <3> QED  BY <1>1, <1>3, <3>1, <3>2
  <2>2. /\ \A i \in DOMAIN fields : fields[i] < idx /\ fields[i] \in changed
        /\ \A i, j \in DOMAIN fields : i < j => fields[i] < fields[j]
        /\ \A f \in changed : f < idx /\ Col(f).type \notin Unprintable =>
             \E i \in DOMAIN fields : fields[i] = f
    BY <1>1, <2>1 DEF ListInv
  <2>3. /\ \A i \in DOMAIN fields' : fields'[i] < idx' /\ fields'[i] \in changed
        /\ \A i, j \in DOMAIN fields' : i < j => fields'[i] < fields'[j]
    <3>2. CASE idx \notin changed
      BY <1>1, <1>2, <1>n, <2>2, <3>2
    <3>3. CASE idx \in changed
      <4>1. \A i \in DOMAIN fields' :
              \/ i \in DOMAIN fields /\ fields'[i] = fields[i]
              \/ i = Len(fields) + 1 /\ fields'[i] = idx
        BY <1>4, <3>3
      <4>2. \A i \in DOMAIN fields' : fields'[i] < idx' /\ fields'[i] \in changed
        BY <1>1, <1>2, <1>n, <2>2, <3>3, <4>1
      <4>3. ASSUME NEW i \in DOMAIN fields', NEW j \in DOMAIN fields', i < j
            PROVE  fields'[i] < fields'[j]
        BY <1>4, <1>n, <2>2, <3>3, <4>1, <4>3
      <4> QED  BY <4>2, <4>3
    <3> QED  BY <3>2, <3>3
  <2>4. ASSUME NEW f \in changed, f < idx + 1, Col(f).type \notin Unprintable
        PROVE  \E i \in DOMAIN fields' : fields'[i] = f
    <3>1. CASE f = idx
      BY <1>1, <1>2, <1>4, <3>1
    <3>2. CASE f < idx
      <4>1. PICK i \in DOMAIN fields : fields[i] = f
        BY <2>2, <2>4, <3>2
      <4>2. i \in DOMAIN fields' /\ fields'[i] = fields[i]
        <5>1. CASE idx \in changed
          BY <1>4, <1>s, <5>1
        <5>2. CASE idx \notin changed
          BY <1>1, <5>2
        <5> QED  BY <5>1, <5>2
      <4> QED  BY <4>1, <4>2
    <3>3. f \in Nat
      <4>1. f \in Cols
        BY <2>4 DEF TypeInv
      <4> QED  BY <4>1, ColumnsAre
    <3> QED  BY <1>2, <2>4, <3>1, <3>2, <3>3
  <2> QED  BY <1>1, <1>3, <2>1, <2>3, <2>4 DEF ListInv, Col
<1>c. CondInv'
  BY <1>1, SameCondition
<1> QED  BY <1>1, <1>c, <1>3, <1>5, <1>6, <1>7, NoText DEF KeyInv, AssertsOnlyKnown

LEMMA CollectDoneInv ==
    ASSUME IInv, CollectDone
    PROVE  IInv'
<1> USE DEF IInv
<1>1. /\ table' = table /\ val' = val /\ given' = given /\ changed' = changed /\ idx' = idx
      /\ op' = op /\ cond' = cond /\ fields' = fields /\ out' = out
      /\ pc = "collect" /\ idx \notin Cols
      /\ fields = <<>> => pc' = "built" /\ maxLen' = maxLen
      /\ fields # <<>> => pc' = "format" /\ maxLen' = maxLen + Slack
  BY DEF CollectDone
<1>2. out = <<>> /\ pc' \in {"built", "format"}
  BY <1>1 DEF ListInv
<1>3. idx = Len(table.cols) + 1
  BY <1>1, ColumnsAre DEF TypeInv
<1>4. TypeInv'
  BY <1>1, <1>2, Kept DEF TypeInv
<1>5. LengthInv'
  <2>1. Slack \in Nat /\ Slack >= 6 /\ HalfWord \in Nat /\ Slack < HalfWord
    BY ConstantsAssumption
  <2>2. maxLen = -2 \/ (maxLen >= 0 /\ maxLen \in Int /\ maxLen + Slack < HalfWord)
    BY <1>1 DEF LengthInv
  <2>3. CASE fields = <<>>
    BY <1>1, <2>1, <2>2, <2>3 DEF LengthInv, Col
  <2>4. CASE fields # <<>>
    <3>1. maxLen' \in Int /\ maxLen' >= -2 /\ maxLen' < HalfWord
      BY <1>1, <2>1, <2>2, <2>4
    <3>2. ASSUME \A f \in changed : Col(f).len # Unbounded
          PROVE  /\ maxLen' >= 0 /\ maxLen' >= Slack
                 /\ \A i \in DOMAIN fields : Room(fields[i]) + Slack <= maxLen'
      <4>1. maxLen >= 0 /\ \A i \in DOMAIN fields : Room(fields[i]) <= maxLen
        BY <1>1, <3>2 DEF LengthInv
      <4>2. \A i \in DOMAIN fields : Room(fields[i]) \in Int
        <5>1. \A f \in Cols : Room(f) \in Int
          BY ColumnType DEF Room
        <5>2. fields \in Seq(Cols)
          BY DEF TypeInv
        <5> QED  BY <5>1, <5>2
      <4> QED  BY <1>1, <2>1, <2>2, <2>4, <4>1, <4>2
    <3>3. /\ \A f : Room(f)' = Room(f)
          /\ (\A f \in changed : Col(f).len # Unbounded)' =>
                (\A f \in changed : Col(f).len # Unbounded)
      BY <1>1 DEF Room, Col
    <3> QED  BY <1>1, <2>4, <3>1, <3>2, <3>3 DEF LengthInv
  <2> QED  BY <2>3, <2>4
<1>6. ListInv'
  BY <1>1, <1>2, <1>3 DEF ListInv, Col
<1>c. CondInv'
  BY <1>1, <1>2, SameCondition
<1> QED  BY <1>1, <1>c, <1>2, <1>4, <1>5, <1>6, NoText DEF KeyInv, AssertsOnlyKnown

LEMMA FormatInv ==
    ASSUME IInv, Format
    PROVE  IInv'
<1> USE DEF IInv
<1> DEFINE f == Head(fields)
<1>p. PICK p \in Printed(Col(f), val[f]) :
        out' = Append(out, [field |-> f, printed |-> p,
                            needed |-> Needed(Col(f), val[f]),
                            beyond |-> Beyond(Col(f), val[f])])
  BY DEF Format
<1> DEFINE a == [field |-> f, printed |-> p,
                 needed |-> Needed(Col(f), val[f]), beyond |-> Beyond(Col(f), val[f])]
<1>1. /\ table' = table /\ val' = val /\ given' = given /\ changed' = changed /\ idx' = idx
      /\ op' = op /\ cond' = cond /\ maxLen' = maxLen /\ pc = "format" /\ pc' = pc
      /\ fields # <<>> /\ fields' = Tail(fields)
      /\ Col(f).type \in Printable /\ out' = Append(out, a)
  BY <1>p DEF Format
<1>s. fields \in Seq(Cols) /\ out \in Seq(Assignment)
  BY DEF TypeInv
<1>2. /\ fields' \in Seq(Cols) /\ Len(fields) = Len(fields') + 1 /\ f = fields[1]
      /\ f \in Cols /\ 1 \in DOMAIN fields
      /\ \A i \in DOMAIN fields' : fields'[i] = fields[i + 1] /\ i + 1 \in DOMAIN fields
      /\ \A i \in DOMAIN fields : i = 1 \/ (i > 1 /\ i - 1 \in DOMAIN fields')
      /\ Len(fields') \in Nat /\ DOMAIN fields' \subseteq Nat \ {0}
  <2> DEFINE t == Tail(fields)
  <2>1. /\ t \in Seq(Cols) /\ Len(fields) = Len(t) + 1 /\ f = fields[1] /\ fields[1] \in Cols
        /\ \A i \in 1..Len(t) : t[i] = fields[i + 1] /\ i + 1 \in DOMAIN fields
        /\ Len(t) \in Nat /\ DOMAIN fields = 1..Len(fields) /\ DOMAIN t = 1..Len(t)
    BY <1>1, <1>s, Shifted
  <2>2. 1 \in DOMAIN fields /\ DOMAIN t \subseteq Nat \ {0}
    BY <2>1
  <2>3. \A i \in DOMAIN fields : i = 1 \/ (i > 1 /\ i - 1 \in DOMAIN t)
    BY <2>1
  <2> HIDE DEF t
  <2> QED  BY <1>1, <2>1, <2>2, <2>3 DEF t
<1>m. maxLen \in Int
  BY DEF LengthInv
<1>3. a \in Assignment
  BY <1>1, <1>2, <1>m, AssignmentType
<1>4. /\ out' \in Seq(Assignment) /\ Len(out') = Len(out) + 1 /\ Len(out) \in Nat
      /\ \A i \in DOMAIN out' : \/ i \in DOMAIN out /\ out'[i] = out[i]
                                \/ i = Len(out) + 1 /\ out'[i] = a
      /\ DOMAIN out = 1..Len(out)
      /\ \A i \in DOMAIN out : i \in DOMAIN out' /\ out'[i] = out[i]
      /\ Len(out) + 1 \in DOMAIN out' /\ out'[Len(out) + 1] = a
  <2> DEFINE t == Append(out, a)
  <2> HIDE DEF a
  <2>1. /\ t \in Seq(Assignment) /\ Len(t) = Len(out) + 1 /\ t[Len(t)] = a
        /\ \A i \in 1..Len(out) : t[i] = out[i]
        /\ \A i \in DOMAIN t : \/ i \in DOMAIN out /\ t[i] = out[i]
                               \/ i = Len(out) + 1 /\ t[i] = a
        /\ Len(out) \in Nat /\ DOMAIN out = 1..Len(out) /\ DOMAIN t = 1..Len(t)
    BY <1>s, <1>3, Appended
  <2> HIDE DEF t
  <2>2. out' = t
    BY <1>1 DEF t, a
  <2>3. (\A i \in DOMAIN out : i \in DOMAIN t) /\ Len(out) + 1 \in DOMAIN t
    BY <2>1
  <2>4. \A i \in DOMAIN out : t[i] = out[i]
    BY <2>1
  <2>5. \A i \in DOMAIN out : i # Len(out) + 1
    BY <2>1
  <2>6. t[Len(out) + 1] = a
    BY <2>1, <2>3, <2>5
  <2> QED  BY <2>1, <2>2, <2>3, <2>4, <2>6
<1>f. a.field = f /\ a.needed = Needed(Col(f), val[f]) /\ a.beyond = Beyond(Col(f), val[f])
  OBVIOUS
<1> HIDE DEF f, a
<1>5. TypeInv'
  BY <1>1, <1>2, <1>4, Kept DEF TypeInv
<1>6. LengthInv'
  <2>1. ASSUME \A g \in changed : Col(g).len # Unbounded
        PROVE  \A i \in DOMAIN fields' : Room(fields'[i]) + Slack <= maxLen
    <3>1. \A i \in DOMAIN fields : Room(fields[i]) + Slack <= maxLen
      BY <1>1, <2>1 DEF LengthInv
    <3> QED  BY <1>2, <3>1
  <2>2. /\ \A g : Room(g)' = Room(g)
        /\ (\A g \in changed : Col(g).len # Unbounded)' =>
              (\A g \in changed : Col(g).len # Unbounded)
    BY <1>1 DEF Room, Col
  <2> QED  BY <1>1, <2>1, <2>2 DEF LengthInv
<1>7. ListInv'
  <2>1. idx \in Nat /\ idx = Len(table.cols) + 1 /\ Len(out) + Len(fields) < idx
    BY <1>1, ColumnsAre DEF ListInv, TypeInv
  <2>2. /\ \A i \in DOMAIN fields : fields[i] < idx /\ fields[i] \in changed
        /\ \A i, j \in DOMAIN fields : i < j => fields[i] < fields[j]
        /\ \A i \in DOMAIN out : \A j \in DOMAIN fields : out[i].field < fields[j]
        /\ \A i, j \in DOMAIN out : i < j => out[i].field < out[j].field
        /\ \A i \in DOMAIN out : out[i].field \in changed
                                 /\ Col(out[i].field).type \in Printable
        /\ \A g \in changed : g < idx /\ Col(g).type \notin Unprintable =>
                \/ \E i \in DOMAIN fields : fields[i] = g
                \/ \E i \in DOMAIN out : out[i].field = g
    BY <1>1 DEF ListInv
  <2>3. Len(out') + Len(fields') < idx'
    BY <1>1, <1>2, <1>4, <2>1
  <2>4. /\ \A i \in DOMAIN fields' : fields'[i] < idx' /\ fields'[i] \in changed
        /\ \A i, j \in DOMAIN fields' : i < j => fields'[i] < fields'[j]
    <3>1. \A i \in DOMAIN fields' : fields'[i] < idx' /\ fields'[i] \in changed
      BY <1>1, <1>2, <2>2
    <3>2. ASSUME NEW i \in DOMAIN fields', NEW j \in DOMAIN fields', i < j
          PROVE  fields'[i] < fields'[j]
      <4>1. i + 1 < j + 1
        BY <1>2, <3>2
      <4> QED  BY <1>2, <2>2, <4>1
    <3> QED  BY <3>1, <3>2
  <2>5. \A j \in DOMAIN fields' : f < fields'[j]
    <3>1. \A j \in DOMAIN fields' : 1 < j + 1
      BY <1>2
    <3> QED  BY <1>2, <2>2, <3>1
  <2>6. \A i \in DOMAIN out' : \A j \in DOMAIN fields' : out'[i].field < fields'[j]
    BY <1>2, <1>4, <1>f, <2>2, <2>5
  <2>7. \A i, j \in DOMAIN out' : i < j => out'[i].field < out'[j].field
    <3>1. \A i \in DOMAIN out : out[i].field < f
      BY <1>2, <2>2
    <3>2. \A i \in DOMAIN out : ~(Len(out) + 1 < i)
      BY <1>4
    <3>3. ~(Len(out) + 1 < Len(out) + 1)
      BY <1>4
    <3> QED  BY <1>4, <1>f, <2>2, <3>1, <3>2, <3>3
  <2>8. \A i \in DOMAIN out' : out'[i].field \in changed
                              /\ Col(out'[i].field).type \in Printable
    BY <1>1, <1>2, <1>4, <1>f, <2>2
  <2>9. ASSUME NEW g \in changed, g < idx, Col(g).type \notin Unprintable
        PROVE  \/ \E i \in DOMAIN fields' : fields'[i] = g
               \/ \E i \in DOMAIN out' : out'[i].field = g
    <3>1. CASE \E i \in DOMAIN out : out[i].field = g
      BY <1>4, <3>1
    <3>2. CASE \E i \in DOMAIN fields : fields[i] = g
      <4>1. PICK i \in DOMAIN fields : fields[i] = g
        BY <3>2
      <4>2. CASE i = 1
        BY <1>2, <1>4, <1>f, <4>1, <4>2
      <4>3. CASE i > 1 /\ i - 1 \in DOMAIN fields'
        <5>1. i - 1 + 1 = i
          BY <1>2, <4>3, <1>s
        <5> QED  BY <1>2, <4>1, <4>3, <5>1
      <4> QED  BY <1>2, <4>2, <4>3
    <3> QED  BY <2>2, <2>9, <3>1, <3>2
  <2> QED  BY <1>1, <2>1, <2>3, <2>4, <2>6, <2>7, <2>8, <2>9 DEF ListInv, Col
<1>8. BufferHolds'
  <2> SUFFICES ASSUME \A g \in changed : Col(g).len # Unbounded,
                      NEW i \in DOMAIN out',
                      Moderate(Col(out'[i].field), val[out'[i].field])
               PROVE  out'[i].needed <= maxLen /\ out'[i].beyond = 0
    BY <1>1 DEF BufferHolds, Col
  <2>1. CASE i \in DOMAIN out /\ out'[i] = out[i]
    BY <2>1 DEF BufferHolds
  <2>2. CASE out'[i] = a
    <3>1. maxLen >= Slack /\ Room(f) + Slack <= maxLen
      BY <1>1, <1>2 DEF LengthInv
    <3>2. Moderate(Col(f), val[f])
      BY <1>f, <2>2
    <3> QED  BY <1>1, <1>2, <1>f, <1>m, <2>2, <3>1, <3>2, ModerateFits DEF f
  <2> QED  BY <1>4, <2>1, <2>2
<1>c. CondInv'
  BY <1>1, SameCondition
<1> QED  BY <1>1, <1>c, <1>5, <1>6, <1>7, <1>8 DEF KeyInv, AssertsOnlyKnown

LEMMA FormatAssertsInv ==
    ASSUME IInv, FormatAsserts
    PROVE  IInv'
<1> USE DEF IInv
<1> DEFINE f == Head(fields)
<1>1. /\ table' = table /\ val' = val /\ given' = given /\ changed' = changed /\ idx' = idx
      /\ op' = op /\ cond' = cond /\ maxLen' = maxLen /\ out' = out /\ pc = "format"
      /\ fields # <<>> /\ Col(f).type \notin Printable
      /\ \/ pc' = "asserted" /\ fields' = fields
         \/ pc' = pc /\ fields' = Tail(fields)
  BY DEF FormatAsserts
<1>s. fields \in Seq(Cols) /\ out \in Seq(Assignment)
  BY DEF TypeInv
<1>2. LET t == Tail(fields) IN
      /\ t \in Seq(Cols) /\ Len(fields) = Len(t) + 1
      /\ f = fields[1] /\ fields[1] \in Cols /\ 1 \in DOMAIN fields
      /\ \A i \in DOMAIN t : t[i] = fields[i + 1] /\ i + 1 \in DOMAIN fields
      /\ \A i \in DOMAIN fields : i = 1 \/ (i > 1 /\ i - 1 \in DOMAIN t)
      /\ Len(t) \in Nat /\ DOMAIN t \subseteq Nat \ {0}
      /\ DOMAIN fields \subseteq Nat
  <2> DEFINE t == Tail(fields)
  <2>1. /\ t \in Seq(Cols) /\ Len(fields) = Len(t) + 1 /\ f = fields[1] /\ fields[1] \in Cols
        /\ \A i \in 1..Len(t) : t[i] = fields[i + 1] /\ i + 1 \in DOMAIN fields
        /\ Len(t) \in Nat /\ DOMAIN fields = 1..Len(fields) /\ DOMAIN t = 1..Len(t)
    BY <1>1, <1>s, Shifted
  <2>2. 1 \in DOMAIN fields /\ DOMAIN t \subseteq Nat \ {0} /\ DOMAIN fields \subseteq Nat
    BY <2>1
  <2>3. \A i \in DOMAIN fields : i = 1 \/ (i > 1 /\ i - 1 \in DOMAIN t)
    BY <2>1
  <2> HIDE DEF t
  <2> QED  BY <2>1, <2>2, <2>3 DEF t
<1>3. f \in changed /\ Col(f).type \in Unprintable
  <2>1. f \in changed /\ f \in Cols
    BY <1>2 DEF ListInv
  <2>2. Creatable(Col(f))
    BY <2>1 DEF TypeInv
  <2> QED  BY <1>1, <2>1, <2>2
           DEF Creatable, DoubleTypes, Printable, Textual, IntTypes, Unprintable
<1> HIDE DEF f
<1>4. BufferHolds'
  BY <1>1, SameText
<1>5. AssertsOnlyKnown'
  BY <1>1, <1>3 DEF AssertsOnlyKnown, Col
<1>c. CondInv'
  BY <1>1, SameCondition
<1>6. CASE pc' = "asserted" /\ fields' = fields
  <2>1. TypeInv'
    BY <1>1, <1>6, Kept DEF TypeInv
  <2>2. LengthInv'
    BY <1>1, <1>6 DEF LengthInv, Col
  <2>3. ListInv'
    BY <1>1, <1>6 DEF ListInv, Col
  <2> QED  BY <1>c, <1>4, <1>5, <1>6, <2>1, <2>2, <2>3 DEF KeyInv
<1>7. CASE pc' = pc /\ fields' = Tail(fields)
  <2>1. TypeInv'
    BY <1>1, <1>2, <1>7, Kept DEF TypeInv
  <2>2. LengthInv'
    <3>1. ASSUME \A g \in changed : Col(g).len # Unbounded
          PROVE  \A i \in DOMAIN fields' : Room(fields'[i]) + Slack <= maxLen
      <4>1. \A i \in DOMAIN fields : Room(fields[i]) + Slack <= maxLen
        BY <1>1, <3>1 DEF LengthInv
      <4> QED  BY <1>2, <1>7, <4>1
    <3>2. /\ \A g : Room(g)' = Room(g)
          /\ (\A g \in changed : Col(g).len # Unbounded)' =>
                (\A g \in changed : Col(g).len # Unbounded)
      BY <1>1 DEF Room, Col
    <3> QED  BY <1>1, <1>7, <3>1, <3>2 DEF LengthInv
  <2>3. ListInv'
    <3>1. /\ idx = Len(table.cols) + 1 /\ Len(out) + Len(fields) < idx
          /\ idx \in Nat /\ Len(out) \in Nat
      <4>1. idx = Len(table.cols) + 1 /\ Len(out) + Len(fields) < idx
        BY <1>1 DEF ListInv
      <4> QED  BY <1>s, <4>1, ColumnsAre, Members
    <3>2. /\ \A i \in DOMAIN fields : fields[i] < idx /\ fields[i] \in changed
          /\ \A i, j \in DOMAIN fields : i < j => fields[i] < fields[j]
          /\ \A i \in DOMAIN out : \A j \in DOMAIN fields : out[i].field < fields[j]
          /\ \A g \in changed : g < idx /\ Col(g).type \notin Unprintable =>
                  \/ \E i \in DOMAIN fields : fields[i] = g
                  \/ \E i \in DOMAIN out : out[i].field = g
      BY <1>1 DEF ListInv
    <3>3. Len(out') + Len(fields') < idx'
      <4>1. Len(out') + Len(fields') = Len(out) + Len(Tail(fields))
        BY <1>1, <1>7
      <4> QED  BY <1>1, <1>2, <3>1, <4>1
    <3>4. \A i \in DOMAIN fields' : fields'[i] < idx' /\ fields'[i] \in changed
      BY <1>1, <1>2, <1>7, <3>2
    <3>5. ASSUME NEW i \in DOMAIN fields', NEW j \in DOMAIN fields', i < j
          PROVE  fields'[i] < fields'[j]
      <4>1. i + 1 < j + 1
        BY <1>2, <1>7, <3>5
      <4> QED  BY <1>2, <1>7, <3>2, <4>1
    <3>6. \A i \in DOMAIN out' : \A j \in DOMAIN fields' : out'[i].field < fields'[j]
      BY <1>1, <1>2, <1>7, <3>2
    <3>7. ASSUME NEW g \in changed, g < idx, Col(g).type \notin Unprintable
          PROVE  \/ \E i \in DOMAIN fields' : fields'[i] = g
                 \/ \E i \in DOMAIN out' : out'[i].field = g
      <4>1. CASE \E i \in DOMAIN out : out[i].field = g
        BY <1>1, <4>1
      <4>2. CASE \E i \in DOMAIN fields : fields[i] = g
        <5>1. PICK i \in DOMAIN fields : fields[i] = g
          BY <4>2
        <5>2. i # 1
          BY <1>2, <1>3, <3>7, <5>1
        <5>3. i - 1 \in DOMAIN fields' /\ i - 1 + 1 = i
          BY <1>2, <1>7, <5>1, <5>2
        <5> QED  BY <1>2, <1>7, <5>1, <5>3
      <4> QED  BY <3>2, <3>7, <4>1, <4>2
    <3> QED  BY <1>1, <1>7, <3>1, <3>3, <3>4, <3>5, <3>6, <3>7 DEF ListInv, Col
  <2> QED  BY <1>1, <1>c, <1>4, <1>5, <1>7, <2>1, <2>2, <2>3 DEF KeyInv
<1> QED  BY <1>1, <1>6, <1>7

LEMMA FormatDoneInv ==
    ASSUME IInv, FormatDone
    PROVE  IInv'
<1> USE DEF IInv
<1>1. /\ table' = table /\ val' = val /\ given' = given /\ changed' = changed /\ idx' = idx
      /\ op' = op /\ cond' = cond /\ maxLen' = maxLen /\ out' = out /\ pc = "format"
      /\ fields' = fields /\ fields = <<>> /\ pc' \in {"refused", "built"}
  BY DEF FormatDone, loop
<1>2. TypeInv'
  BY <1>1, Kept DEF TypeInv
<1>3. LengthInv'
  BY <1>1 DEF LengthInv, Col
<1>4. ListInv'
  BY <1>1 DEF ListInv, Col
<1>c. CondInv'
  BY <1>1, SameCondition
<1> QED  BY <1>1, <1>c, <1>2, <1>3, <1>4, SameText DEF KeyInv, AssertsOnlyKnown

LEMMA ReturnInv ==
    ASSUME IInv, Return
    PROVE  IInv'
<1> USE DEF IInv
<1>1. /\ table' = table /\ val' = val /\ given' = given /\ changed' \in {changed, {}} /\ idx' = 1
      /\ op' = "none" /\ cond' = <<>> /\ maxLen' = 0 /\ out' = <<>> /\ pc' = "edit" /\ fields' = <<>>
  BY DEF Return
<1>2. TypeInv'
  <2>1. idx' \in 1..Len(table.cols) + 1
    <3>1. Len(table.cols) \in Nat
      BY ColumnsAre
    <3> QED  BY <1>1, <3>1
  <2>2. fields' \in Seq(Cols) /\ out' \in Seq(Assignment) /\ changed' \subseteq Cols
    BY <1>1 DEF TypeInv
  <2> QED  BY <1>1, <2>1, <2>2, Kept
<1>3. LengthInv'
  BY <1>1, ConstantsAssumption DEF LengthInv
<1>4. ListInv'
  BY <1>1 DEF ListInv
<1>5. CondInv'
  BY <1>1, NoCondition
<1> QED  BY <1>1, <1>2, <1>3, <1>4, <1>5, NoText DEF KeyInv, AssertsOnlyKnown

\* The invariant is inductive, and holds in every reachable state.
THEOREM Invariance == Spec => []IInv
<1>1. IInv /\ [Next]_vars => IInv'
  <2> SUFFICES ASSUME IInv, [Next]_vars PROVE IInv'
    OBVIOUS
  <2>1. ASSUME NEW f \in Cols,
               \/ \E n \in Numbers : SetInt(f, n)
               \/ \E x \in Doubles : SetDouble(f, x)
               \/ \E t \in Texts : SetText(f, t)
        PROVE  IInv'
    <3>1. PICK v \in ValuesOf(Col(f)) : \E g \in GivenOf(Col(f)) : Assign(f, v, g)
      BY <2>1, SetterType DEF IInv
    <3>2. PICK g \in GivenOf(Col(f)) : Assign(f, v, g)
      BY <3>1
    <3> QED  BY <3>2, AssignInv
  <2>2. ASSUME NEW o \in {"update", "insert", "delete"}, Build(o) PROVE IInv'
    BY <2>2, BuildInv
  <2>3. CASE BuildCondition
    BY <2>3, BuildConditionInv
  <2>4. CASE Collect
    BY <2>4, CollectInv
  <2>5. CASE CollectDone
    BY <2>5, CollectDoneInv
  <2>6. CASE Format
    BY <2>6, FormatInv
  <2>7. CASE FormatAsserts
    BY <2>7, FormatAssertsInv
  <2>8. CASE FormatDone
    BY <2>8, FormatDoneInv
  <2>9. CASE Return
    BY <2>9, ReturnInv
  <2>10. CASE UNCHANGED vars
    <3>1. CondInv'
      BY <2>10 DEF vars, IInv, CondInv, Named, CondRoom, Col
    <3> QED
      BY <2>10, <3>1 DEF vars, IInv, TypeInv, LengthInv, ListInv, KeyInv, BufferHolds,
                         AssertsOnlyKnown, Cols, Col, Assignment, Room
  <2> QED  BY <2>1, <2>2, <2>3, <2>4, <2>5, <2>6, <2>7, <2>8, <2>9, <2>10 DEF Next
<1> QED  BY <1>1, InitInv, PTL DEF Spec

-----------------------------------------------------------------------------
(* What follows from it.                                                   *)

\* Every variable of SqlUtil has its type: no length leaves a sint32, and no
\* statement has more assignments than the record has columns.
THEOREM TypeCorrect == Spec => []TypeOK
<1>1. IInv => TypeOK
  <2> SUFFICES ASSUME IInv PROVE TypeOK
    OBVIOUS
  <2>1. /\ Len(out) \in Nat /\ \A i \in DOMAIN out : out[i] \in Assignment
        /\ Len(fields) \in Nat
    BY Members DEF IInv, TypeInv
  <2>2. Len(out) <= Len(table.cols)
    BY <2>1, ColumnsAre DEF IInv, TypeInv, ListInv
  <2>3. maxLen \in -HalfWord..HalfWord - 1
    BY ConstantsAssumption DEF IInv, LengthInv
  <2>4. \A i \in DOMAIN out : out[i].field \in Cols
    BY <2>1 DEF Assignment
  <2> QED  BY <2>2, <2>3, <2>4 DEF IInv, TypeInv, CondInv, TypeOK
<1> QED  BY <1>1, Invariance, PTL

\* The buffer that BuildOperation's first loop sizes holds every moderate value
\* that its second loop prints, and nothing of it comes behind a buffer, whatever
\* the columns, their order, the values (longer ones among them) and the sizes of the
\* buffers.
THEOREM BufferSuffices == Spec => []BufferHolds
<1>1. IInv => BufferHolds
  BY DEF IInv
<1> QED  BY <1>1, Invariance, PTL

\* An update or insert statement sets the fields that were set, each once and in
\* the order of the columns.
THEOREM StatementComplete == Spec => []AllChanged
<1>1. IInv => AllChanged
  <2> SUFFICES ASSUME IInv, pc = "built", op # "delete"
               PROVE  /\ {out[i].field : i \in DOMAIN out} =
                             {f \in changed : Col(f).type \notin Unprintable}
                      /\ \A i, j \in DOMAIN out : i < j => out[i].field < out[j].field
    BY DEF AllChanged
  <2>1. /\ \A i, j \in DOMAIN out : i < j => out[i].field < out[j].field
        /\ \A i \in DOMAIN out : out[i].field \in changed
                                 /\ Col(out[i].field).type \in Printable
        /\ fields = <<>> /\ idx = Len(table.cols) + 1
        /\ \A f \in changed : f < idx /\ Col(f).type \notin Unprintable =>
              \/ \E i \in DOMAIN fields : fields[i] = f
              \/ \E i \in DOMAIN out : out[i].field = f
    BY DEF IInv, ListInv
  <2>2. \A f \in changed : f < idx
    <3>1. changed \subseteq Cols /\ Cols = 1..Len(table.cols) /\ Len(table.cols) \in Nat
      BY ColumnsAre DEF IInv, TypeInv
    <3> QED  BY <2>1, <3>1
  <2>3. \A type \in Printable : type \notin Unprintable
    BY DEF Printable, Unprintable, Sized, FloatTypes, Textual, StringTypes, BlobTypes
  <2> QED  BY <2>1, <2>2, <2>3
<1> QED  BY <1>1, Invariance, PTL

\* No assertion in SqlUtil fails but for a TIMESTAMP or a NEWDECIMAL.
THEOREM AssertionsHold == Spec => []AssertsOnlyKnown
<1>1. IInv => AssertsOnlyKnown
  BY DEF IInv
<1> QED  BY <1>1, Invariance, PTL

-----------------------------------------------------------------------------
(* What the statement says.                                                *)

\* An assignment that is whole says the field as it is, and BuildCondition has made
\* the condition of the key as it is.
SaysInv ==
    /\ \A i \in DOMAIN out :
         out[i].beyond = 0 /\ out[i].needed <= maxLen =>
           out[i].printed = Whole(Col(out[i].field), val[out[i].field])
    /\ op \in {"update", "delete"} /\ pc \in {"collect", "format", "built", "refused"} =>
         table.key # 0 /\ cond \in Named(Col(table.key), val[table.key])

\* The field holds what its setter was given, if it can.
GivenInv ==
    \A f \in Cols :
        Fits(Col(f), given[f]) =>
            val[f] = IF Col(f).type \in IntTypes THEN given[f] \div Unit ELSE given[f]

LEMMA SaysPreserved ==
    ASSUME IInv, SaysInv, [Next]_vars
    PROVE  SaysInv'
<1>0. ASSUME UNCHANGED <<table, val, op>>
      PROVE  /\ \A f : Col(f)' = Col(f)
             /\ Named(Col(table.key), val[table.key])' = Named(Col(table.key), val[table.key])
  BY <1>0 DEF Col, Named, CondRoom
\* No text before, none after.
<1>a. ASSUME pc' = "edit" \/ op' = "insert" \/ pc' = "cond", out' = <<>>
      PROVE  SaysInv'
  BY <1>a DEF SaysInv
\* The text and the condition stay.
<1>b. ASSUME UNCHANGED <<table, val, op, cond, out>>, maxLen' = maxLen \/ out' = <<>>,
             pc' \in {"collect", "format", "built", "refused"} =>
               pc \in {"collect", "format", "built", "refused"}
      PROVE  SaysInv'
  <2>1. op \in {"update", "delete"} /\ pc' \in {"collect", "format", "built", "refused"} =>
          table.key # 0 /\ cond \in Named(Col(table.key), val[table.key])
    BY <1>b DEF SaysInv
  <2>2. \A i \in DOMAIN out :
          out[i].beyond = 0 /\ out[i].needed <= maxLen' =>
            out[i].printed = Whole(Col(out[i].field), val[out[i].field])
    BY <1>b DEF SaysInv
  <2> QED  BY <1>0, <1>b, <2>1, <2>2 DEF SaysInv
<1>1. ASSUME NEW f \in Cols,
             \/ \E n \in Numbers : SetInt(f, n)
             \/ \E x \in Doubles : SetDouble(f, x)
             \/ \E t \in Texts : SetText(f, t)
      PROVE  SaysInv'
  <2>1. pc' = "edit" /\ out' = <<>>
    BY <1>1 DEF SetInt, SetDouble, SetText, Assign, loop, IInv, ListInv
  <2> QED  BY <1>a, <2>1
<1>2. ASSUME NEW o \in {"update", "insert", "delete"}, Build(o) PROVE SaysInv'
  <2>1. o = "insert" \/ pc' = "cond"
    BY <1>2 DEF Build
  <2> QED  BY <1>2, <1>a, <2>1 DEF Build, loop, IInv, ListInv
<1>3. CASE BuildCondition
  <2>1. /\ UNCHANGED <<table, val, op>> /\ out' = <<>> /\ table.key # 0
        /\ cond' \in Named(Col(table.key), val[table.key])
    BY <1>3 DEF BuildCondition, loop, IInv, ListInv, KeyInv
  <2>2. cond' \in Named(Col(table.key), val[table.key])'
    BY <1>0, <2>1
  <2> QED  BY <2>1, <2>2 DEF SaysInv
<1>4. CASE Collect \/ CollectDone
  <2>1. out = <<>> /\ out' = out
    BY <1>4 DEF Collect, CollectDone, IInv, ListInv
  <2> QED  BY <1>4, <1>b, <2>1 DEF Collect, CollectDone
<1>5. CASE Format
  <2> DEFINE f == Head(fields)
  <2>p. PICK p \in Printed(Col(f), val[f]) :
          out' = Append(out, [field |-> f, printed |-> p,
                              needed |-> Needed(Col(f), val[f]),
                              beyond |-> Beyond(Col(f), val[f])])
    BY <1>5 DEF Format
  <2> DEFINE a == [field |-> f, printed |-> p,
                   needed |-> Needed(Col(f), val[f]), beyond |-> Beyond(Col(f), val[f])]
  <2>1. /\ UNCHANGED <<table, val, op, cond, pc, maxLen>>
        /\ pc = "format" /\ out' = Append(out, a)
        /\ Col(f).type \in Printable /\ fields # <<>>
    BY <1>5, <2>p DEF Format
  <2>2. /\ a.field = f /\ a.printed = p /\ a.needed = Needed(Col(f), val[f])
        /\ a.beyond = Beyond(Col(f), val[f])
    OBVIOUS
  <2>3. out \in Seq(Assignment) /\ a \in Assignment
    <3>1. f \in Cols /\ TypeInv /\ maxLen \in Int /\ out \in Seq(Assignment)
      BY <2>1, Shifted DEF IInv, TypeInv, LengthInv
    <3> HIDE DEF f
    <3> QED  BY <2>1, <3>1, AssignmentType
  <2> HIDE DEF f, a
  <2>4. \A i \in DOMAIN out' : \/ i \in DOMAIN out /\ out'[i] = out[i]
                               \/ out'[i] = a
    <3> DEFINE t == Append(out, a)
    <3>1. \A i \in DOMAIN t : \/ i \in DOMAIN out /\ t[i] = out[i]
                              \/ i = Len(out) + 1 /\ t[i] = a
      BY <2>3, Appended
    <3> HIDE DEF t
    <3> QED  BY <2>1, <3>1 DEF t
  <2>5. a.beyond = 0 /\ a.needed <= maxLen => a.printed = Whole(Col(a.field), val[a.field])
    BY <2>2 DEF Printed
  <2>6. \A i \in DOMAIN out' :
          out'[i].beyond = 0 /\ out'[i].needed <= maxLen =>
            out'[i].printed = Whole(Col(out'[i].field), val[out'[i].field])
    BY <2>4, <2>5 DEF SaysInv
  <2> QED  BY <1>0, <2>1, <2>6 DEF SaysInv
<1>6. CASE FormatAsserts \/ FormatDone
  BY <1>6, <1>b DEF FormatAsserts, FormatDone, loop
<1>7. CASE Return
  BY <1>7, <1>a DEF Return
<1>8. CASE UNCHANGED vars
  BY <1>8, <1>b DEF vars
<1> QED  BY <1>1, <1>2, <1>3, <1>4, <1>5, <1>6, <1>7, <1>8 DEF Next

\* What a field of numbers can hold.
LEMMA FitsType ==
    ASSUME NEW d, NEW g, Fits(d, g)
    PROVE  /\ d.type \in IntTypes => g % Unit = 0 /\ g \div Unit \in RangeOf(d)
           /\ d.type \in DoubleTypes /\ g % Unit = 0 => ToDouble(g \div Unit) = g \div Unit
<1>1. ~(d.type \in IntTypes /\ d.type \in DoubleTypes)
  BY DEF IntTypes, Sized, DoubleTypes, FloatTypes
<1> QED  BY <1>1 DEF Fits

\* What a setter leaves in its field is what it was given, if that fits.
LEMMA SetterKeeps ==
    ASSUME TypeInv, NEW f \in Cols,
           \/ \E n \in Numbers : SetInt(f, n)
           \/ \E x \in Doubles : SetDouble(f, x)
           \/ \E t \in Texts : SetText(f, t)
    PROVE  \E v, g : /\ Assign(f, v, g)
                     /\ Fits(Col(f), g) =>
                          v = IF Col(f).type \in IntTypes THEN g \div Unit ELSE g
<1> DEFINE d == Col(f)
           Keeps(v, g) ==
               Fits(d, g) => v = IF d.type \in IntTypes THEN g \div Unit ELSE g
<1>1. /\ d.type \in IntTypes \cup DoubleTypes => d.type \notin Textual
      /\ d.type \in DoubleTypes \cup Textual => d.type \notin IntTypes
  BY DEF Textual, StringTypes, BlobTypes, IntTypes, Sized, DoubleTypes, FloatTypes
<1> HIDE DEF d
<1>2. /\ Unit \in Nat \ {0} /\ Unit \in Int
      /\ Numbers \subseteq Int /\ Doubles \subseteq Int
  BY ConstantsAssumption DEF Sint64, SignedRange
<1>3. ASSUME NEW n \in Numbers, SetInt(f, n)
      PROVE  \E v, g : Assign(f, v, g) /\ Keeps(v, g)
  <2>1. n \in Int /\ n * Unit = Unit * n
    BY <1>2
  <2>2. (n * Unit) \div Unit = n
    BY <1>2, <2>1, DivExact
  <2>3. (n * Unit) % Unit = 0
    BY <1>2, <2>1, ModExact
  <2>4. CASE d.type \in IntTypes /\ Assign(f, Cast(n, d), n * Unit)
    <3>1. n \in RangeOf(d) => Cast(n, d) = n
      BY <2>1, <2>4, CastInRange
    <3>2. Fits(d, n * Unit) => n \in RangeOf(d)
      BY <2>2, <2>4, FitsType
    <3>3. Keeps(Cast(n, d), n * Unit)
      BY <2>2, <2>4, <3>1, <3>2
    <3> HIDE DEF Keeps
    <3> QED  BY <2>4, <3>3
  <2>5. CASE d.type \in DoubleTypes /\ Assign(f, ToDouble(n) * Unit, n * Unit)
    <3>1. Fits(d, n * Unit) => ToDouble(n) = n
      BY <2>2, <2>3, <2>5, FitsType
    <3>2. Keeps(ToDouble(n) * Unit, n * Unit)
      BY <1>1, <2>5, <3>1
    <3> HIDE DEF Keeps
    <3> QED  BY <2>5, <3>2
  <2> QED  BY <1>3, <2>4, <2>5 DEF SetInt, d
<1>4. ASSUME NEW x \in Doubles, SetDouble(f, x)
      PROVE  \E v, g : Assign(f, v, g) /\ Keeps(v, g)
  <2>1. x \in Int
    BY <1>2
  <2>2. ASSUME d.type \in IntTypes, NEW v \in Converted(x, RangeOf(d)), Assign(f, v, x)
        PROVE  \E w, g : Assign(f, w, g) /\ Keeps(w, g)
    <3>1. Fits(d, x) => v = x \div Unit
      <4>1. Fits(d, x) => x % Unit = 0 /\ x \div Unit \in RangeOf(d)
        BY <2>2, FitsType
      <4>2. x % Unit = 0 /\ x \div Unit \in RangeOf(d) =>
              Converted(x, RangeOf(d)) = {x \div Unit}
        BY <2>1, ConvertedType
      <4> QED  BY <2>2, <4>1, <4>2
    <3>2. Keeps(v, x)
      BY <2>2, <3>1
    <3> HIDE DEF Keeps
    <3> QED  BY <2>2, <3>2
  <2>3. CASE d.type \in DoubleTypes /\ Assign(f, x, x)
    <3>1. Keeps(x, x)
      BY <1>1, <2>3
    <3> HIDE DEF Keeps
    <3> QED  BY <2>3, <3>1
  <2> HIDE DEF Keeps
  <2> QED  BY <1>4, <2>2, <2>3 DEF SetDouble, d
<1>5. ASSUME NEW t \in Texts, SetText(f, t)
      PROVE  \E v, g : Assign(f, v, g) /\ Keeps(v, g)
  <2>1. d.type \in Textual /\ Assign(f, t, t)
    BY <1>5 DEF SetText, d
  <2>2. Keeps(t, t)
    BY <1>1, <2>1
  <2> HIDE DEF Keeps
  <2> QED  BY <2>1, <2>2
<1> QED  BY <1>3, <1>4, <1>5 DEF d

LEMMA GivenPreserved ==
    ASSUME IInv, GivenInv, [Next]_vars
    PROVE  GivenInv'
<1>1. CASE UNCHANGED <<table, val, given>>
  BY <1>1 DEF GivenInv, Cols, Col
<1>2. ASSUME NEW f \in Cols,
             \/ \E n \in Numbers : SetInt(f, n)
             \/ \E x \in Doubles : SetDouble(f, x)
             \/ \E t \in Texts : SetText(f, t)
      PROVE  GivenInv'
  <2>1. PICK v : \E g : /\ Assign(f, v, g)
                        /\ Fits(Col(f), g) =>
                             v = IF Col(f).type \in IntTypes THEN g \div Unit ELSE g
    BY <1>2, SetterKeeps DEF IInv
  <2>2. PICK g : /\ Assign(f, v, g)
                 /\ Fits(Col(f), g) =>
                      v = IF Col(f).type \in IntTypes THEN g \div Unit ELSE g
    BY <2>1
  <2>3. /\ table' = table /\ val' = [val EXCEPT ![f] = v] /\ given' = [given EXCEPT ![f] = g]
        /\ DOMAIN val = Cols /\ DOMAIN given = Cols
    BY <2>2 DEF Assign, IInv, TypeInv
  <2>4. ASSUME NEW h \in Cols, Fits(Col(h), given'[h])
        PROVE  val'[h] = IF Col(h).type \in IntTypes THEN given'[h] \div Unit ELSE given'[h]
    <3>1. CASE h = f
      <4>1. val'[f] = v /\ given'[f] = g
        BY <2>3
      <4> QED  BY <2>2, <2>4, <3>1, <4>1
    <3>2. CASE h # f
      <4>1. val'[h] = val[h] /\ given'[h] = given[h]
        BY <2>3, <3>2
      <4> QED  BY <2>4, <4>1 DEF GivenInv
    <3> QED  BY <3>1, <3>2
  <2> QED  BY <2>3, <2>4 DEF GivenInv, Cols, Col
<1> QED  BY <1>1, <1>2 DEF Next, Build, BuildCondition, Collect, CollectDone, Format,
            FormatAsserts, FormatDone, Return, vars

\* A statement says the fields as they are, which is as their setters were given them:
\* no field changes while a statement is built.
THEOREM Says == Spec => [](IInv /\ SaysInv /\ GivenInv)
<1>1. Init => SaysInv
  BY DEF Init, SaysInv
<1>2. Init => GivenInv
  <2> SUFFICES ASSUME Init, NEW f \in Cols, Col(f).type \in IntTypes
               PROVE  val[f] = given[f] \div Unit
    BY DEF Init, GivenInv
  <2>1. Col(f).type \notin Textual
    BY DEF Textual, StringTypes, BlobTypes, IntTypes, Sized
  <2>2. val[f] = 0 /\ given[f] = 0
    BY <2>1 DEF Init, Default, Cols, Col
  <2>3. Unit \in Nat \ {0}
    BY ConstantsAssumption
  <2>4. 0 \div Unit = 0
    BY <2>3
  <2> QED  BY <2>2, <2>4
<1> QED  BY <1>1, <1>2, SaysPreserved, GivenPreserved, Invariance, PTL DEF Spec

\* GetInt, and the types of "%d", "%ld", "%lu" and "%lld", keep every integer.
LEMMA IntegerPrinted ==
    ASSUME NEW d, d.type \in Sized, NEW v \in RangeOf(d)
    PROVE  PrintedInt(d, v) = v
<1> DEFINE w == Width[d.type]  ll == Width["LONGLONG"]  l == Width["LONG"]
           n == ToSigned(v, ll)
<1>1. w \in Nat \ {0} /\ ll \in Nat \ {0} /\ l \in Nat \ {0} /\ Bits(d.type) = w
  BY WidthAssumption DEF Sized, Bits
<1>2. RangeOf(d) = IF d.unsigned THEN UnsignedRange(w) ELSE SignedRange(w)
  BY <1>1 DEF RangeOf
<1>3. LongBits \in Nat \ {0} /\ l \in 1..LongBits
  BY <1>1, ConstantsAssumption
<1>4. d.type # "LONGLONG" => w < ll /\ w \in 1..ll /\ w <= l /\ w \in 1..l /\ w \in 1..LongBits
  BY <1>1, <1>3, WidthAssumption DEF Sized
<1>5. d.type = "LONGLONG" => w = ll
  OBVIOUS
<1> HIDE DEF w, ll, l
<1>6. CASE d.unsigned /\ d.type = "LONGLONG"
  <2>1. PrintedInt(d, v) = ToUnsigned(n, ll)
    BY <1>6 DEF PrintedInt, ll
  <2> QED  BY <1>1, <1>2, <1>5, <1>6, <2>1, UnsignedSurvives
<1>7. CASE d.unsigned /\ d.type # "LONGLONG"
  <2>1. PrintedInt(d, v) = ToUnsigned(n, LongBits)
    BY <1>7 DEF PrintedInt, ll
  <2>2. v \in SignedRange(ll)
    BY <1>1, <1>2, <1>4, <1>7, RangesGrow
  <2>3. n = v
    BY <1>1, <2>2, SignedKeeps
  <2>4. v \in UnsignedRange(LongBits)
    BY <1>1, <1>2, <1>3, <1>4, <1>7, RangesGrow
  <2> QED  BY <1>3, <2>1, <2>3, <2>4, UnsignedKeeps
<1>8. CASE ~d.unsigned
  <2>1. v \in SignedRange(w) /\ w \in 1..ll
    BY <1>1, <1>2, <1>4, <1>5, <1>8
  <2>2. v \in SignedRange(ll)
    BY <1>1, <2>1, RangesGrow
  <2>3. n = v
    BY <1>1, <2>2, SignedKeeps
  <2> DEFINE b == IF d.type = "LONGLONG" THEN ll ELSE IF d.type = "LONG" THEN LongBits ELSE l
  <2>4. PrintedInt(d, v) = ToSigned(n, b)
    BY <1>8 DEF PrintedInt, ll, l
  <2>5. b \in Nat \ {0} /\ w \in 1..b
    BY <1>1, <1>3, <1>4, <2>1
  <2> HIDE DEF b
  <2>6. v \in SignedRange(b)
    BY <2>1, <2>5, RangesGrow
  <2> QED  BY <2>3, <2>4, <2>5, <2>6, SignedKeeps
<1> QED  BY <1>6, <1>7, <1>8

\* "%f" rounds to six decimals.
LEMMA DecimalsPrinted ==
    ASSUME NEW t \in Int
    PROVE  10 * ((t + 5) \div 10) - t \in -5..5
<1> DEFINE q == (t + 5) \div 10  r == (t + 5) % 10
<1>1. q \in Int /\ r \in 0..9 /\ t + 5 = 10 * q + r
  OBVIOUS
<1> HIDE DEF q, r
<1>2. 10 * q - t \in -5..5
  BY <1>1
<1> QED  BY <1>2 DEF q

\* An assignment says what the program gave the setter, and it is read back, for
\* every width of the types, every buffer and every number or text that fits its field
\* and is moderate: the setter's cast, GetInt and BuildFormatSql's formats lose
\* nothing of an integer, "%f" half a millionth, and the buffer cuts nothing off.
THEOREM StatementTrue == Spec => []SavedIsSet
<1>1. ASSUME IInv, SaysInv, GivenInv PROVE SavedIsSet
  <2> SUFFICES ASSUME \A f \in changed : Col(f).len # Unbounded,
                      \A i \in DOMAIN out : out[i].beyond = 0,
                      NEW i \in DOMAIN out, NEW f, f = out[i].field,
                      NEW p, p = out[i].printed,
                      NEW g, g = given[f], NEW n, n = g \div Unit,
                      Fits(Col(f), g), Moderate(Col(f), val[f])
               PROVE  CASE Col(f).type \in Sized ->
                             /\ p = <<n>>
                             /\ n < 2^(Width["LONGLONG"] - 1) => Cast(Atoll(n), Col(f)) = n
                        [] Col(f).type \in FloatTypes -> \E e \in -5..5 : p = <<g + e>>
                        [] OTHER -> p = <<g>>
    BY DEF SavedIsSet
  <2>1. TypeInv /\ f \in Cols
    BY <1>1 DEF IInv, TypeInv, ListInv
  <2>2. p = Whole(Col(f), val[f])
    <3>1. out[i].needed <= maxLen /\ out[i].beyond = 0
      BY <1>1 DEF IInv, BufferHolds
    <3> QED  BY <1>1, <3>1 DEF SaysInv
  <2>3. val[f] = IF Col(f).type \in IntTypes THEN n ELSE g
    BY <1>1, <2>1 DEF GivenInv
  <2> DEFINE d == Col(f)  v == val[f]
  <2>4. CASE d.type \in Sized
    <3>1. d.type \in IntTypes /\ d.type \notin FloatTypes
      BY <2>4 DEF IntTypes, Sized, FloatTypes
    <3>2. v \in RangeOf(d) /\ v = n
      BY <2>1, <2>3, <3>1, ValueType
    <3>3. p = <<PrintedInt(d, v)>>
      BY <2>2, <2>4 DEF Whole
    <3> HIDE DEF d, v
    <3>4. p = <<n>>
      BY <2>4, <3>2, <3>3, IntegerPrinted
    <3>5. n < 2^(Width["LONGLONG"] - 1) => Cast(Atoll(n), d) = n
      BY <3>1, <3>2, DigitsReadBack
    <3> QED  BY <2>4, <3>1, <3>4, <3>5 DEF d, v
  <2>5. CASE d.type \in FloatTypes
    <3>1. d.type \notin Sized /\ d.type \notin IntTypes
      BY <2>5 DEF Sized, FloatTypes, IntTypes
    <3>2. g \in Int /\ v = g
      BY <2>1, <2>3, <2>5, <3>1, ValueType DEF DoubleTypes
    <3>3. p = <<10 * ((g + 5) \div 10)>>
      BY <2>2, <2>5, <3>1, <3>2 DEF Whole, Rounded
    <3> DEFINE r == 10 * ((g + 5) \div 10)
    <3>4. r \in Int /\ r - g \in -5..5
      BY <3>2, DecimalsPrinted
    <3> HIDE DEF r
    <3>5. g + (r - g) = r
      BY <3>2, <3>4
    <3>6. \E e \in -5..5 : p = <<g + e>>
      BY <3>3, <3>4, <3>5 DEF r
    <3> QED  BY <2>5, <3>1, <3>6
  <2>6. CASE d.type \notin Sized \cup FloatTypes
    <3>1. d.type \in Textual
      BY <1>1, <2>6 DEF IInv, ListInv, Printable
    <3>2. d.type \notin IntTypes
      BY <3>1 DEF Textual, StringTypes, BlobTypes, IntTypes, Sized
    <3>3. p = <<g>>
      BY <2>2, <2>3, <2>6, <3>2 DEF Whole
    <3> QED  BY <2>6, <3>3
  <2> QED  BY <2>4, <2>5, <2>6
<1> QED  BY <1>1, Says, PTL

\* The statement of an update or delete is about the record's own row, for every
\* table and key: GetInt's sint64 and BuildCondition's two buffers keep the key, but
\* for the keys the property excepts.
THEOREM ConditionTrue == Spec => []ConditionNamesKey
<1>1. ASSUME IInv, SaysInv PROVE ConditionNamesKey
  <2> DEFINE f == table.key  d == Col(f)  v == val[f]
  <2> SUFFICES ASSUME op \in {"update", "delete"},
                      pc \in {"collect", "format", "built", "refused"}
               PROVE  CASE d.type \in Sized ->
                             v < 2^(Width["LONGLONG"] - 1) => cond = <<v>>
                        [] d.type \in FloatTypes ->
                             (v % Unit = 0 /\ v \div Unit \in Sint64) =>
                               cond = <<v \div Unit>>
                        [] d.type \in Textual ->
                             (v.escapes = 0 /\ v.size + 2 * NameMax + 36 <= CondSize) =>
                               cond = <<v>>
                        [] OTHER -> TRUE
    BY DEF ConditionNamesKey
  <2>1. f # 0 /\ cond \in Named(d, v)
    BY <1>1 DEF SaysInv
  <2>2. TypeInv /\ f \in Cols
    BY <1>1, <2>1, ColumnsAre DEF IInv
  <2>3. CASE d.type \in Sized
    <3>1. d.type \in IntTypes /\ d.type \notin FloatTypes /\ IS_FIELD_NUM(d.type)
      BY <2>3 DEF IntTypes, Sized, FloatTypes, IS_FIELD_NUM
    <3>2. v \in RangeOf(d) /\ v \in Int
      BY <2>2, <3>1, ValueType
    <3>3. cond = <<ToSigned(v, Width["LONGLONG"])>>
      BY <2>1, <3>1 DEF Named
    <3>4. Width["LONGLONG"] \in Nat \ {0}
      BY <3>1, BitsType
    <3> HIDE DEF d, v
    <3>5. v < 2^(Width["LONGLONG"] - 1) => ToSigned(v, Width["LONGLONG"]) = v
      BY <3>1, <3>2, <3>4, DigitsReadBack, SignedKeeps DEF Sint64
    <3> QED  BY <2>3, <3>1, <3>3, <3>5 DEF Textual, StringTypes, BlobTypes, Sized
  <2>4. CASE d.type \in FloatTypes
    <3>1. d.type \notin Sized /\ d.type \notin Textual
      BY <2>4 DEF Sized, FloatTypes, Textual, StringTypes, BlobTypes
    <3>2. v \in Int
      BY <2>2, <2>4, ValueType DEF DoubleTypes
    <3>3. PICK n \in Converted(v, Sint64) : cond = <<n>>
      BY <2>1, <2>4 DEF Named
    <3>4. v % Unit = 0 /\ v \div Unit \in Sint64 => Converted(v, Sint64) = {v \div Unit}
      BY <3>2, ConvertedType
    <3> HIDE DEF d, v
    <3>5. v % Unit = 0 /\ v \div Unit \in Sint64 => cond = <<v \div Unit>>
      BY <3>3, <3>4
    <3> QED  BY <2>4, <3>1, <3>5
  <2>5. CASE d.type \in Textual
    <3>1. d.type \notin Sized /\ d.type \notin FloatTypes /\ ~IS_FIELD_NUM(d.type)
      BY <2>5 DEF Sized, FloatTypes, Textual, StringTypes, BlobTypes, IS_FIELD_NUM
    <3>2. v.size \in Nat /\ d.name \in 0..NameMax /\ table.name \in 0..NameMax
      BY <2>2, <2>5, ColumnType, ValueType, ConstantsAssumption DEF TypeInv
    <3>3. v.size + 2 * NameMax + 36 <= CondSize => d.name + v.size + 5 <= CondRoom
      <4> DEFINE s == v.size  n == d.name  t == table.name
      <4>1. CondRoom = CondSize - 2 - (IF op = "delete" THEN t + 29 ELSE 0)
        BY DEF CondRoom
      <4>2. CondSize \in Nat /\ NameMax \in Nat
        BY ConstantsAssumption
      <4> HIDE DEF s, n, t
      <4>3. s \in Nat /\ n \in 0..NameMax /\ t \in 0..NameMax
        BY <3>2 DEF s, n, t
      <4>4. s + 2 * NameMax + 36 <= CondSize => n + s + 5 <= CondRoom
        BY <4>1, <4>2, <4>3
      <4> QED  BY <4>4 DEF s, n
    <3>4. v.escapes = 0 /\ d.name + v.size + 5 <= CondRoom => cond = <<v>>
      BY <2>1, <2>5, <3>1 DEF Named
    <3> QED  BY <2>5, <3>1, <3>3, <3>4
  <2>6. CASE d.type \notin Sized \cup FloatTypes \cup Textual
    BY <2>6
  <2> QED  BY <2>3, <2>4, <2>5, <2>6
<1> QED  BY <1>1, Says, PTL
=============================================================================
