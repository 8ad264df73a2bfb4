------------------------- MODULE MysqlConnectProofs -------------------------
(***************************************************************************)
(* The connections of a database, for any number of them, any statements   *)
(* and any results: the field infos are shared and owned by the cache, and *)
(* a record says what the server sent.                                     *)
(*                                                                         *)
(* The invariant ties three things together.  A connection between         *)
(* LockFields and CreateField is at a row and a column of its result       *)
(* (PlaceInv), and what it has found is what the cache holds, or holds     *)
(* next (CacheInv, LockInv: the lock keeps the others from inserting).  An *)
(* info of a column that nobody has altered is the column's definition,    *)
(* whichever connection made it (SettledInv), and so the conversion it     *)
(* selects is the one the text asks for (CellInv).                         *)
(***************************************************************************)
EXTENDS MysqlConnect, FieldsProofs, SequenceTheorems

-----------------------------------------------------------------------------
(* The inductive invariant.                                                *)

Answers == Texts \cup {Null}
Value == [num : Int, text : Answers, extra : Int]
Field == [info : Infos, val : Value]

\* What a connection makes records of, once it has a result.
IsJob(j) ==
    /\ j.cols \in Selections
    /\ DOMAIN j.meta = DOMAIN j.cols
    /\ \A i \in DOMAIN j.cols : j.meta[i] \in Definitions[j.cols[i]]
    /\ j.rows \in Seq([DOMAIN j.cols -> Answers])
    /\ \A r \in DOMAIN j.rows : \A i \in DOMAIN j.cols :
         j.rows[r][i] \in Holds[j.meta[i]] \cup {Null}

TypeInv ==
    /\ def \in [Columns -> UNION Range(Definitions)]
    /\ \A col \in Columns : def[col] \in Definitions[col]
    /\ status \in [Conns -> {"closed", "ready", "result"}]
    /\ stored \in [Conns -> BOOLEAN]
    /\ pc \in [Conns -> {"idle", "lock", "find", "insert", "create", "returned"}]
    /\ DOMAIN job = Conns /\ \A c \in Conns : job[c] = NoJob \/ IsJob(job[c])
    /\ recs \in [Conns -> Seq(Seq(Field))]
    /\ found \in [Conns -> Infos \cup {NoInfo}]
    /\ DOMAIN info \subseteq Infos /\ DOMAIN cache \subseteq Range(KeyOf)
    /\ lock \subseteq Conns /\ altered \subseteq Columns /\ misused \subseteq Conns

Busy == {"lock", "find", "insert", "create"}

\* _fieldLock is held by the thread that is inside QueryDBFieldInfo.
LockInv ==
    /\ \A a, b \in lock : a = b
    /\ \A c \in Conns : c \in lock <=> pc[c] \in {"find", "insert"}

\* A busy connection is at a field of a row, and the records before it are complete.
PlaceOf(c) ==
    /\ pc[c] = "idle" => job[c] = NoJob /\ recs[c] = <<>>
    /\ pc[c] # "idle" => IsJob(job[c])
    /\ pc[c] = "returned" => Len(recs[c]) = Len(job[c].rows)
    /\ pc[c] \in Busy => RowIdx(c) \in DOMAIN job[c].rows
                         /\ FieldIdx(c) \in DOMAIN job[c].cols
    /\ \A r \in DOMAIN recs[c] :
         /\ r \in DOMAIN job[c].rows /\ Len(recs[c][r]) <= Len(job[c].cols)
         /\ r < RowIdx(c) \/ pc[c] = "returned" => Len(recs[c][r]) = Len(job[c].cols)
PlaceInv == \A c \in Conns : PlaceOf(c)

\* The cache maps a key to an info of that key, and the only infos out of it are
\* those about to be put there.
CacheInv ==
    /\ \A k \in DOMAIN cache : cache[k] \in DOMAIN info /\ cache[k][1] = k
    /\ \A i \in (DOMAIN info) \ Range(cache) : \E c \in Conns : pc[c] = "insert" /\ found[c] = i

\* What a connection has found, and what its fields refer to, is in the cache or
\* about to be put there.
FoundOf(c) ==
    /\ pc[c] = "insert" => /\ NextKey(c) \notin DOMAIN cache
                           /\ found[c] \in DOMAIN info /\ found[c][1] = NextKey(c)
    /\ pc[c] = "create" => NextKey(c) \in DOMAIN cache /\ found[c] = cache[NextKey(c)]
    /\ \A r \in DOMAIN recs[c] : \A i \in DOMAIN recs[c][r] :
         /\ KeyOf[job[c].cols[i]] \in DOMAIN cache
         /\ cache[KeyOf[job[c].cols[i]]] = recs[c][r][i].info
FoundInv == \A c \in Conns : FoundOf(c)

\* All connections are opened together and closed together, between calls and with
\* nothing in the cache; a result is in memory while records are made of it.
StatusInv ==
    /\ (\A c \in Conns : status[c] = "closed") \/ (\A c \in Conns : status[c] # "closed")
    /\ (\A c \in Conns : status[c] = "closed") => DOMAIN cache = {}
    /\ \A c \in Conns :
         /\ pc[c] # "idle" => status[c] = "ready"
         /\ stored[c] <=> pc[c] \in Busy
         /\ status[c] = "result" => c \in misused

\* What is known of a settled column, in an info or in a result, is its definition.
SettledInv ==
    \A col \in Settled :
      /\ \A i \in DOMAIN info : i[1] = KeyOf[col] => info[i] = def[col]
      /\ \A c \in Conns : \A i \in DOMAIN job[c].cols :
           job[c].cols[i] = col => job[c].meta[i] = def[col]

\* Every field of a settled column stands for its text.
CellOf(c) ==
    \A r \in DOMAIN recs[c] : \A i \in DOMAIN recs[c][r] :
      job[c].cols[i] \in Settled =>
        StandsFor(recs[c][r][i].val, job[c].meta[i], job[c].rows[r][i])
CellInv == \A c \in Conns : CellOf(c)

IInv ==
    TypeInv /\ LockInv /\ PlaceInv /\ CacheInv /\ FoundInv /\ StatusInv /\ SettledInv /\ CellInv

-----------------------------------------------------------------------------
(* The columns' lengths, and what a field makes of a text.                 *)

\* A finite set of numbers has a largest one.
LEMMA LargestIsThere ==
    ASSUME NEW S, S \subseteq Nat, S # {}, IsFiniteSet(S)
    PROVE  Max(S) \in S /\ \A n \in S : n <= Max(S)
<1> DEFINE above(n) == {m \in S : m > n}
           T == {above(n) : n \in S}
<1>1. T \subseteq SUBSET S /\ T # {}
  OBVIOUS
<1>2. PICK U \in T : \A V \in T : <<V, U>> \notin StrictSubsetOrdering(S)
  <2> HIDE DEF T
  <2>1. FiniteSubsetsOf(S) = SUBSET S
    BY FS_FiniteSubsetsOfFinite
  <2>2. IsWellFoundedOn(StrictSubsetOrdering(S), SUBSET S)
    BY <2>1, FS_StrictSubsetOrderingWellFounded
  <2> QED  BY <1>1, <2>2, WFMin
<1>3. PICK n \in S : U = above(n)
  BY <1>2
<1>4. \A m \in S : n >= m
  <2>1. SUFFICES ASSUME NEW m \in S, m > n PROVE FALSE
    BY <2>1
  <2>2. above(m) \subseteq above(n) /\ m \in above(n) /\ m \notin above(m)
    <3>1. m \in Nat /\ n \in Nat /\ \A k \in S : k \in Nat
      OBVIOUS
    <3>2. \A k \in S : k > m => k > n
      BY <2>1, <3>1
    <3>3. ~(m > m)
      BY <3>1
    <3> QED  BY <2>1, <3>2, <3>3
  <2>3. above(m) \in T /\ above(n) \in T /\ above(m) # above(n)
    BY <2>2
  <2>4. <<above(m), above(n)>> \in StrictSubsetOrdering(S)
    <3> DEFINE A == above(m)  B == above(n)
    <3>1. A \in SUBSET S /\ B \in SUBSET S /\ A \subseteq B /\ A # B
      BY <2>2, <2>3
    <3> HIDE DEF A, B
    <3>2. <<A, B>> \in StrictSubsetOrdering(S)
      BY <3>1 DEF StrictSubsetOrdering
    <3> QED  BY <3>2 DEF A, B
  <2> QED  BY <1>2, <1>3, <2>3, <2>4
<1>5. Max(S) \in S /\ \A m \in S : Max(S) >= m
  BY <1>4 DEF Max
<1> QED  BY <1>5

\* No text of a column is longer than the length its fields are given.
LEMMA ColumnIsLongest ==
    ASSUME NEW c, IsJob(job[c]), FieldIdx(c) \in DOMAIN job[c].cols,
           NEW r \in DOMAIN job[c].rows
    PROVE  /\ job[c].rows[r][FieldIdx(c)] \in Answers
           /\ LengthOf[job[c].rows[r][FieldIdx(c)]] \in Nat
           /\ ColLength(c) \in Nat
           /\ LengthOf[job[c].rows[r][FieldIdx(c)]] <= ColLength(c)
<1> DEFINE i == FieldIdx(c)  rows == job[c].rows
           length == [q \in DOMAIN rows |-> LengthOf[rows[q][i]]]
           S == {LengthOf[rows[q][i]] : q \in DOMAIN rows}
<1>1. rows \in Seq([DOMAIN job[c].cols -> Answers])
  BY DEF IsJob
<1>2. DOMAIN rows = 1..Len(rows) /\ Len(rows) \in Nat
      /\ \A q \in DOMAIN rows : rows[q] \in [DOMAIN job[c].cols -> Answers]
  <2> HIDE DEF rows
  <2> QED  BY <1>1, ElementOfSeq, LenProperties
<1>3. \A q \in DOMAIN rows : rows[q][i] \in Answers /\ LengthOf[rows[q][i]] \in Nat
  <2> HIDE DEF rows, i
  <2>1. \A text \in Answers : LengthOf[text] \in Nat
    BY ConstantsAssumption DEF Answers
  <2>2. i \in DOMAIN job[c].cols
    BY DEF i
  <2> QED  BY <1>2, <2>1, <2>2
<1>4. IsFiniteSet(S)
  <2>1. IsFiniteSet(DOMAIN rows)
    BY <1>2, FS_Interval
  <2>2. length \in Surjection(DOMAIN rows, S)
    <3> HIDE DEF rows, i
    <3> QED  BY DEF Surjection
  <2> HIDE DEF length, rows, S
  <2> QED  BY <2>1, <2>2, FS_Surjection
<1>5. S \subseteq Nat /\ LengthOf[rows[r][i]] \in S
  BY <1>3
<1>6. ColLength(c) = Max(S)
  BY DEF ColLength
<1> HIDE DEF S, i, rows
<1>7. Max(S) \in S /\ \A n \in S : n <= Max(S)
  BY <1>4, <1>5, LargestIsThere
<1>8. r \in DOMAIN rows
  BY DEF rows
<1> QED  BY <1>3, <1>5, <1>6, <1>7, <1>8 DEF i, rows

\* A NULL reads as an empty text does.
LEMMA ReadType ==
    ASSUME NEW text \in Answers
    PROVE  /\ Read(text) \in Texts /\ LeadingInt[Read(text)] \in Int
           /\ text = Null => LeadingInt[Read(text)] = 0
           /\ text # Null => LeadingInt[Read(text)] = LeadingInt[text]
           /\ LengthOf[text] \in Nat
BY ConstantsAssumption DEF Answers, Read

\* SetValue makes a field's value, which stands for a text that the column may hold.
LEMMA SetValueStands ==
    ASSUME NEW col \in Columns, NEW d \in Definitions[col],
           NEW text \in Holds[d] \cup {Null}, NEW len \in Nat,
           LengthOf[text] <= len
    PROVE  StandsFor(SetValue(d, text, len), d, text)
<1>1. text \in Answers
  BY ConstantsAssumption DEF Answers
<1> DEFINE n == LeadingInt[Read(text)]
<1>2. n \in Int /\ (n \in Sint64 => Atoll(n) = n)
  BY <1>1, ReadType, AtollInRange
<1>3. d.type \in IntTypes \cup {"NEWDECIMAL"} =>
        ~(d.type \in IntTypes /\ d.type = "NEWDECIMAL")
  BY DEF IntTypes, Sized
<1>4. CASE d.type \in IntTypes
  <2>1. n \in RangeOf(d)
    <3>1. CASE text = Null
      BY <1>1, <1>4, <3>1, ReadType, ZeroInRange
    <3>2. CASE text # Null
      BY <1>1, <1>4, <3>2, ReadType, HoldsAssumption
    <3> QED  BY <3>1, <3>2
  <2>2. SetValue(d, text, len).num = Cast(Atoll(n), d)
    BY <1>4 DEF SetValue
  <2> HIDE DEF n
  <2>3. Cast(n, d) = n
    BY <1>2, <1>4, <2>1, CastInRange
  <2> QED  BY <1>2, <1>4, <2>2, <2>3 DEF StandsFor, n
<1>5. CASE d.type = "NEWDECIMAL"
  <2>1. SetValue(d, text, len).num = ToDouble(Atoll(n))
    BY <1>3, <1>5 DEF SetValue
  <2> HIDE DEF n
  <2>2. n \in Sint64 /\ n \in -(2^Mantissa)..2^Mantissa => ToDouble(Atoll(n)) = n
    BY <1>2, ToDoubleType
  <2> QED  BY <1>3, <1>5, <2>1, <2>2 DEF StandsFor, n
<1>6. CASE d.type \notin IntTypes \cup {"NEWDECIMAL"}
  <2>1. SetValue(d, text, len).text = Read(text)
    BY <1>6 DEF SetValue
  <2>2. SetValue(d, text, len).extra >= 0
    <3>1. len - LengthOf[text] >= 0
      BY <1>1, ReadType
    <3> QED  BY <1>6, <3>1 DEF SetValue
  <2> QED  BY <1>6, <2>1, <2>2 DEF StandsFor
<1> QED  BY <1>4, <1>5, <1>6

\* Its parts are of their types, whatever the info and the text.
LEMMA SetValueType ==
    ASSUME NEW d, NEW text \in Answers, NEW len \in Nat
    PROVE  SetValue(d, text, len) \in Value
<1> DEFINE n == Atoll(LeadingInt[Read(text)])
<1>1. /\ Read(text) \in Answers /\ Empty \in Answers
      /\ LeadingInt[Read(text)] \in Int /\ LengthOf[text] \in Nat
  BY ReadType, ConstantsAssumption DEF Answers
<1>2. n \in Int
  <2>1. Sint64 \subseteq Int
    BY SignedInRange, WidthAssumption, 0 \in Int DEF Sized, Sint64
  <2> QED  BY <1>1, <2>1, AtollInRange
<1> DEFINE c == Cast(n, d)  t == ToDouble(n)
<1>3. /\ d.type \in IntTypes => c \in Int
      /\ t \in Int
  BY <1>2, CastInRange, ToDoubleType
<1>4. len - LengthOf[text] \in Int
  BY <1>1
<1>5. SetValue(d, text, len) =
        IF d.type \in IntTypes THEN [num |-> c, text |-> Empty, extra |-> 0]
        ELSE IF d.type = "NEWDECIMAL" THEN [num |-> t, text |-> Empty, extra |-> 0]
        ELSE [num |-> 0, text |-> Read(text),
              extra |-> IF d.type \in FloatTypes \/ text = Null THEN 0
                        ELSE len - LengthOf[text]]
  BY DEF SetValue
<1> HIDE DEF c, t, n
<1> QED  BY <1>1, <1>3, <1>4, <1>5 DEF Value

-----------------------------------------------------------------------------
(* Steps.                                                                  *)

\* Query and MakeDefRecord: a result of the columns as they are now.
StartOf(c) ==
    \E cols \in Selections : \E rows :
      /\ IsJob([cols |-> cols, meta |-> [i \in DOMAIN cols |-> def[cols[i]]], rows |-> rows])
      /\ Start(c, cols, rows)

\* CreateFails and Discard.
End(c) ==
    /\ pc[c] \in {"create", "returned"} /\ Release(c)
    /\ stored' = [stored EXCEPT ![c] = FALSE]

LEMMA SelectionType ==
    ASSUME NEW cols \in Selections
    PROVE  /\ cols \in Seq(Columns) /\ cols # <<>>
           /\ DOMAIN cols = 1..Len(cols) /\ Len(cols) \in Nat \ {0}
           /\ \A i \in DOMAIN cols : cols[i] \in Columns
<1>1. cols \in Seq(Columns) /\ cols # <<>>
  BY ConstantsAssumption
<1>2. DOMAIN cols = 1..Len(cols) /\ Len(cols) \in Nat \ {0}
  BY <1>1, EmptySeq, LenProperties
<1> QED  BY <1>1, <1>2, ElementOfSeq

LEMMA QueryStarts ==
    ASSUME TypeInv, NEW c \in Conns, Query(c) \/ MakeDefRecord(c)
    PROVE  StartOf(c)
<1> DEFINE Meta(cols) == [i \in DOMAIN cols |-> def[cols[i]]]
           JobOf(cols, rows) == [cols |-> cols, meta |-> Meta(cols), rows |-> rows]
<1>1. ASSUME NEW cols \in Selections, NEW n \in Nat, NEW rows \in [1..n -> [DOMAIN cols -> Answers]],
             \A r \in 1..n : \A i \in DOMAIN cols : rows[r][i] \in Holds[def[cols[i]]] \cup {Null}
      PROVE  IsJob(JobOf(cols, rows))
  <2>1. \A i \in DOMAIN cols : cols[i] \in Columns
    BY SelectionType
  <2>2. \A i \in DOMAIN cols : Meta(cols)[i] = def[cols[i]] /\ def[cols[i]] \in Definitions[cols[i]]
    BY <2>1 DEF TypeInv
  <2>3. rows \in Seq([DOMAIN cols -> Answers]) /\ DOMAIN rows = 1..n
    OBVIOUS
  <2>4. /\ JobOf(cols, rows).cols = cols /\ JobOf(cols, rows).meta = Meta(cols)
        /\ JobOf(cols, rows).rows = rows /\ DOMAIN Meta(cols) = DOMAIN cols
    OBVIOUS
  <2> HIDE DEF JobOf, Meta
  <2> QED  BY <1>1, <2>2, <2>3, <2>4 DEF IsJob
<1>2. CASE Query(c)
  <2>0. PICK cols \in Selections : \E rows \in ResultsOf(cols) : Start(c, cols, rows)
    BY <1>2 DEF Query
  <2>1. PICK rows \in ResultsOf(cols) : Start(c, cols, rows)
    BY <2>0
  <2>2. PICK n \in 0..MaxRows : rows \in [1..n -> RowsOf(cols)]
    BY <2>1 DEF ResultsOf
  <2>3. n \in Nat
    BY ConstantsAssumption
  <2>4. ASSUME NEW row \in RowsOf(cols)
        PROVE  /\ row \in [DOMAIN cols -> Answers]
               /\ \A i \in DOMAIN cols : row[i] \in Holds[def[cols[i]]]
    <3>1. DOMAIN row = DOMAIN cols /\ \A i \in DOMAIN cols : row[i] \in Holds[def[cols[i]]]
      BY DEF RowsOf
    <3>2. \A i \in DOMAIN cols : Holds[def[cols[i]]] \subseteq Answers
      BY SelectionType, ConstantsAssumption DEF TypeInv, Answers
    <3>3. row = [i \in DOMAIN cols |-> row[i]]
      BY DEF RowsOf
    <3> QED  BY <3>1, <3>2, <3>3
  <2>5. rows \in [1..n -> [DOMAIN cols -> Answers]]
    BY <2>2, <2>4
  <2>6. \A r \in 1..n : \A i \in DOMAIN cols : rows[r][i] \in Holds[def[cols[i]]] \cup {Null}
    BY <2>2, <2>4
  <2>7. IsJob(JobOf(cols, rows))
    BY <1>1, <2>3, <2>5, <2>6
  <2> QED  BY <2>1, <2>7 DEF StartOf
<1>3. CASE MakeDefRecord(c)
  <2>1. PICK cols \in Selections : Start(c, cols, <<[i \in DOMAIN cols |-> Null]>>)
    BY <1>3 DEF MakeDefRecord
  <2> DEFINE row == [i \in DOMAIN cols |-> Null]  rows == <<row>>
  <2>2. row \in [DOMAIN cols -> Answers] /\ \A i \in DOMAIN cols : row[i] = Null
    BY DEF Answers
  <2> HIDE DEF row
  <2>3. rows \in [1..1 -> [DOMAIN cols -> Answers]] /\ \A r \in 1..1 : rows[r] = row
    BY <2>2
  <2> HIDE DEF rows
  <2>4. IsJob(JobOf(cols, rows))
    BY <1>1, <2>2, <2>3, 1 \in Nat
  <2> QED  BY <2>1, <2>4 DEF StartOf, rows, row
<1> QED  BY <1>2, <1>3

LEMMA StepCases ==
    ASSUME TypeInv, StatusInv, [Next]_vars
    PROVE  \/ UNCHANGED vars \/ Connect \/ Disconnect
           \/ \E col \in Columns : Alter(col)
           \/ \E c \in Conns :
                \/ QuerySql(c) \/ StartOf(c) \/ LockFields(c) \/ FindInfo(c)
                \/ NewInfo(c) \/ InsertInfo(c) \/ CreateField(c) \/ End(c)
<1>1. ASSUME NEW c \in Conns, CreateFails(c) PROVE End(c)
  BY <1>1 DEF CreateFails, End
<1>2. ASSUME NEW c \in Conns, Discard(c) PROVE End(c)
  <2>1. stored[c] = FALSE /\ stored \in [Conns -> BOOLEAN]
    BY <1>2 DEF Discard, StatusInv, TypeInv, Busy
  <2>2. stored' = [stored EXCEPT ![c] = FALSE]
    BY <1>2, <2>1 DEF Discard
  <2> QED  BY <1>2, <2>2 DEF Discard, End
<1>3. ASSUME NEW c \in Conns, NoResult(c) PROVE UNCHANGED vars
  BY <1>3 DEF NoResult
<1> QED  BY <1>1, <1>2, <1>3, QueryStarts DEF Next

\* The next field of a busy connection.
LEMMA AtField ==
    ASSUME TypeInv, PlaceInv, NEW c \in Conns, pc[c] \in Busy
    PROVE  /\ IsJob(job[c])
           /\ recs[c] \in Seq(Seq(Field)) /\ recs[c] # <<>>
           /\ RowIdx(c) \in 1..Len(job[c].rows) /\ RowIdx(c) \in DOMAIN recs[c]
           /\ DOMAIN job[c].rows = 1..Len(job[c].rows) /\ Len(job[c].rows) \in Nat
           /\ FieldIdx(c) \in 1..Len(job[c].cols) /\ FieldIdx(c) \in DOMAIN job[c].cols
           /\ DOMAIN job[c].cols = 1..Len(job[c].cols) /\ Len(job[c].cols) \in Nat
           /\ job[c].cols[FieldIdx(c)] \in Columns
           /\ NextKey(c) \in Range(KeyOf)
           /\ NextMeta(c) \in Definitions[job[c].cols[FieldIdx(c)]]
<1>1. /\ IsJob(job[c]) /\ RowIdx(c) \in DOMAIN job[c].rows
      /\ FieldIdx(c) \in DOMAIN job[c].cols
  BY DEF PlaceInv, PlaceOf, Busy
<1>2. DOMAIN job[c].rows = 1..Len(job[c].rows) /\ Len(job[c].rows) \in Nat
  BY <1>1, LenProperties DEF IsJob
<1>3. job[c].cols \in Selections
  BY <1>1 DEF IsJob
<1>4. DOMAIN job[c].cols = 1..Len(job[c].cols) /\ Len(job[c].cols) \in Nat
      /\ job[c].cols[FieldIdx(c)] \in Columns
  BY <1>1, <1>3, SelectionType
<1>5. recs[c] \in Seq(Seq(Field))
  BY DEF TypeInv
<1>6. recs[c] # <<>> /\ RowIdx(c) \in DOMAIN recs[c]
  <2>1. RowIdx(c) = Len(recs[c]) /\ RowIdx(c) > 0
    BY <1>1, <1>2 DEF RowIdx
  <2>2. Len(recs[c]) \in Nat /\ DOMAIN recs[c] = 1..Len(recs[c])
    BY <1>5, LenProperties
  <2> QED  BY <2>1, <2>2, EmptySeq
<1>7. NextKey(c) \in Range(KeyOf)
  BY <1>4, ConstantsAssumption DEF NextKey, Range
<1>8. NextMeta(c) \in Definitions[job[c].cols[FieldIdx(c)]]
  BY <1>1 DEF IsJob, NextMeta
<1> QED  BY <1>1, <1>2, <1>4, <1>5, <1>6, <1>7, <1>8

-----------------------------------------------------------------------------
(* CreateField.                                                            *)

\* A list of lists whose last member gets one more element.
LEMMA WrittenRecords ==
    ASSUME NEW S, NEW R \in Seq(Seq(S)), R # <<>>, NEW f \in S,
           NEW W, W = [R EXCEPT ![Len(R)] = Append(@, f)]
    PROVE  /\ Len(R) \in DOMAIN R /\ DOMAIN R = 1..Len(R) /\ R[Len(R)] \in Seq(S)
           /\ W \in Seq(Seq(S)) /\ DOMAIN W = DOMAIN R /\ Len(W) = Len(R)
           /\ \A r \in DOMAIN R : r # Len(R) => W[r] = R[r]
           /\ W[Len(R)] = Append(R[Len(R)], f)
<1> DEFINE n == Len(R)  L == Append(R[n], f)
<1>1. n \in Nat \ {0} /\ DOMAIN R = 1..n /\ n \in 1..n
  BY EmptySeq, LenProperties
<1>2. R[n] \in Seq(S)
  BY <1>1, ElementOfSeq
<1>3. L \in Seq(S)
  BY <1>2, AppendProperties
<1>4. W = [R EXCEPT ![n] = L]
  OBVIOUS
<1> HIDE DEF L, n
<1>5. /\ [R EXCEPT ![n] = L] \in Seq(Seq(S)) /\ Len([R EXCEPT ![n] = L]) = Len(R)
      /\ \A r \in 1..Len(R) : [R EXCEPT ![n] = L][r] = IF r = n THEN L ELSE R[r]
  BY <1>1, <1>3, ExceptSeq DEF n
<1> QED  BY <1>1, <1>2, <1>4, <1>5, LenProperties DEF n, L

\* The field that is made, in the lists' terms.
NewField(c) ==
    [info |-> found[c],
     val |-> SetValue(info[found[c]], job[c].rows[RowIdx(c)][FieldIdx(c)], ColLength(c))]

LEMMA NewFieldType ==
    ASSUME TypeInv, PlaceInv, CacheInv, FoundInv, NEW c \in Conns, pc[c] = "create"
    PROVE  NewField(c) \in Field
<1>1. IsJob(job[c]) /\ RowIdx(c) \in DOMAIN job[c].rows /\ FieldIdx(c) \in DOMAIN job[c].cols
  BY AtField DEF Busy
<1>2. ColLength(c) \in Nat /\ job[c].rows[RowIdx(c)][FieldIdx(c)] \in Answers
  BY <1>1, ColumnIsLongest
<1>3. found[c] \in Infos
  BY DEF FoundInv, FoundOf, CacheInv, TypeInv
<1> QED  BY <1>2, <1>3, SetValueType DEF NewField, Field

\* A step that adds this field where the connection is, and leaves the others.
NothingElse(c) ==
    \A r \in DOMAIN recs'[c] : \A i \in DOMAIN recs'[c][r] :
      \/ r \in DOMAIN recs[c] /\ i \in DOMAIN recs[c][r] /\ recs'[c][r][i] = recs[c][r][i]
      \/ r = RowIdx(c) /\ i = FieldIdx(c) /\ recs'[c][r][i] = NewField(c)

\* CreateField does that, and goes on to the next field, the next row, or out.
LEMMA FieldCreated ==
    ASSUME TypeInv, PlaceInv, CacheInv, FoundInv, NEW c \in Conns, CreateField(c)
    PROVE  /\ recs' \in [Conns -> Seq(Seq(Field))]
           /\ \A r \in DOMAIN recs'[c] :
                /\ r \in DOMAIN job[c].rows /\ Len(recs'[c][r]) <= Len(job[c].cols)
                /\ r < Len(recs'[c]) \/ pc'[c] = "returned" => Len(recs'[c][r]) = Len(job[c].cols)
           /\ NothingElse(c)
           /\ \/ pc'[c] = "returned" /\ stored'[c] = FALSE /\ Len(recs'[c]) = Len(job[c].rows)
              \/ /\ pc'[c] = "lock" /\ stored'[c] = TRUE
                 /\ Len(recs'[c]) \in DOMAIN job[c].rows
                 /\ Len(recs'[c][Len(recs'[c])]) + 1 \in DOMAIN job[c].cols
<1> DEFINE R == recs[c]  n == Len(R)  i == Len(R[n]) + 1  f == NewField(c)
           W == [R EXCEPT ![n] = Append(@, f)]
           cols == Len(job[c].cols)  rows == Len(job[c].rows)
           last == i = cols  done == last /\ n = rows
           V == IF last /\ ~done THEN Append(W, <<>>) ELSE W
<1>1. pc[c] = "create" /\ pc[c] \in Busy
  BY DEF CreateField, Busy
<1>2. /\ n \in 1..rows /\ DOMAIN job[c].rows = 1..rows /\ rows \in Nat
      /\ i \in 1..cols /\ DOMAIN job[c].cols = 1..cols /\ cols \in Nat
      /\ R \in Seq(Seq(Field)) /\ R # <<>>
  BY <1>1, AtField DEF RowIdx, FieldIdx
<1>3. f \in Field
  BY <1>1, NewFieldType
<1>4. RowIdx(c) = n /\ FieldIdx(c) = i
  BY DEF RowIdx, FieldIdx
<1>5. /\ recs' = [recs EXCEPT ![c] = V]
      /\ pc' = [pc EXCEPT ![c] = IF done THEN "returned" ELSE "lock"]
      /\ stored' = [stored EXCEPT ![c] = ~done]
  BY DEF CreateField, NewField, RowIdx, FieldIdx
<1>6. /\ recs'[c] = V /\ pc'[c] = (IF done THEN "returned" ELSE "lock")
      /\ stored'[c] = ~done
  <2> HIDE DEF V, done
  <2> QED  BY <1>5 DEF TypeInv
<1>7. /\ n \in DOMAIN R /\ DOMAIN R = 1..n /\ R[n] \in Seq(Field)
      /\ W \in Seq(Seq(Field)) /\ DOMAIN W = DOMAIN R /\ Len(W) = n
      /\ \A r \in DOMAIN R : r # n => W[r] = R[r]
      /\ W[n] = Append(R[n], f)
  <2> HIDE DEF f
  <2> QED  BY <1>2, <1>3, WrittenRecords
<1> HIDE DEF W, f
<1>8. /\ Len(W[n]) = i /\ DOMAIN W[n] = 1..i /\ W[n][i] = f
      /\ \A k \in 1..i : k # i => k \in DOMAIN R[n] /\ W[n][k] = R[n][k]
      /\ DOMAIN R[n] = 1..i - 1 /\ i \in Nat
  <2> DEFINE L == R[n]
  <2>1. L \in Seq(Field) /\ Len(L) \in Nat /\ DOMAIN L = 1..Len(L) /\ i = Len(L) + 1
    BY <1>7, LenProperties
  <2> HIDE DEF L, i
  <2>2. /\ Append(L, f) \in Seq(Field) /\ Len(Append(L, f)) = i
        /\ \A k \in 1..Len(L) : Append(L, f)[k] = L[k]
        /\ Append(L, f)[i] = f
    BY <1>3, <2>1, AppendProperties
  <2>3. DOMAIN Append(L, f) = 1..i
    BY <2>2, LenProperties
  <2>4. W[n] = Append(L, f)
    BY <1>7 DEF L
  <2> QED  BY <2>1, <2>2, <2>3, <2>4 DEF L
<1>9. /\ V \in Seq(Seq(Field))
      /\ \A r \in DOMAIN V : \/ r \in DOMAIN W /\ V[r] = W[r]
                             \/ r = n + 1 /\ V[r] = <<>> /\ last /\ ~done
      /\ Len(V) = IF last /\ ~done THEN n + 1 ELSE n
      /\ \A r \in DOMAIN W : V[r] = W[r]
      /\ DOMAIN V = 1..Len(V)
  <2>1. CASE ~(last /\ ~done)
    BY <1>2, <1>7, <2>1
  <2>2. CASE last /\ ~done
    <3>1. V = Append(W, <<>>) /\ <<>> \in Seq(Field) /\ DOMAIN W = 1..n /\ n \in Nat
      BY <1>2, <1>7, <2>2, EmptySeq
    <3> HIDE DEF V, n, last, done
    <3>2. /\ V \in Seq(Seq(Field)) /\ Len(V) = n + 1 /\ V[n + 1] = <<>>
          /\ \A r \in 1..n : V[r] = W[r]
      BY <1>7, <3>1, AppendProperties
    <3>3. DOMAIN V = 1..n + 1
      BY <3>2, LenProperties
    <3> QED  BY <2>2, <3>1, <3>2, <3>3
  <2> QED  BY <2>1, <2>2
<1> HIDE DEF V
<1>10. recs' \in [Conns -> Seq(Seq(Field))]
  BY <1>5, <1>9 DEF TypeInv
<1>11. last /\ ~done => n + 1 \in 1..rows
  BY <1>2
<1>12. ASSUME NEW r \in DOMAIN V
       PROVE  /\ r \in 1..rows /\ Len(V[r]) <= cols
              /\ r < Len(V) \/ done => Len(V[r]) = cols
  <2>1. CASE r \in DOMAIN W /\ V[r] = W[r] /\ r # n
    <3>1. r \in DOMAIN R /\ V[r] = R[r] /\ r < n
      BY <1>7, <2>1
    <3>2. r \in DOMAIN job[c].rows /\ Len(R[r]) = cols
      BY <1>4, <3>1 DEF PlaceInv, PlaceOf
    <3> QED  BY <1>2, <3>1, <3>2
  <2>2. CASE r = n /\ V[r] = W[r]
    <3>1. n < Len(V) => last
      BY <1>2, <1>9
    <3> QED  BY <1>2, <1>8, <2>2, <3>1
  <2>3. CASE r = n + 1 /\ V[r] = <<>> /\ last /\ ~done
    <3>1. Len(V[r]) = 0 /\ Len(V) = n + 1
      BY <1>9, <2>3
    <3> QED  BY <1>2, <1>11, <2>3, <3>1
  <2> QED  BY <1>9, <2>1, <2>2, <2>3
<1>13. ASSUME NEW r \in DOMAIN V, NEW k \in DOMAIN V[r]
       PROVE  \/ r \in DOMAIN R /\ k \in DOMAIN R[r] /\ V[r][k] = R[r][k]
              \/ r = n /\ k = i /\ V[r][k] = f
  <2>1. CASE r \in DOMAIN W /\ V[r] = W[r] /\ r # n
    BY <1>7, <2>1
  <2>2. CASE r = n /\ V[r] = W[r]
    <3>1. k \in 1..i /\ V[r][k] = W[n][k]
      BY <1>8, <2>2
    <3> QED  BY <1>7, <1>8, <2>2, <3>1
  <2>3. CASE r = n + 1 /\ V[r] = <<>> /\ last /\ ~done
    BY <2>3
  <2> QED  BY <1>9, <2>1, <2>2, <2>3
<1>14. done => Len(V) = rows
  BY <1>9
<1>15. ~done => Len(V) \in 1..rows /\ Len(V[Len(V)]) + 1 \in 1..cols
  <2>1. CASE last /\ ~done
    <3>1. Len(V) = n + 1 /\ n + 1 \in DOMAIN V /\ n + 1 \notin DOMAIN W
      BY <1>2, <1>7, <1>9, <2>1
    <3>2. V[n + 1] = <<>>
      BY <1>9, <3>1
    <3> QED  BY <1>2, <1>11, <2>1, <3>1, <3>2
  <2>2. CASE ~last
    <3>1. Len(V) = n /\ V[n] = W[n] /\ Len(W[n]) = i
      BY <1>7, <1>8, <1>9, <2>2
    <3> QED  BY <1>2, <2>2, <3>1
  <2> QED  BY <2>1, <2>2
<1> HIDE DEF n, i, last, done
<1>16. NothingElse(c)
  BY <1>4, <1>6, <1>13 DEF NothingElse, R, f
<1> QED  BY <1>2, <1>6, <1>10, <1>12, <1>14, <1>15, <1>16 DEF rows, cols

-----------------------------------------------------------------------------
(* The invariant holds initially and every step preserves it.              *)

\* With every connection closed and nothing cached there is nothing to go wrong yet.
LEMMA InitInv == Init => IInv
<1> SUFFICES ASSUME Init PROVE IInv
  OBVIOUS
<1>1. TypeInv
  <2>1. \A S : <<>> \in Seq(S) /\ DOMAIN <<>> = {}
    OBVIOUS
  <2> QED  BY <2>1 DEF Init, TypeInv, NoInfo
<1>2. LockInv
  BY DEF Init, LockInv
<1>3. PlaceInv
  BY DEF Init, PlaceInv, PlaceOf, Busy
<1>4. CacheInv /\ FoundInv
  BY DEF Init, CacheInv, FoundInv, FoundOf
<1>5. StatusInv
  BY DEF Init, StatusInv, Busy
<1>6. SettledInv /\ CellInv
  BY DEF Init, SettledInv, CellInv, CellOf, NoJob
<1> QED  BY <1>1, <1>2, <1>3, <1>4, <1>5, <1>6 DEF IInv

\* A connection's step leaves the others where they are.
OthersKept(c) ==
    \A o \in Conns \ {c} :
      /\ pc'[o] = pc[o] /\ job'[o] = job[o] /\ recs'[o] = recs[o] /\ found'[o] = found[o]
      /\ stored'[o] = stored[o] /\ status'[o] = status[o]

LEMMA StepsApart ==
    ASSUME TypeInv, NEW c \in Conns,
           \/ QuerySql(c) \/ StartOf(c) \/ LockFields(c) \/ FindInfo(c)
           \/ NewInfo(c) \/ InsertInfo(c) \/ CreateField(c) \/ End(c)
    PROVE  OthersKept(c)
<1>1. CASE QuerySql(c)
  BY <1>1 DEF TypeInv, QuerySql, OthersKept, serverVars, cacheVars, threadVars
<1>2. CASE StartOf(c)
  BY <1>2 DEF TypeInv, StartOf, Start, OthersKept, serverVars, cacheVars
<1>3. CASE LockFields(c)
  BY <1>3 DEF TypeInv, LockFields, OthersKept, serverVars, connVars
<1>4. CASE FindInfo(c)
  BY <1>4 DEF TypeInv, FindInfo, OthersKept, serverVars, connVars
<1>5. CASE NewInfo(c)
  BY <1>5 DEF TypeInv, NewInfo, OthersKept, serverVars, connVars
<1>6. CASE InsertInfo(c)
  BY <1>6 DEF TypeInv, InsertInfo, OthersKept, serverVars, connVars
<1>7. CASE CreateField(c)
  BY <1>7 DEF TypeInv, CreateField, OthersKept, serverVars, cacheVars
<1>8. CASE End(c)
  BY <1>8 DEF TypeInv, End, Release, OthersKept, serverVars, cacheVars
<1> QED  BY <1>1, <1>2, <1>3, <1>4, <1>5, <1>6, <1>7, <1>8

LEMMA TypePreserved ==
    ASSUME IInv, [Next]_vars
    PROVE  TypeInv'
<1> USE DEF IInv
<1>1. CASE UNCHANGED vars
  BY <1>1 DEF TypeInv, vars, serverVars, cacheVars, threadVars, connVars
<1>2. CASE Connect
  BY <1>2 DEF TypeInv, Connect, cacheVars, threadVars
<1>3. CASE Disconnect
  BY <1>3 DEF TypeInv, Disconnect, serverVars, threadVars
<1>4. ASSUME NEW col \in Columns, Alter(col) PROVE TypeInv'
  <2>1. PICK d \in Definitions[col] : def' = [def EXCEPT ![col] = d]
    BY <1>4 DEF Alter
  <2>2. d \in UNION Range(Definitions)
    BY ConstantsAssumption DEF Range
  <2> QED  BY <1>4, <2>1, <2>2 DEF TypeInv, Alter, cacheVars, threadVars, connVars
<1>5. ASSUME NEW c \in Conns, QuerySql(c) PROVE TypeInv'
  BY <1>5 DEF TypeInv, QuerySql, serverVars, cacheVars, threadVars
<1>6. ASSUME NEW c \in Conns, StartOf(c) PROVE TypeInv'
  <2>1. <<<<>>>> \in Seq(Seq(Field)) /\ <<>> \in Seq(Seq(Field))
    OBVIOUS
  <2>2. recs' \in [Conns -> Seq(Seq(Field))]
    BY <1>6, <2>1 DEF TypeInv, StartOf, Start
  <2>3. /\ stored' \in [Conns -> BOOLEAN]
        /\ pc' \in [Conns -> {"idle", "lock", "find", "insert", "create", "returned"}]
    BY <1>6 DEF TypeInv, StartOf, Start
  <2>4. DOMAIN job' = Conns /\ \A o \in Conns : job'[o] = NoJob \/ IsJob(job'[o])
    BY <1>6 DEF TypeInv, StartOf, Start
  <2>5. UNCHANGED <<def, status, found, info, cache, lock, altered, misused>>
    BY <1>6 DEF StartOf, Start, serverVars, cacheVars
  <2> QED  BY <2>2, <2>3, <2>4, <2>5 DEF TypeInv
<1>7. ASSUME NEW c \in Conns, LockFields(c) PROVE TypeInv'
  BY <1>7 DEF TypeInv, LockFields, serverVars, connVars
<1>8. ASSUME NEW c \in Conns, FindInfo(c) PROVE TypeInv'
  <2>1. cache[NextKey(c)] \in Infos
    BY <1>8 DEF FindInfo, CacheInv, TypeInv
  <2> QED  BY <1>8, <2>1 DEF TypeInv, FindInfo, serverVars, connVars
<1>9. ASSUME NEW c \in Conns, NewInfo(c) PROVE TypeInv'
  <2>1. NextKey(c) \in Range(KeyOf)
    BY <1>9, AtField DEF NewInfo, Busy
  <2>2. PICK n \in 1..MaxInfos :
          /\ info' = [j \in (DOMAIN info) \cup {<<NextKey(c), n>>} |->
                        IF j = <<NextKey(c), n>> THEN NextMeta(c) ELSE info[j]]
          /\ found' = [found EXCEPT ![c] = <<NextKey(c), n>>]
    BY <1>9 DEF NewInfo
  <2>3. <<NextKey(c), n>> \in Infos
    BY <2>1 DEF Infos
  <2>4. DOMAIN info' \subseteq Infos /\ found' \in [Conns -> Infos \cup {NoInfo}]
    BY <2>2, <2>3 DEF TypeInv
  <2> QED  BY <1>9, <2>4 DEF TypeInv, NewInfo, serverVars, connVars
<1>10. ASSUME NEW c \in Conns, InsertInfo(c) PROVE TypeInv'
  <2>1. NextKey(c) \in Range(KeyOf)
    BY <1>10, AtField DEF InsertInfo, Busy
  <2>2. DOMAIN cache' \subseteq Range(KeyOf)
    BY <1>10, <2>1 DEF TypeInv, InsertInfo
  <2>3. pc' \in [Conns -> {"idle", "lock", "find", "insert", "create", "returned"}]
    BY <1>10 DEF TypeInv, InsertInfo
  <2> QED  BY <1>10, <2>2, <2>3 DEF TypeInv, InsertInfo, serverVars, connVars
<1>11. ASSUME NEW c \in Conns, CreateField(c) PROVE TypeInv'
  <2>1. recs' \in [Conns -> Seq(Seq(Field))]
    BY <1>11, FieldCreated
  <2> QED  BY <1>11, <2>1 DEF TypeInv, CreateField, serverVars, cacheVars
<1>12. ASSUME NEW c \in Conns, End(c) PROVE TypeInv'
  <2>1. <<>> \in Seq(Seq(Field))
    OBVIOUS
  <2> QED  BY <1>12, <2>1 DEF TypeInv, End, Release, serverVars, cacheVars
<1> QED  BY <1>1, <1>2, <1>3, <1>4, <1>5, <1>6, <1>7, <1>8, <1>9, <1>10, <1>11, <1>12, StepCases

LEMMA LockPreserved ==
    ASSUME IInv, [Next]_vars
    PROVE  LockInv'
<1> USE DEF IInv
<1>1. CASE UNCHANGED vars
  BY <1>1 DEF LockInv, vars, cacheVars, threadVars
<1>2. CASE Connect
  BY <1>2 DEF LockInv, Connect, cacheVars, threadVars
<1>3. CASE Disconnect
  BY <1>3 DEF LockInv, Disconnect, threadVars
<1>4. ASSUME NEW col \in Columns, Alter(col) PROVE LockInv'
  BY <1>4 DEF LockInv, Alter, cacheVars, threadVars
<1>5. ASSUME NEW c \in Conns, QuerySql(c) PROVE LockInv'
  BY <1>5 DEF LockInv, QuerySql, cacheVars, threadVars
<1>6. ASSUME NEW c \in Conns, StartOf(c) PROVE LockInv'
  BY <1>6 DEF LockInv, TypeInv, StartOf, Start, cacheVars
<1>7. ASSUME NEW c \in Conns, LockFields(c) PROVE LockInv'
  BY <1>7 DEF LockInv, TypeInv, LockFields
<1>8. ASSUME NEW c \in Conns, FindInfo(c) PROVE LockInv'
  BY <1>8 DEF LockInv, TypeInv, FindInfo
<1>9. ASSUME NEW c \in Conns, NewInfo(c) PROVE LockInv'
  BY <1>9 DEF LockInv, TypeInv, NewInfo
<1>10. ASSUME NEW c \in Conns, InsertInfo(c) PROVE LockInv'
  BY <1>10 DEF LockInv, TypeInv, InsertInfo
<1>11. ASSUME NEW c \in Conns, CreateField(c) PROVE LockInv'
  <2>1. pc[c] = "create" /\ pc'[c] \notin {"find", "insert"} /\ lock' = lock
    BY <1>11, FieldCreated DEF CreateField, cacheVars
  <2>2. \A o \in Conns \ {c} : pc'[o] = pc[o]
    BY <1>11, StepsApart DEF OthersKept
  <2> QED  BY <2>1, <2>2 DEF LockInv
<1>12. ASSUME NEW c \in Conns, End(c) PROVE LockInv'
  BY <1>12 DEF LockInv, TypeInv, End, Release, cacheVars
<1> QED  BY <1>1, <1>2, <1>3, <1>4, <1>5, <1>6, <1>7, <1>8, <1>9, <1>10, <1>11, <1>12, StepCases

LEMMA PlaceKept ==
    ASSUME NEW o, PlaceOf(o), pc'[o] = pc[o], job'[o] = job[o], recs'[o] = recs[o]
    PROVE  PlaceOf(o)'
BY DEF PlaceOf, RowIdx, FieldIdx

LEMMA PlacePreserved ==
    ASSUME IInv, [Next]_vars
    PROVE  PlaceInv'
<1> USE DEF IInv
<1>0. ASSUME UNCHANGED <<pc, job, recs>> PROVE PlaceInv'
  BY <1>0, PlaceKept DEF PlaceInv
<1>1. CASE UNCHANGED vars
  BY <1>0, <1>1 DEF vars, threadVars
<1>2. CASE Connect
  BY <1>0, <1>2 DEF Connect, threadVars
<1>3. CASE Disconnect
  BY <1>0, <1>3 DEF Disconnect, threadVars
<1>4. ASSUME NEW col \in Columns, Alter(col) PROVE PlaceInv'
  BY <1>0, <1>4 DEF Alter, threadVars
<1>a. ASSUME NEW c \in Conns, OthersKept(c), PlaceOf(c)' PROVE PlaceInv'
  BY <1>a, PlaceKept DEF OthersKept, PlaceInv
<1>b. ASSUME NEW c \in Conns, pc[c] \in Busy, pc'[c] \in Busy, UNCHANGED <<job, recs>>
      PROVE  PlaceOf(c)'
  BY <1>b DEF PlaceInv, PlaceOf, Busy, RowIdx, FieldIdx
<1>5. ASSUME NEW c \in Conns, QuerySql(c) PROVE PlaceInv'
  BY <1>0, <1>5 DEF QuerySql, threadVars
<1>6. ASSUME NEW c \in Conns, StartOf(c) PROVE PlaceInv'
  <2>1. PICK cols \in Selections : \E rows :
          /\ IsJob([cols |-> cols, meta |-> [i \in DOMAIN cols |-> def[cols[i]]], rows |-> rows])
          /\ Start(c, cols, rows)
    BY <1>6 DEF StartOf
  <2>2. PICK rows :
          /\ IsJob([cols |-> cols, meta |-> [i \in DOMAIN cols |-> def[cols[i]]], rows |-> rows])
          /\ Start(c, cols, rows)
    BY <2>1
  <2>3. IsJob(job'[c]) /\ job'[c].cols = cols /\ job'[c].rows = rows
    BY <2>2 DEF Start, TypeInv
  <2>4. /\ DOMAIN rows = 1..Len(rows) /\ Len(rows) \in Nat
        /\ rows # <<>> => Len(rows) \in Nat \ {0}
    BY <2>3, EmptySeq, LenProperties DEF IsJob
  <2>5. DOMAIN cols = 1..Len(cols) /\ Len(cols) \in Nat \ {0}
    BY SelectionType
  <2>6. PlaceOf(c)'
    <3>1. CASE rows = <<>>
      <4>1. recs'[c] = <<>> /\ pc'[c] = "returned"
        BY <2>2, <3>1 DEF Start, TypeInv
      <4> QED  BY <2>3, <3>1, <4>1 DEF PlaceOf, Busy
    <3>2. CASE rows # <<>>
      <4>1. recs'[c] = <<<<>>>> /\ pc'[c] = "lock"
        BY <2>2, <3>2 DEF Start, TypeInv
      <4>2. Len(recs'[c]) = 1 /\ DOMAIN recs'[c] = {1} /\ Len(recs'[c][1]) = 0
        BY <4>1
      <4>3. 1 \in DOMAIN rows /\ 1 \in DOMAIN cols /\ 0 <= Len(cols)
        BY <2>4, <2>5, <3>2
      <4> QED  BY <2>3, <4>1, <4>2, <4>3 DEF PlaceOf, Busy, RowIdx, FieldIdx
    <3> QED  BY <3>1, <3>2
  <2> QED  BY <1>6, <1>a, <2>6, StepsApart
<1>7. ASSUME NEW c \in Conns, LockFields(c) PROVE PlaceInv'
  BY <1>7, <1>a, <1>b, StepsApart DEF LockFields, TypeInv, Busy
<1>8. ASSUME NEW c \in Conns, FindInfo(c) PROVE PlaceInv'
  BY <1>8, <1>a, <1>b, StepsApart DEF FindInfo, TypeInv, Busy
<1>9. ASSUME NEW c \in Conns, NewInfo(c) PROVE PlaceInv'
  BY <1>9, <1>a, <1>b, StepsApart DEF NewInfo, TypeInv, Busy
<1>10. ASSUME NEW c \in Conns, InsertInfo(c) PROVE PlaceInv'
  BY <1>10, <1>a, <1>b, StepsApart DEF InsertInfo, TypeInv, Busy
<1>11. ASSUME NEW c \in Conns, CreateField(c) PROVE PlaceInv'
  <2>1. job'[c] = job[c] /\ IsJob(job[c])
    BY <1>11, AtField DEF CreateField, Busy
  <2>2. /\ pc'[c] \in {"returned", "lock"}
        /\ pc'[c] = "returned" => Len(recs'[c]) = Len(job[c].rows)
        /\ pc'[c] = "lock" => /\ Len(recs'[c]) \in DOMAIN job[c].rows
                              /\ Len(recs'[c][Len(recs'[c])]) + 1 \in DOMAIN job[c].cols
    BY <1>11, FieldCreated
  <2>3. \A r \in DOMAIN recs'[c] :
          /\ r \in DOMAIN job[c].rows /\ Len(recs'[c][r]) <= Len(job[c].cols)
          /\ r < Len(recs'[c]) \/ pc'[c] = "returned" => Len(recs'[c][r]) = Len(job[c].cols)
    BY <1>11, FieldCreated
  <2>4. PlaceOf(c)'
    BY <2>1, <2>2, <2>3 DEF PlaceOf, Busy, RowIdx, FieldIdx
  <2> QED  BY <1>11, <1>a, <2>4, StepsApart
<1>12. ASSUME NEW c \in Conns, End(c) PROVE PlaceInv'
  <2>1. pc'[c] = "idle" /\ job'[c] = NoJob /\ recs'[c] = <<>>
    BY <1>12 DEF End, Release, TypeInv
  <2>2. PlaceOf(c)'
    BY <2>1 DEF PlaceOf, Busy
  <2> QED  BY <1>12, <1>a, <2>2, StepsApart
<1> QED  BY <1>1, <1>2, <1>3, <1>4, <1>5, <1>6, <1>7, <1>8, <1>9, <1>10, <1>11, <1>12, StepCases

LEMMA CachePreserved ==
    ASSUME IInv, [Next]_vars
    PROVE  CacheInv'
<1> USE DEF IInv
<1>0. ASSUME UNCHANGED <<cache, info, pc, found>> PROVE CacheInv'
  BY <1>0 DEF CacheInv
<1>a. ASSUME NEW c \in Conns, UNCHANGED <<cache, info>>, OthersKept(c), pc[c] # "insert"
      PROVE  CacheInv'
  BY <1>a DEF CacheInv, OthersKept
<1>1. CASE UNCHANGED vars
  BY <1>0, <1>1 DEF vars, cacheVars, threadVars
<1>2. CASE Connect
  BY <1>0, <1>2 DEF Connect, cacheVars, threadVars
<1>3. CASE Disconnect
  <2>1. DOMAIN info' = {} /\ DOMAIN cache' = {}
    BY <1>3 DEF Disconnect, CacheInv
  <2> QED  BY <2>1 DEF CacheInv
<1>4. ASSUME NEW col \in Columns, Alter(col) PROVE CacheInv'
  BY <1>0, <1>4 DEF Alter, cacheVars, threadVars
<1>5. ASSUME NEW c \in Conns, QuerySql(c) PROVE CacheInv'
  BY <1>0, <1>5 DEF QuerySql, cacheVars, threadVars
<1>6. ASSUME NEW c \in Conns, StartOf(c) PROVE CacheInv'
  BY <1>6, <1>a, StepsApart DEF StartOf, Start, cacheVars
<1>7. ASSUME NEW c \in Conns, LockFields(c) PROVE CacheInv'
  BY <1>7, <1>a, StepsApart DEF LockFields
<1>8. ASSUME NEW c \in Conns, FindInfo(c) PROVE CacheInv'
  BY <1>8, <1>a, StepsApart DEF FindInfo
<1>9. ASSUME NEW c \in Conns, NewInfo(c) PROVE CacheInv'
  <2>1. /\ OthersKept(c) /\ cache' = cache /\ pc'[c] = "insert" /\ pc[c] = "find"
        /\ DOMAIN info' = (DOMAIN info) \cup {found'[c]}
    BY <1>9, StepsApart DEF NewInfo, TypeInv
  <2> QED  BY <2>1 DEF CacheInv, OthersKept
<1>10. ASSUME NEW c \in Conns, InsertInfo(c) PROVE CacheInv'
  <2> DEFINE k == NextKey(c)
  <2>1. k \notin DOMAIN cache /\ found[c] \in DOMAIN info /\ found[c][1] = k
    BY <1>10 DEF InsertInfo, FoundInv, FoundOf
  <2>2. /\ info' = info /\ DOMAIN cache' = (DOMAIN cache) \cup {k} /\ cache'[k] = found[c]
        /\ \A q \in DOMAIN cache : cache'[q] = cache[q]
    BY <1>10, <2>1 DEF InsertInfo
  <2>3. Range(cache') = Range(cache) \cup {found[c]}
    BY <2>1, <2>2 DEF Range
  <2>4. OthersKept(c)
    BY <1>10, StepsApart
  <2> HIDE DEF k
  <2>5. \A q \in DOMAIN cache' : cache'[q] \in DOMAIN info' /\ cache'[q][1] = q
    BY <2>1, <2>2 DEF CacheInv
  <2>6. \A i \in (DOMAIN info') \ Range(cache') : \E o \in Conns : pc'[o] = "insert" /\ found'[o] = i
    BY <2>2, <2>3, <2>4 DEF CacheInv, OthersKept
  <2> QED  BY <2>5, <2>6 DEF CacheInv
<1>11. ASSUME NEW c \in Conns, CreateField(c) PROVE CacheInv'
  BY <1>11, <1>a, StepsApart DEF CreateField, cacheVars
<1>12. ASSUME NEW c \in Conns, End(c) PROVE CacheInv'
  BY <1>12, <1>a, StepsApart DEF End, Release, cacheVars
<1> QED  BY <1>1, <1>2, <1>3, <1>4, <1>5, <1>6, <1>7, <1>8, <1>9, <1>10, <1>11, <1>12, StepCases

\* Entries of the cache stay as they are, and nobody inserts beside an inserter.
LEMMA FoundKept ==
    ASSUME NEW o, FoundOf(o), pc'[o] = pc[o], job'[o] = job[o], recs'[o] = recs[o],
           found'[o] = found[o],
           \A k \in DOMAIN cache : k \in DOMAIN cache' /\ cache'[k] = cache[k],
           pc[o] = "insert" => DOMAIN cache' = DOMAIN cache /\ DOMAIN info \subseteq DOMAIN info'
    PROVE  FoundOf(o)'
<1>1. NextKey(o)' = NextKey(o)
  BY DEF NextKey, FieldIdx, RowIdx
<1>2. pc'[o] = "insert" => /\ NextKey(o)' \notin DOMAIN cache'
                           /\ found'[o] \in DOMAIN info' /\ found'[o][1] = NextKey(o)'
  BY <1>1 DEF FoundOf
<1>3. pc'[o] = "create" => NextKey(o)' \in DOMAIN cache' /\ found'[o] = cache'[NextKey(o)']
  BY <1>1 DEF FoundOf
<1>4. ASSUME NEW r \in DOMAIN recs'[o], NEW i \in DOMAIN recs'[o][r]
      PROVE  /\ KeyOf[job'[o].cols[i]] \in DOMAIN cache'
             /\ cache'[KeyOf[job'[o].cols[i]]] = recs'[o][r][i].info
  BY DEF FoundOf
<1> QED  BY <1>2, <1>3, <1>4 DEF FoundOf

LEMMA FoundPreserved ==
    ASSUME IInv, [Next]_vars
    PROVE  FoundInv'
<1> USE DEF IInv
<1>0. ASSUME UNCHANGED <<cache, info, pc, job, recs, found>> PROVE FoundInv'
  BY <1>0, FoundKept DEF FoundInv
<1>a. ASSUME NEW c \in Conns, OthersKept(c), FoundOf(c)', UNCHANGED cache,
             DOMAIN info \subseteq DOMAIN info'
      PROVE  FoundInv'
  BY <1>a, FoundKept DEF OthersKept, FoundInv
<1>b. ASSUME NEW c \in Conns, UNCHANGED <<cache, job, recs>>
      PROVE  /\ NextKey(c)' = NextKey(c)
             /\ \A r \in DOMAIN recs'[c] : \A i \in DOMAIN recs'[c][r] :
                  /\ KeyOf[job'[c].cols[i]] \in DOMAIN cache'
                  /\ cache'[KeyOf[job'[c].cols[i]]] = recs'[c][r][i].info
  <2>1. NextKey(c)' = NextKey(c)
    BY <1>b DEF NextKey, FieldIdx, RowIdx
  <2> QED  BY <1>b, <2>1 DEF FoundInv, FoundOf
<1>1. CASE UNCHANGED vars
  BY <1>0, <1>1 DEF vars, cacheVars, threadVars
<1>2. CASE Connect
  BY <1>0, <1>2 DEF Connect, cacheVars, threadVars
<1>3. CASE Disconnect
  <2>1. \A o \in Conns : pc'[o] = "idle" /\ recs'[o] = <<>>
    BY <1>3 DEF Disconnect, threadVars, PlaceInv, PlaceOf
  <2> QED  BY <2>1 DEF FoundInv, FoundOf
<1>4. ASSUME NEW col \in Columns, Alter(col) PROVE FoundInv'
  BY <1>0, <1>4 DEF Alter, cacheVars, threadVars
<1>5. ASSUME NEW c \in Conns, QuerySql(c) PROVE FoundInv'
  BY <1>0, <1>5 DEF QuerySql, cacheVars, threadVars
<1>6. ASSUME NEW c \in Conns, StartOf(c) PROVE FoundInv'
  <2>1. /\ pc'[c] \in {"returned", "lock"} /\ recs'[c] \in {<<>>, <<<<>>>>}
        /\ UNCHANGED <<cache, info>>
    BY <1>6 DEF StartOf, Start, TypeInv, cacheVars
  <2>2. \A r \in DOMAIN recs'[c] : DOMAIN recs'[c][r] = {}
    BY <2>1
  <2>3. FoundOf(c)'
    BY <2>1, <2>2 DEF FoundOf
  <2> QED  BY <1>6, <1>a, <2>1, <2>3, StepsApart
<1>7. ASSUME NEW c \in Conns, LockFields(c) PROVE FoundInv'
  <2>1. pc'[c] = "find" /\ UNCHANGED <<cache, info, job, recs>>
    BY <1>7 DEF LockFields, TypeInv
  <2>2. FoundOf(c)'
    BY <1>b, <2>1 DEF FoundOf
  <2> QED  BY <1>7, <1>a, <2>1, <2>2, StepsApart
<1>8. ASSUME NEW c \in Conns, FindInfo(c) PROVE FoundInv'
  <2>1. /\ pc'[c] = "create" /\ UNCHANGED <<cache, info, job, recs>>
        /\ NextKey(c) \in DOMAIN cache /\ found'[c] = cache[NextKey(c)]
    BY <1>8 DEF FindInfo, TypeInv
  <2>2. FoundOf(c)'
    BY <1>b, <2>1 DEF FoundOf
  <2> QED  BY <1>8, <1>a, <2>1, <2>2, StepsApart
<1>9. ASSUME NEW c \in Conns, NewInfo(c) PROVE FoundInv'
  <2>1. /\ pc'[c] = "insert" /\ UNCHANGED <<cache, job, recs>>
        /\ NextKey(c) \notin DOMAIN cache
    BY <1>9 DEF NewInfo, TypeInv
  <2>2. /\ found'[c] \in DOMAIN info' /\ found'[c][1] = NextKey(c)
        /\ DOMAIN info \subseteq DOMAIN info'
    BY <1>9 DEF NewInfo, TypeInv
  <2>3. FoundOf(c)'
    BY <1>b, <2>1, <2>2 DEF FoundOf
  <2> QED  BY <1>9, <1>a, <2>1, <2>2, <2>3, StepsApart
<1>10. ASSUME NEW c \in Conns, InsertInfo(c) PROVE FoundInv'
  <2> DEFINE k == NextKey(c)
  <2>1. k \notin DOMAIN cache
    BY <1>10 DEF InsertInfo, FoundInv, FoundOf
  <2>2. /\ pc'[c] = "create" /\ UNCHANGED <<info, job, recs, found>>
        /\ DOMAIN cache' = (DOMAIN cache) \cup {k} /\ cache'[k] = found[c]
        /\ \A q \in DOMAIN cache : q \in DOMAIN cache' /\ cache'[q] = cache[q]
    BY <1>10, <2>1 DEF InsertInfo, TypeInv
  <2>3. NextKey(c)' = k
    BY <2>2 DEF NextKey, FieldIdx, RowIdx
  <2>4. FoundOf(c)'
    <3> HIDE DEF k
    <3> QED  BY <2>2, <2>3 DEF FoundInv, FoundOf
  <2>5. \A o \in Conns \ {c} : pc[o] # "insert"
    BY <1>10 DEF InsertInfo, LockInv
  <2>6. OthersKept(c)
    BY <1>10, StepsApart
  <2> HIDE DEF k
  <2>7. \A o \in Conns \ {c} : FoundOf(o)'
    BY <2>2, <2>5, <2>6, FoundKept DEF OthersKept, FoundInv
  <2> QED  BY <2>4, <2>7 DEF FoundInv
<1>11. ASSUME NEW c \in Conns, CreateField(c) PROVE FoundInv'
  <2>1. /\ pc[c] = "create" /\ UNCHANGED <<cache, info, job>>
        /\ pc'[c] \in {"returned", "lock"}
    BY <1>11, FieldCreated DEF CreateField, cacheVars
  <2>2. /\ NextKey(c) \in DOMAIN cache /\ found[c] = cache[NextKey(c)]
        /\ NextKey(c) = KeyOf[job[c].cols[FieldIdx(c)]] /\ NewField(c).info = found[c]
    BY <2>1 DEF FoundInv, FoundOf, NextKey, NewField
  <2>3. ASSUME NEW r \in DOMAIN recs'[c], NEW i \in DOMAIN recs'[c][r]
        PROVE  /\ KeyOf[job[c].cols[i]] \in DOMAIN cache
               /\ cache[KeyOf[job[c].cols[i]]] = recs'[c][r][i].info
    <3>1. \/ r \in DOMAIN recs[c] /\ i \in DOMAIN recs[c][r] /\ recs'[c][r][i] = recs[c][r][i]
          \/ r = RowIdx(c) /\ i = FieldIdx(c) /\ recs'[c][r][i] = NewField(c)
      <4>1. NothingElse(c)
        BY <1>11, FieldCreated
      <4> QED  BY <4>1 DEF NothingElse
    <3>2. CASE r \in DOMAIN recs[c] /\ i \in DOMAIN recs[c][r] /\ recs'[c][r][i] = recs[c][r][i]
      BY <3>2 DEF FoundInv, FoundOf
    <3>3. CASE i = FieldIdx(c) /\ recs'[c][r][i] = NewField(c)
      BY <2>2, <3>3
    <3> QED  BY <3>1, <3>2, <3>3
  <2>4. FoundOf(c)'
    BY <2>1, <2>3 DEF FoundOf
  <2> QED  BY <1>11, <1>a, <2>1, <2>4, StepsApart
<1>12. ASSUME NEW c \in Conns, End(c) PROVE FoundInv'
  <2>1. pc'[c] = "idle" /\ recs'[c] = <<>> /\ UNCHANGED <<cache, info>>
    BY <1>12 DEF End, Release, TypeInv, cacheVars
  <2>2. FoundOf(c)'
    BY <2>1 DEF FoundOf
  <2> QED  BY <1>12, <1>a, <2>1, <2>2, StepsApart
<1> QED  BY <1>1, <1>2, <1>3, <1>4, <1>5, <1>6, <1>7, <1>8, <1>9, <1>10, <1>11, <1>12, StepCases

LEMMA StatusPreserved ==
    ASSUME IInv, [Next]_vars
    PROVE  StatusInv'
<1> USE DEF IInv
<1>a. ASSUME NEW c \in Conns, status[c] = "ready", UNCHANGED <<status, misused>>, OthersKept(c),
             stored'[c] <=> pc'[c] \in Busy
      PROVE  StatusInv'
  BY <1>a DEF StatusInv, OthersKept
<1>1. CASE UNCHANGED vars
  BY <1>1 DEF StatusInv, vars, cacheVars, threadVars, connVars
<1>2. CASE Connect
  BY <1>2 DEF StatusInv, Connect, cacheVars, threadVars
<1>3. CASE Disconnect
  BY <1>3 DEF StatusInv, Disconnect, threadVars
<1>4. ASSUME NEW col \in Columns, Alter(col) PROVE StatusInv'
  BY <1>4 DEF StatusInv, Alter, cacheVars, threadVars, connVars
<1>5. ASSUME NEW c \in Conns, QuerySql(c) PROVE StatusInv'
  <2>1. /\ pc[c] = "idle" /\ status[c] = "ready" /\ status'[c] = "result"
        /\ c \in misused' /\ misused \subseteq misused' /\ UNCHANGED <<pc, stored, cache>>
        /\ \A o \in Conns \ {c} : status'[o] = status[o]
    BY <1>5 DEF QuerySql, TypeInv, cacheVars, threadVars
  <2> QED  BY <2>1 DEF StatusInv
<1>6. ASSUME NEW c \in Conns, StartOf(c) PROVE StatusInv'
  <2>1. /\ status[c] = "ready" /\ UNCHANGED <<status, misused>>
        /\ stored'[c] <=> pc'[c] \in Busy
    BY <1>6 DEF StartOf, Start, TypeInv, Busy
  <2> QED  BY <1>6, <1>a, <2>1, StepsApart
<1>7. ASSUME NEW c \in Conns, LockFields(c) PROVE StatusInv'
  <2>1. /\ pc[c] \in Busy /\ pc'[c] \in Busy /\ UNCHANGED <<stored, status, misused>>
    BY <1>7 DEF LockFields, TypeInv, Busy, connVars
  <2> QED  BY <1>7, <1>a, <2>1, StepsApart DEF StatusInv, Busy
<1>8. ASSUME NEW c \in Conns, FindInfo(c) PROVE StatusInv'
  <2>1. /\ pc[c] \in Busy /\ pc'[c] \in Busy /\ UNCHANGED <<stored, status, misused>>
    BY <1>8 DEF FindInfo, TypeInv, Busy, connVars
  <2> QED  BY <1>8, <1>a, <2>1, StepsApart DEF StatusInv, Busy
<1>9. ASSUME NEW c \in Conns, NewInfo(c) PROVE StatusInv'
  <2>1. /\ pc[c] \in Busy /\ pc'[c] \in Busy /\ UNCHANGED <<stored, status, misused>>
    BY <1>9 DEF NewInfo, TypeInv, Busy, connVars
  <2> QED  BY <1>9, <1>a, <2>1, StepsApart DEF StatusInv, Busy
<1>10. ASSUME NEW c \in Conns, InsertInfo(c) PROVE StatusInv'
  <2>1. /\ pc[c] \in Busy /\ pc'[c] \in Busy /\ UNCHANGED <<stored, status, misused>>
    BY <1>10 DEF InsertInfo, TypeInv, Busy, connVars
  <2> QED  BY <1>10, <1>a, <2>1, StepsApart DEF StatusInv, Busy
<1>11. ASSUME NEW c \in Conns, CreateField(c) PROVE StatusInv'
  <2>1. /\ status[c] = "ready" /\ UNCHANGED <<status, misused>>
        /\ stored'[c] <=> pc'[c] \in Busy
    BY <1>11, FieldCreated DEF CreateField, StatusInv, Busy
  <2> QED  BY <1>11, <1>a, <2>1, StepsApart
<1>12. ASSUME NEW c \in Conns, End(c) PROVE StatusInv'
  <2>1. /\ status[c] = "ready" /\ UNCHANGED <<status, misused>>
        /\ stored'[c] <=> pc'[c] \in Busy
    BY <1>12 DEF End, Release, TypeInv, StatusInv, Busy
  <2> QED  BY <1>12, <1>a, <2>1, StepsApart
<1> QED  BY <1>1, <1>2, <1>3, <1>4, <1>5, <1>6, <1>7, <1>8, <1>9, <1>10, <1>11, <1>12, StepCases

\* With all connections closed there is no info.
LEMMA ClosedIsEmpty ==
    ASSUME IInv, \A c \in Conns : status[c] = "closed"
    PROVE  /\ DOMAIN info = {}
           /\ \A c \in Conns : pc[c] = "idle" /\ job[c] = NoJob /\ recs[c] = <<>>
<1>1. \A c \in Conns : pc[c] = "idle" /\ job[c] = NoJob /\ recs[c] = <<>>
  BY DEF IInv, StatusInv, PlaceInv, PlaceOf
<1>2. DOMAIN cache = {} /\ Range(cache) = {}
  BY DEF IInv, StatusInv, Range
<1> QED  BY <1>1, <1>2 DEF IInv, CacheInv

LEMMA SettledPreserved ==
    ASSUME IInv, [Next]_vars
    PROVE  SettledInv'
<1> USE DEF IInv
<1>0. ASSUME UNCHANGED <<info, job, def, altered>> PROVE SettledInv'
  BY <1>0 DEF SettledInv, Settled
<1>1. CASE UNCHANGED vars
  BY <1>0, <1>1 DEF vars, serverVars, cacheVars, threadVars
<1>2. CASE Connect
  <2>1. /\ DOMAIN info' = {} /\ \A c \in Conns : job'[c] = NoJob
    BY <1>2, ClosedIsEmpty DEF Connect, cacheVars, threadVars
  <2> QED  BY <2>1 DEF SettledInv, NoJob
<1>3. CASE Disconnect
  <2>1. /\ UNCHANGED <<job, def, altered>>
        /\ \A i \in DOMAIN info' : i \in DOMAIN info /\ info'[i] = info[i]
    BY <1>3 DEF Disconnect, threadVars, serverVars
  <2> QED  BY <2>1 DEF SettledInv, Settled
<1>4. ASSUME NEW col \in Columns, Alter(col) PROVE SettledInv'
  <2>1. /\ UNCHANGED <<info, job>> /\ altered' = altered \cup {col}
        /\ \A o \in Columns \ {col} : def'[o] = def[o]
    BY <1>4 DEF Alter, TypeInv, cacheVars, threadVars
  <2>2. Settled' = Settled \ {col} /\ Settled \subseteq Columns
    BY <2>1 DEF Settled, Named
  <2> QED  BY <2>1, <2>2 DEF SettledInv
<1>5. ASSUME NEW c \in Conns, QuerySql(c) PROVE SettledInv'
  BY <1>0, <1>5 DEF QuerySql, serverVars, cacheVars, threadVars
<1>6. ASSUME NEW c \in Conns, StartOf(c) PROVE SettledInv'
  <2>1. /\ UNCHANGED <<info, def, altered>>
        /\ \A i \in DOMAIN job'[c].cols : job'[c].meta[i] = def[job'[c].cols[i]]
    BY <1>6 DEF StartOf, Start, TypeInv, serverVars, cacheVars
  <2>2. \A o \in Conns \ {c} : job'[o] = job[o]
    BY <1>6, StepsApart DEF OthersKept
  <2> QED  BY <2>1, <2>2 DEF SettledInv, Settled
<1>7. ASSUME NEW c \in Conns, LockFields(c) PROVE SettledInv'
  BY <1>0, <1>7 DEF LockFields, serverVars
<1>8. ASSUME NEW c \in Conns, FindInfo(c) PROVE SettledInv'
  BY <1>0, <1>8 DEF FindInfo, serverVars
<1>9. ASSUME NEW c \in Conns, NewInfo(c) PROVE SettledInv'
  <2> DEFINE next == job[c].cols[FieldIdx(c)]
  <2>1. next \in Columns /\ NextKey(c) = KeyOf[next] /\ FieldIdx(c) \in DOMAIN job[c].cols
        /\ NextMeta(c) = job[c].meta[FieldIdx(c)]
    BY <1>9, AtField DEF NewInfo, Busy, NextKey, NextMeta
  <2>2. /\ UNCHANGED <<job, def, altered>>
        /\ \A i \in DOMAIN info' : \/ i \in DOMAIN info /\ info'[i] = info[i]
                                   \/ i[1] = KeyOf[next] /\ info'[i] = NextMeta(c)
    BY <1>9, <2>1 DEF NewInfo, serverVars
  <2>3. ASSUME NEW col \in Settled, KeyOf[next] = KeyOf[col] PROVE NextMeta(c) = def[col]
    <3>1. next = col
      BY <2>1, <2>3 DEF Settled, Named
    <3> QED  BY <2>1, <3>1 DEF SettledInv
  <2> HIDE DEF next
  <2> QED  BY <2>2, <2>3 DEF SettledInv, Settled
<1>10. ASSUME NEW c \in Conns, InsertInfo(c) PROVE SettledInv'
  BY <1>0, <1>10 DEF InsertInfo, serverVars
<1>11. ASSUME NEW c \in Conns, CreateField(c) PROVE SettledInv'
  BY <1>0, <1>11 DEF CreateField, serverVars, cacheVars
<1>12. ASSUME NEW c \in Conns, End(c) PROVE SettledInv'
  <2>1. UNCHANGED <<info, def, altered>> /\ job'[c] = NoJob
    BY <1>12 DEF End, Release, TypeInv, serverVars, cacheVars
  <2>2. \A o \in Conns \ {c} : job'[o] = job[o]
    BY <1>12, StepsApart DEF OthersKept
  <2> QED  BY <2>1, <2>2 DEF SettledInv, Settled, NoJob
<1> QED  BY <1>1, <1>2, <1>3, <1>4, <1>5, <1>6, <1>7, <1>8, <1>9, <1>10, <1>11, <1>12, StepCases

LEMMA CellPreserved ==
    ASSUME IInv, [Next]_vars
    PROVE  CellInv'
<1> USE DEF IInv
<1>0. ASSUME UNCHANGED <<job, recs>>, altered \subseteq altered' PROVE CellInv'
  BY <1>0 DEF CellInv, CellOf, Settled
<1>a. ASSUME NEW c \in Conns, OthersKept(c), CellOf(c)', UNCHANGED altered PROVE CellInv'
  <2>1. \A o \in Conns \ {c} : CellOf(o)'
    BY <1>a DEF OthersKept, CellInv, CellOf, Settled
  <2> QED  BY <1>a, <2>1 DEF CellInv
<1>1. CASE UNCHANGED vars
  BY <1>0, <1>1 DEF vars, serverVars, threadVars
<1>2. CASE Connect
  <2>1. \A c \in Conns : recs'[c] = <<>>
    BY <1>2, ClosedIsEmpty DEF Connect, threadVars
  <2> QED  BY <2>1 DEF CellInv, CellOf
<1>3. CASE Disconnect
  BY <1>0, <1>3 DEF Disconnect, serverVars, threadVars
<1>4. ASSUME NEW col \in Columns, Alter(col) PROVE CellInv'
  BY <1>0, <1>4 DEF Alter, threadVars
<1>5. ASSUME NEW c \in Conns, QuerySql(c) PROVE CellInv'
  BY <1>0, <1>5 DEF QuerySql, serverVars, threadVars
<1>6. ASSUME NEW c \in Conns, StartOf(c) PROVE CellInv'
  <2>1. recs'[c] \in {<<>>, <<<<>>>>} /\ UNCHANGED altered
    BY <1>6 DEF StartOf, Start, TypeInv, serverVars
  <2>2. \A r \in DOMAIN recs'[c] : DOMAIN recs'[c][r] = {}
    BY <2>1
  <2> QED  BY <1>6, <1>a, <2>1, <2>2, StepsApart DEF CellOf
<1>7. ASSUME NEW c \in Conns, LockFields(c) PROVE CellInv'
  BY <1>0, <1>7 DEF LockFields, serverVars
<1>8. ASSUME NEW c \in Conns, FindInfo(c) PROVE CellInv'
  BY <1>0, <1>8 DEF FindInfo, serverVars
<1>9. ASSUME NEW c \in Conns, NewInfo(c) PROVE CellInv'
  BY <1>0, <1>9 DEF NewInfo, serverVars
<1>10. ASSUME NEW c \in Conns, InsertInfo(c) PROVE CellInv'
  BY <1>0, <1>10 DEF InsertInfo, serverVars
<1>11. ASSUME NEW c \in Conns, CreateField(c) PROVE CellInv'
  <2> DEFINE next == job[c].cols[FieldIdx(c)]  text == job[c].rows[RowIdx(c)][FieldIdx(c)]
             d == NextMeta(c)
  <2>1. pc[c] = "create" /\ UNCHANGED <<job, altered>>
    BY <1>11 DEF CreateField, serverVars
  <2>2. /\ IsJob(job[c]) /\ FieldIdx(c) \in DOMAIN job[c].cols /\ RowIdx(c) \in DOMAIN job[c].rows
        /\ next \in Columns /\ d \in Definitions[next]
    BY <2>1, AtField DEF Busy
  <2>3. /\ ColLength(c) \in Nat /\ LengthOf[text] <= ColLength(c)
        /\ d = job[c].meta[FieldIdx(c)] /\ text \in Holds[d] \cup {Null}
    BY <2>2, ColumnIsLongest DEF IsJob, NextMeta
  <2>4. next \in Settled => info[found[c]] = d
    <3>1. found[c] \in DOMAIN info /\ found[c][1] = KeyOf[next]
      BY <2>1 DEF FoundInv, FoundOf, CacheInv, NextKey
    <3> QED  BY <2>2, <2>3, <3>1 DEF SettledInv
  <2>5. NewField(c).val = SetValue(info[found[c]], text, ColLength(c))
    BY DEF NewField
  <2>6. next \in Settled => StandsFor(NewField(c).val, d, text)
    <3> HIDE DEF next, text, d
    <3> QED  BY <2>2, <2>3, <2>4, <2>5, SetValueStands
  <2>7. ASSUME NEW r \in DOMAIN recs'[c], NEW i \in DOMAIN recs'[c][r], job[c].cols[i] \in Settled
        PROVE  StandsFor(recs'[c][r][i].val, job[c].meta[i], job[c].rows[r][i])
    <3>1. \/ r \in DOMAIN recs[c] /\ i \in DOMAIN recs[c][r] /\ recs'[c][r][i] = recs[c][r][i]
          \/ r = RowIdx(c) /\ i = FieldIdx(c) /\ recs'[c][r][i] = NewField(c)
      <4>1. NothingElse(c)
        BY <1>11, FieldCreated
      <4> QED  BY <4>1 DEF NothingElse
    <3>2. CASE r \in DOMAIN recs[c] /\ i \in DOMAIN recs[c][r] /\ recs'[c][r][i] = recs[c][r][i]
      BY <2>7, <3>2 DEF CellInv, CellOf
    <3>3. CASE r = RowIdx(c) /\ i = FieldIdx(c) /\ recs'[c][r][i] = NewField(c)
      <4> HIDE DEF next, text, d
      <4>1. next \in Settled /\ text = job[c].rows[r][i] /\ d = job[c].meta[i]
        BY <2>3, <2>7, <3>3 DEF next, text
      <4> QED  BY <2>6, <3>3, <4>1
    <3> QED  BY <3>1, <3>2, <3>3
  <2>8. CellOf(c)'
    BY <2>1, <2>7 DEF CellOf, Settled
  <2> QED  BY <1>11, <1>a, <2>1, <2>8, StepsApart
<1>12. ASSUME NEW c \in Conns, End(c) PROVE CellInv'
  <2>1. recs'[c] = <<>> /\ UNCHANGED altered
    BY <1>12 DEF End, Release, TypeInv, serverVars
  <2> QED  BY <1>12, <1>a, <2>1, StepsApart DEF CellOf
<1> QED  BY <1>1, <1>2, <1>3, <1>4, <1>5, <1>6, <1>7, <1>8, <1>9, <1>10, <1>11, <1>12, StepCases

\* The invariant holds in every state that any number of connections can reach.
THEOREM Invariance == Spec => []IInv
<1>1. IInv /\ [Next]_vars => IInv'
  BY TypePreserved, LockPreserved, PlacePreserved, CachePreserved, FoundPreserved,
     StatusPreserved, SettledPreserved, CellPreserved DEF IInv
<1> QED  BY <1>1, InitInv, PTL DEF Spec

-----------------------------------------------------------------------------
(* What follows.                                                           *)

\* Every variable has its type, and _fieldLock one owner at most (Database.cpp's
\* lock_guard in QueryDBFieldInfo).
THEOREM TypeCorrect == Spec => []TypeOK
<1>1. ASSUME IInv PROVE TypeOK
  <2>1. \A c \in Conns : job[c] = NoJob \/ job[c].cols \in Selections
    BY <1>1 DEF IInv, TypeInv, IsJob
  <2>2. ASSUME NEW c \in Conns PROVE Len(recs[c]) <= Len(job[c].rows)
    <3>1. DOMAIN recs[c] = 1..Len(recs[c]) /\ Len(recs[c]) \in Nat
      BY <1>1, LenProperties DEF IInv, TypeInv
    <3>2. DOMAIN job[c].rows = 1..Len(job[c].rows) /\ Len(job[c].rows) \in Nat
      <4>1. CASE job[c] = NoJob
        BY <4>1 DEF NoJob
      <4>2. CASE IsJob(job[c])
        BY <4>2, LenProperties DEF IsJob
      <4> QED  BY <1>1, <4>1, <4>2 DEF IInv, TypeInv
    <3>3. DOMAIN recs[c] \subseteq DOMAIN job[c].rows
      BY <1>1 DEF IInv, PlaceInv, PlaceOf
    <3>4. CASE Len(recs[c]) = 0
      BY <3>2, <3>4
    <3>5. CASE Len(recs[c]) # 0
      <4>1. Len(recs[c]) \in DOMAIN recs[c]
        BY <3>1, <3>5
      <4> QED  BY <3>2, <3>3, <4>1
    <3> QED  BY <3>4, <3>5
  <2>3. Cardinality(lock) <= 1
    <3>1. CASE lock = {}
      BY <3>1, FS_EmptySet
    <3>2. CASE lock # {}
      <4>1. PICK c \in lock : \A a \in lock : a = c
        BY <1>1, <3>2 DEF IInv, LockInv
      <4>2. lock = {c}
        BY <4>1
      <4> QED  BY <4>2, FS_Singleton
    <3> QED  BY <3>1, <3>2
  <2> QED  BY <1>1, <2>1, <2>2, <2>3 DEF IInv, TypeInv, TypeOK
<1> QED  BY <1>1, Invariance, PTL

\* QueryDBFieldInfo loses no info and gives every connection the cache's, however
\* their lookups of a new column interleave.
THEOREM InfosAreOwned == Spec => []InfoOwned
<1>1. ASSUME IInv PROVE InfoOwned
  BY <1>1 DEF IInv, CacheInv, FoundInv, FoundOf, InfoOwned
<1> QED  BY <1>1, Invariance, PTL

\* No step changes a DBFieldInfo that stays in existence: BaseField may read its
\* own without the lock.
THEOREM InfosAreConstant == Spec => InfoNeverChanges
<1>1. ASSUME IInv, [Next]_vars, NEW i \in (DOMAIN info) \cap (DOMAIN info')
      PROVE  info'[i] = info[i]
  <2>1. CASE Disconnect
    BY <1>1, <2>1 DEF Disconnect
  <2>2. ASSUME NEW c \in Conns, NewInfo(c) PROVE info'[i] = info[i]
    <3>1. PICK n \in 1..MaxInfos :
            /\ \A m \in 1..n : <<NextKey(c), m>> \in DOMAIN info <=> m < n
            /\ info' = [j \in (DOMAIN info) \cup {<<NextKey(c), n>>} |->
                          IF j = <<NextKey(c), n>> THEN NextMeta(c) ELSE info[j]]
      BY <2>2 DEF NewInfo
    <3>2. <<NextKey(c), n>> \notin DOMAIN info
      <4>1. n \in 1..n /\ ~(n < n)
        OBVIOUS
      <4> QED  BY <3>1, <4>1
    <3> QED  BY <1>1, <3>1, <3>2
  <2>3. ASSUME UNCHANGED info PROVE info'[i] = info[i]
    BY <2>3
  <2>4. UNCHANGED vars \/ Connect \/ (\E col \in Columns : Alter(col)) => UNCHANGED info
    BY DEF vars, cacheVars, Connect, Alter
  <2>5. ASSUME NEW c \in Conns,
               \/ QuerySql(c) \/ StartOf(c) \/ LockFields(c) \/ FindInfo(c)
               \/ InsertInfo(c) \/ CreateField(c) \/ End(c)
        PROVE  UNCHANGED info
    BY <2>5 DEF QuerySql, StartOf, Start, LockFields, FindInfo, InsertInfo, CreateField, End,
                Release, cacheVars
  <2> QED  BY <1>1, <2>1, <2>2, <2>3, <2>4, <2>5, StepCases DEF IInv
<1>2. IInv /\ [Next]_vars => [\A i \in (DOMAIN info) \cap (DOMAIN info') : info'[i] = info[i]]_vars
  BY <1>1
<1> QED  BY <1>2, Invariance, PTL DEF Spec, InfoNeverChanges

\* However a call ends, MYSQL_RES is freed and the connection in step with the
\* server, unless a selection went through the boolean Query.
THEOREM ConnectionsAreClean == Spec => []BetweenCalls
<1>1. ASSUME IInv PROVE BetweenCalls
  BY <1>1 DEF IInv, StatusInv, BetweenCalls, Busy
<1> QED  BY <1>1, Invariance, PTL

\* A result has its records, and each field of a settled column stands for what
\* the server sent, whichever connection made its info, when and from which result.
THEOREM RecordsReadBack == Spec => []ReadsBack
<1>1. ASSUME IInv PROVE ReadsBack
  BY <1>1 DEF IInv, PlaceInv, PlaceOf, CellInv, CellOf, ReadsBack
<1> QED  BY <1>1, Invariance, PTL
=============================================================================
