---------------------------- MODULE RecordsProofs ----------------------------
(***************************************************************************)
(* Proofs about Records, for any number of records, fields, values and     *)
(* tables.  The types are right for every table.  That a record keeps what *)
(* the program has set, and that a statement hits the row its record is    *)
(* about, holds where the one field of BuildCondition is the primary key   *)
(* (NamesRows); of a key of two columns it does not, as the run            *)
(* records_composite shows.                                                *)
(*                                                                         *)
(* The invariant behind both is that a record which stands for a row has   *)
(* that row's key among its values (OwnInv): then `where k=v` finds this   *)
(* row and, keys being unique (UniqueInv), no other.                       *)
(***************************************************************************)
EXTENDS Records, TLAPS

\* A table with a primary key of one column, which SetKeyIdx finds, or without any.
NamesRows(s) ==
    \/ s.pri = {} /\ s.auto = None
    \/ \E k \in Fields : s.pri = {k} /\ s.auto \in {k, None}

KeyPresent == schema.pri # {}

\* The server keeps primary keys apart, and a table without one gets no rows here.
UniqueInv ==
    /\ \A a, b \in table : PrimaryKey(a) = PrimaryKey(b) => a = b
    /\ ~KeyPresent => table = {}

\* The primary key of a record's row is among its values.
OwnInv ==
    \A r \in Handles : own[r] # NoRow =>
        KeyPresent /\ own[r] = PrimaryKey(val[r])

IInv == TypeOK /\ NamesRows(schema) /\ UniqueInv /\ OwnInv /\ Synced

-----------------------------------------------------------------------------
(* Types.                                                                  *)

OwnKeys == {PrimaryKey(row) : row \in Row} \cup {NoRow}

\* A row's key is one a record may be of.
LEMMA KeyIsAKey == ASSUME NEW row \in Row PROVE PrimaryKey(row) \in OwnKeys
  BY DEF OwnKeys

\* `set f=v, ...` gives the set fields of the record and leaves the rest alone.
LEMMA WrittenRow ==
    ASSUME NEW row \in Row, NEW v \in Row, NEW S \in SUBSET Fields
    PROVE  /\ Written(row, Restrict(v, S)) \in Row
           /\ \A f \in S : Written(row, Restrict(v, S))[f] = v[f]
           /\ \A f \in Fields \ S : Written(row, Restrict(v, S))[f] = row[f]
  BY DEF Written, Restrict, Row

\* A record read is of the types of a record.
LEMMA BecomeTyped ==
    ASSUME TypeOK, NEW r \in Handles, NEW m \in {"none", "read", "edit"},
           NEW row \in Row, NEW key \in OwnKeys, Become(r, m, row, key)
    PROVE  TypeOK'
  <1>1. UNCHANGED <<schema, table>> BY DEF Become
  <1>2. mode' \in [Handles -> {"none", "read", "edit"}] BY DEF TypeOK, Become
  <1>3. val' \in [Handles -> Row] BY DEF TypeOK, Become
  <1>4. changed' \in [Handles -> SUBSET Fields] BY DEF TypeOK, Become
  <1>5. OwnKeys' = OwnKeys BY <1>1 DEF OwnKeys, PrimaryKey, Restrict
  <1>6. own' \in [Handles -> OwnKeys] BY DEF TypeOK, Become, OwnKeys
  <1>7. stale' \in [Handles -> SUBSET Fields] BY DEF TypeOK, Become
  <1> QED BY <1>1, <1>2, <1>3, <1>4, <1>5, <1>6, <1>7 DEF TypeOK, OwnKeys

\* What somebody else's statement makes stale are fields.
LEMMA MarkTyped ==
    ASSUME TypeOK, NEW key, NEW S \in SUBSET Fields, NEW r, MarkStale(key, S, r)
    PROVE  stale' \in [Handles -> SUBSET Fields]
  BY DEF TypeOK, MarkStale

\* The types of the variables no statement touches, the rest being typed.
LEMMA StatementTyped ==
    ASSUME TypeOK, UNCHANGED <<schema, mode, val>>,
           table' \subseteq Row, changed' \in [Handles -> SUBSET Fields],
           own' \in [Handles -> OwnKeys], stale' \in [Handles -> SUBSET Fields]
    PROVE  TypeOK'
  <1>1. OwnKeys' = OwnKeys BY DEF OwnKeys, PrimaryKey, Restrict
  <1> QED BY <1>1 DEF TypeOK, OwnKeys

LEMMA TypeStep == TypeOK /\ [Next]_vars => TypeOK'
  <1> SUFFICES ASSUME TypeOK, [Next]_vars PROVE TypeOK'
    OBVIOUS
  <1>0. /\ schema \in Schemas /\ table \subseteq Row
        /\ mode \in [Handles -> {"none", "read", "edit"}] /\ val \in [Handles -> Row]
        /\ changed \in [Handles -> SUBSET Fields] /\ own \in [Handles -> OwnKeys]
        /\ stale \in [Handles -> SUBSET Fields]
    BY DEF TypeOK, OwnKeys
  <1>1. CASE UNCHANGED vars
    BY <1>1 DEF vars, TypeOK, PrimaryKey, Restrict
  <1>2. ASSUME NEW r \in Handles, MakeDefRecord(r) PROVE TypeOK'
    <2>1. [f \in Fields |-> 0] \in Row
      BY ConstantsAssumption DEF Row, Vals
    <2> QED BY <1>2, <2>1, BecomeTyped DEF MakeDefRecord, OwnKeys
  <1>3. ASSUME NEW r \in Handles, NEW m \in {"read", "edit"}, Query(r, m) PROVE TypeOK'
    BY <1>0, <1>3, BecomeTyped, KeyIsAKey DEF Query
  <1>4. ASSUME NEW r \in Handles, NEW f \in Fields, NEW v \in Vals, Set(r, f, v)
        PROVE  TypeOK'
    <2>1. val' \in [Handles -> Row] BY <1>0, <1>4 DEF Set, Row
    <2>2. changed' \in [Handles -> SUBSET Fields] BY <1>0, <1>4 DEF Set
    <2>3. stale' \in [Handles -> SUBSET Fields] BY <1>0, <1>4 DEF Set
    <2>4. UNCHANGED <<schema, table, mode, own>> BY <1>4 DEF Set
    <2>5. OwnKeys' = OwnKeys BY <2>4 DEF OwnKeys, PrimaryKey, Restrict
    <2> QED BY <1>0, <2>1, <2>2, <2>3, <2>4, <2>5 DEF TypeOK, OwnKeys
  <1>5. ASSUME NEW r \in Handles, Insert(r) PROVE TypeOK'
    <2>0. UNCHANGED <<schema, mode, val, changed>> BY <1>5 DEF Insert
    <2>1. PICK row \in NewRow(BuildOperation(r)), answered \in BOOLEAN :
              /\ table' = table \cup {row}
              /\ \/ /\ own' = [own EXCEPT ![r] = PrimaryKey(row)]
                    /\ stale' = [q \in Handles |->
                                   IF q = r THEN Fields \ changed[r]
                                   ELSE IF own[q] = PrimaryKey(row)
                                     THEN Fields \ changed[q] ELSE stale[q]]
                 \/ UNCHANGED own /\ MarkStale(PrimaryKey(row), Fields, None)
      BY <1>5 DEF Insert
    <2>2. row \in Row BY DEF NewRow
    <2>3. own' \in [Handles -> OwnKeys] BY <1>0, <2>1, <2>2, KeyIsAKey
    <2>4. stale' \in [Handles -> SUBSET Fields]
      <3>1. CASE UNCHANGED own /\ MarkStale(PrimaryKey(row), Fields, None)
        BY <3>1, MarkTyped
      <3> QED BY <1>0, <2>1, <3>1
    <2> QED BY <1>0, <2>0, <2>1, <2>2, <2>3, <2>4, StatementTyped
  <1>6. ASSUME NEW r \in Handles, Delete(r) PROVE TypeOK'
    BY <1>0, <1>6, StatementTyped DEF Delete
  <1>7. ASSUME NEW r \in Handles, Update(r) PROVE TypeOK'
    <2>0. UNCHANGED <<schema, mode, val, own>> BY <1>7 DEF Update
    <2>1. PICK row \in BuildCondition(r), answered \in BOOLEAN :
              /\ table' = (table \ {row}) \cup {Written(row, BuildOperation(r))}
              /\ MarkStale(PrimaryKey(row), DOMAIN BuildOperation(r), r)
              /\ changed' = changed \/ ClsEditFlag(r)
      BY <1>7 DEF Update
    <2>2. row \in Row BY <1>0 DEF BuildCondition
    <2>3. table' \subseteq Row
      BY <1>0, <2>1, <2>2, WrittenRow DEF BuildOperation
    <2>4. DOMAIN BuildOperation(r) = changed[r] BY DEF BuildOperation, Restrict
    <2>5. stale' \in [Handles -> SUBSET Fields] BY <1>0, <2>1, <2>4, MarkTyped
    <2>6. changed' \in [Handles -> SUBSET Fields] BY <1>0, <2>1 DEF ClsEditFlag
    <2> QED BY <1>0, <2>0, <2>3, <2>5, <2>6, StatementTyped
  <1>8. ASSUME NEW r \in Handles, UpdateNoRow(r) PROVE TypeOK'
    BY <1>0, <1>8, StatementTyped DEF UpdateNoRow, ClsEditFlag
  <1>9. ASSUME NEW r \in Handles, UpdateFails(r) PROVE TypeOK'
    BY <1>1, <1>9 DEF UpdateFails
  <1> QED BY <1>1, <1>2, <1>3, <1>4, <1>5, <1>6, <1>7, <1>8, <1>9 DEF Next

LEMMA TypeInit == Init => TypeOK
  <1> SUFFICES ASSUME Init PROVE TypeOK
    OBVIOUS
  <1>1. val \in [Handles -> Row]
    BY ConstantsAssumption DEF Init, Row, Vals
  <1> QED BY <1>1 DEF Init, TypeOK

\* Every variable has its type, for every table, also one with a key of more
\* columns: the records hold values of the fields, the flags are of fields.
THEOREM TypeCorrect == Spec => []TypeOK
  BY TypeInit, TypeStep, PTL DEF Spec

-----------------------------------------------------------------------------
(* Keys of one column.                                                     *)

LEMMA NoneIsNoField == None \notin Fields
  BY DEF None, Fields

\* SetKeyIdx finds the column of a primary key of one column.
LEMMA KeyFound ==
    ASSUME TypeOK, NamesRows(schema)
    PROVE  /\ KeyPresent => KeyIdx \in Fields /\ schema.pri = {KeyIdx}
           /\ ~KeyPresent => KeyIdx = None
  <1>1. CASE schema.pri = {} /\ schema.auto = None
    BY <1>1 DEF KeyPresent, KeyIdx
  <1>2. ASSUME NEW k \in Fields, schema.pri = {k} /\ schema.auto \in {k, None}
        PROVE  KeyIdx = k
    <2>1. Max({k}) = k BY DEF Max, Fields
    <2> QED BY <1>2, <2>1, NoneIsNoField DEF KeyIdx
  <1> QED BY <1>1, <1>2 DEF NamesRows, KeyPresent

\* Two rows have one key when they agree on that column: what `where k=v`
\* compares is what the server keeps apart.
LEMMA SameKey ==
    ASSUME TypeOK, NamesRows(schema), KeyPresent, NEW a \in Row, NEW b \in Row
    PROVE  PrimaryKey(a) = PrimaryKey(b) <=> a[KeyIdx] = b[KeyIdx]
  <1>1. schema.pri = {KeyIdx} BY KeyFound
  <1>2. PrimaryKey(a) = [f \in {KeyIdx} |-> a[f]] /\ PrimaryKey(b) = [f \in {KeyIdx} |-> b[f]]
    BY <1>1 DEF PrimaryKey, Restrict
  <1>3. PrimaryKey(a)[KeyIdx] = a[KeyIdx] /\ PrimaryKey(b)[KeyIdx] = b[KeyIdx]
    BY <1>2
  <1> QED BY <1>2, <1>3

LEMMA NoRowIsNoKey == ASSUME TypeOK, NEW row PROVE PrimaryKey(row) # NoRow
  <1>1. schema.pri \subseteq Fields BY ConstantsAssumption DEF TypeOK
  <1>2. DOMAIN PrimaryKey(row) = schema.pri BY DEF PrimaryKey, Restrict
  <1>3. DOMAIN NoRow = {None} BY DEF NoRow
  <1> QED BY <1>1, <1>2, <1>3, NoneIsNoField

\* The row a record stands for is the row that its condition names.
LEMMA OwnRow ==
    ASSUME IInv, NEW r \in Handles, NEW row \in table, own[r] = PrimaryKey(row)
    PROVE  KeyPresent /\ row[KeyIdx] = val[r][KeyIdx]
  <1>1. row \in Row /\ val[r] \in Row BY DEF IInv, TypeOK
  <1>2. own[r] # NoRow BY NoRowIsNoKey DEF IInv
  <1>3. KeyPresent /\ own[r] = PrimaryKey(val[r]) BY <1>2 DEF IInv, OwnInv
  <1> QED BY <1>1, <1>3, SameKey DEF IInv

\* `where k=v` finds one row.
LEMMA OneRowFound ==
    ASSUME IInv, KeyPresent, NEW r \in Handles,
           NEW a \in BuildCondition(r), NEW b \in BuildCondition(r)
    PROVE  a = b
  <1>1. a \in table /\ b \in table /\ a[KeyIdx] = b[KeyIdx] BY DEF BuildCondition
  <1>2. a \in Row /\ b \in Row BY <1>1 DEF IInv, TypeOK
  <1> QED BY <1>1, <1>2, SameKey DEF IInv, UniqueInv

\* A record without a key has no statement.
LEMMA StatementHasKey ==
    ASSUME IInv, KeyIdx # None PROVE KeyPresent
  BY KeyFound DEF IInv

\* An update leaves the row its key.
LEMMA UpdateKeepsKey ==
    ASSUME IInv, KeyPresent, NEW r \in Handles, NEW row \in BuildCondition(r)
    PROVE  /\ Written(row, BuildOperation(r)) \in Row
           /\ PrimaryKey(Written(row, BuildOperation(r))) = PrimaryKey(row)
           /\ \A f \in changed[r] : Written(row, BuildOperation(r))[f] = val[r][f]
           /\ \A f \in Fields \ changed[r] : Written(row, BuildOperation(r))[f] = row[f]
  <1> DEFINE new == Written(row, BuildOperation(r))
  <1>1. row \in Row /\ val[r] \in Row /\ changed[r] \in SUBSET Fields
    BY DEF IInv, TypeOK, BuildCondition
  <1>2. /\ new \in Row
        /\ \A f \in changed[r] : new[f] = val[r][f]
        /\ \A f \in Fields \ changed[r] : new[f] = row[f]
    BY <1>1, WrittenRow DEF BuildOperation
  <1>3. KeyIdx \in Fields BY KeyFound DEF IInv
  <1>4. row[KeyIdx] = val[r][KeyIdx] BY DEF BuildCondition
  <1>5. new[KeyIdx] = row[KeyIdx] BY <1>2, <1>3, <1>4
  <1>6. PrimaryKey(new) = PrimaryKey(row)
    <2> HIDE DEF new
    <2> QED BY <1>1, <1>2, <1>5, SameKey DEF IInv
  <1> QED BY <1>2, <1>6

-----------------------------------------------------------------------------
(* The steps.  The table's keys never change, so the invariants of the new *)
(* state are stated with the keys of the old one.                          *)

LEMMA SchemaStays == [Next]_vars => schema' = schema
  BY DEF Next, vars, MakeDefRecord, Query, Become, Set, Insert, Delete, Update,
         UpdateNoRow, UpdateFails

LEMMA UniqueAgain ==
    ASSUME schema' = schema,
           \A a, b \in table' : PrimaryKey(a) = PrimaryKey(b) => a = b,
           ~KeyPresent => table' = {}
    PROVE  UniqueInv'
  BY DEF UniqueInv, KeyPresent, PrimaryKey

LEMMA OwnAgain ==
    ASSUME schema' = schema,
           \A q \in Handles : own'[q] # NoRow =>
               KeyPresent /\ own'[q] = PrimaryKey(val'[q])
    PROVE  OwnInv'
  BY DEF OwnInv, KeyPresent, PrimaryKey, NoRow

LEMMA SyncedAgain ==
    ASSUME schema' = schema,
           \A q \in Handles, o \in table' :
               own'[q] = PrimaryKey(o) =>
                   \A f \in Fields \ (changed'[q] \cup stale'[q]) : val'[q][f] = o[f]
    PROVE  Synced'
  BY DEF Synced, PrimaryKey

\* The server keeps the rows apart, and an update keeps the row's key.
LEMMA UniqueStep == IInv /\ [Next]_vars => UniqueInv'
  <1> SUFFICES ASSUME IInv, [Next]_vars PROVE UniqueInv'
    OBVIOUS
  <1>0. schema' = schema BY SchemaStays
  <1>1. CASE table' = table
    BY <1>0, <1>1, UniqueAgain DEF IInv, UniqueInv
  <1>2. ASSUME NEW r \in Handles, Insert(r) PROVE UniqueInv'
    <2>1. PICK row \in NewRow(BuildOperation(r)) :
              Unique(row, table) /\ table' = table \cup {row}
      BY <1>2 DEF Insert
    <2>2. KeyPresent BY <1>2, StatementHasKey DEF Insert, BuildInsertSql
    <2>3. \A a, b \in table' : PrimaryKey(a) = PrimaryKey(b) => a = b
      BY <2>1 DEF Unique, IInv, UniqueInv
    <2> QED BY <1>0, <2>2, <2>3, UniqueAgain
  <1>3. ASSUME NEW r \in Handles, Delete(r) PROVE UniqueInv'
    <2>1. table' \subseteq table BY <1>3 DEF Delete
    <2> QED BY <1>0, <2>1, UniqueAgain DEF IInv, UniqueInv
  <1>4. ASSUME NEW r \in Handles, Update(r) PROVE UniqueInv'
    <2> DEFINE New(row) == Written(row, BuildOperation(r))
    <2>1. PICK row \in BuildCondition(r) :
              Unique(New(row), table \ {row}) /\ table' = (table \ {row}) \cup {New(row)}
      BY <1>4 DEF Update
    <2>2. KeyPresent BY <1>4, StatementHasKey DEF Update, MayUpdate, BuildUpdateSql
    <2> HIDE DEF New
    <2>3. \A a, b \in table' : PrimaryKey(a) = PrimaryKey(b) => a = b
      BY <2>1 DEF Unique, IInv, UniqueInv
    <2> QED BY <1>0, <2>2, <2>3, UniqueAgain
  <1>5. table' = table \/ \E r \in Handles : Insert(r) \/ Delete(r) \/ Update(r)
    BY DEF Next, vars, MakeDefRecord, Query, Become, Set, UpdateNoRow, UpdateFails
  <1> QED BY <1>1, <1>2, <1>3, <1>4, <1>5

\* A record's key is that of the row it was read or inserted as, and Set is
\* not asked to change it.
LEMMA OwnStep == IInv /\ [Next]_vars => OwnInv'
  <1> SUFFICES ASSUME IInv, [Next]_vars PROVE OwnInv'
    OBVIOUS
  <1>0. /\ schema' = schema
        /\ own \in [Handles -> OwnKeys] /\ val \in [Handles -> Row] /\ table \subseteq Row
        /\ \A q \in Handles : own[q] # NoRow => KeyPresent /\ own[q] = PrimaryKey(val[q])
    BY SchemaStays DEF IInv, TypeOK, OwnKeys, OwnInv
  <1>1. CASE UNCHANGED <<own, val>>
    BY <1>0, <1>1, OwnAgain
  <1>2. ASSUME NEW r \in Handles, MakeDefRecord(r) PROVE OwnInv'
    BY <1>0, <1>2, OwnAgain DEF MakeDefRecord, Become
  <1>3. ASSUME NEW r \in Handles, NEW m \in {"read", "edit"}, Query(r, m) PROVE OwnInv'
    <2>1. PICK row \in table : Become(r, m, row, PrimaryKey(row)) BY <1>3 DEF Query
    <2>2. KeyPresent BY <2>1 DEF IInv, UniqueInv
    <2> QED BY <1>0, <2>1, <2>2, OwnAgain DEF Become
  <1>4. ASSUME NEW r \in Handles, NEW f \in Fields, NEW v \in Vals, Set(r, f, v)
        PROVE  OwnInv'
    <2>1. own' = own /\ \A q \in Handles \ {r} : val'[q] = val[q]
      BY <1>0, <1>4 DEF Set
    <2>2. \A g \in Fields \ {f} : val'[r][g] = val[r][g]
      BY <1>0, <1>4 DEF Set, Row
    <2>3. own[r] # NoRow => f \notin schema.pri BY <1>4 DEF Set
    <2>4. schema.pri \subseteq Fields BY ConstantsAssumption DEF IInv, TypeOK
    <2>5. own[r] # NoRow => PrimaryKey(val'[r]) = PrimaryKey(val[r])
      BY <2>2, <2>3, <2>4 DEF PrimaryKey, Restrict
    <2> QED BY <1>0, <2>1, <2>5, OwnAgain
  <1>5. ASSUME NEW r \in Handles, Insert(r) PROVE OwnInv'
    <2>1. KeyPresent BY <1>5, StatementHasKey DEF Insert, BuildInsertSql
    <2>2. PICK row \in NewRow(BuildOperation(r)) :
              \/ row[KeyIdx] = val[r][KeyIdx] /\ own' = [own EXCEPT ![r] = PrimaryKey(row)]
              \/ own' = own
      BY <1>5 DEF Insert
    <2>3. val' = val BY <1>5 DEF Insert
    <2>4. row \in Row /\ val[r] \in Row BY <1>0 DEF NewRow
    <2>5. row[KeyIdx] = val[r][KeyIdx] => PrimaryKey(row) = PrimaryKey(val[r])
      BY <2>1, <2>4, SameKey DEF IInv
    <2> QED BY <1>0, <2>1, <2>2, <2>3, <2>5, OwnAgain
  <1>6. UNCHANGED <<own, val>>
        \/ \E r \in Handles :
             \/ MakeDefRecord(r) \/ Insert(r)
             \/ \E m \in {"read", "edit"} : Query(r, m)
             \/ \E f \in Fields, v \in Vals : Set(r, f, v)
    BY DEF Next, vars, Delete, Update, UpdateNoRow, UpdateFails
  <1> QED BY <1>1, <1>2, <1>3, <1>4, <1>5, <1>6

\* An insert makes the other columns of every record of the row stale.
LEMMA InsertSynced ==
    ASSUME IInv, NEW r \in Handles, Insert(r) PROVE Synced'
  <1>0. /\ UNCHANGED <<schema, mode, val, changed>>
        /\ own \in [Handles -> OwnKeys] /\ stale \in [Handles -> SUBSET Fields]
    BY DEF Insert, IInv, TypeOK, OwnKeys
  <1>1. PICK row \in NewRow(BuildOperation(r)), answered \in BOOLEAN :
            /\ Unique(row, table) /\ table' = table \cup {row}
            /\ \/ /\ own' = [own EXCEPT ![r] = PrimaryKey(row)]
                  /\ stale' = [q \in Handles |->
                                 IF q = r THEN Fields \ changed[r]
                                 ELSE IF own[q] = PrimaryKey(row)
                                   THEN Fields \ changed[q] ELSE stale[q]]
               \/ UNCHANGED own /\ MarkStale(PrimaryKey(row), Fields, None)
    BY DEF Insert
  <1>2. None \notin Handles BY ConstantsAssumption
  <1> DEFINE key == PrimaryKey(row)
             Covered(q) == own'[q] = key /\ Fields \ (changed[q] \cup stale'[q]) = {}
             Spared(q) == own[q] # key /\ own'[q] = own[q] /\ stale'[q] = stale[q]
  <1>3. ASSUME NEW q \in Handles PROVE Covered(q) \/ Spared(q)
    <2> HIDE DEF key
    <2>1. CASE UNCHANGED own /\ MarkStale(key, Fields, None)
      <3>1. stale'[q] = IF own[q] = key THEN stale[q] \cup (Fields \ changed[q]) ELSE stale[q]
        BY <1>2, <2>1 DEF MarkStale
      <3> QED BY <2>1, <3>1
    <2>2. CASE /\ own' = [own EXCEPT ![r] = key]
               /\ stale' = [p \in Handles |->
                              IF p = r THEN Fields \ changed[r]
                              ELSE IF own[p] = key THEN Fields \ changed[p] ELSE stale[p]]
      <3>1. own'[q] = IF q = r THEN key ELSE own[q] BY <1>0, <2>2
      <3>2. stale'[q] = IF q = r \/ own[q] = key THEN Fields \ changed[q] ELSE stale[q]
        BY <2>2
      <3> QED BY <3>1, <3>2
    <2> QED BY <1>1, <2>1, <2>2 DEF key
  <1>4. ASSUME NEW q \in Handles, NEW o \in table', own'[q] = PrimaryKey(o),
               NEW f \in Fields \ (changed'[q] \cup stale'[q])
        PROVE  val'[q][f] = o[f]
    <2>1. f \in Fields \ (changed[q] \cup stale'[q]) BY <1>0
    <2>2. Spared(q) BY <1>3, <2>1
    <2>3. o \in table BY <1>1, <1>4, <2>2
    <2> QED BY <1>0, <1>4, <2>1, <2>2, <2>3 DEF IInv, Synced
  <1> QED BY <1>0, <1>4, SyncedAgain

\* An update writes what the record has set, and the records of the same row
\* that have not set it become stale there.
LEMMA UpdateSynced ==
    ASSUME IInv, NEW r \in Handles, Update(r) PROVE Synced'
  <1> DEFINE New(row) == Written(row, BuildOperation(r))
  <1>0. /\ UNCHANGED <<schema, mode, val, own>>
        /\ val \in [Handles -> Row] /\ changed \in [Handles -> SUBSET Fields]
        /\ stale \in [Handles -> SUBSET Fields]
    BY DEF Update, IInv, TypeOK
  <1>1. PICK row \in BuildCondition(r) :
            /\ table' = (table \ {row}) \cup {New(row)}
            /\ MarkStale(PrimaryKey(row), DOMAIN BuildOperation(r), r)
            /\ changed' = changed \/ ClsEditFlag(r)
    BY DEF Update
  <1>2. KeyPresent BY StatementHasKey DEF Update, MayUpdate, BuildUpdateSql
  <1>3. DOMAIN BuildOperation(r) = changed[r] BY DEF BuildOperation, Restrict
  <1>4. /\ PrimaryKey(New(row)) = PrimaryKey(row)
        /\ \A f \in changed[r] : New(row)[f] = val[r][f]
        /\ \A f \in Fields \ changed[r] : New(row)[f] = row[f]
    BY <1>2, UpdateKeepsKey
  <1>5. row \in table BY DEF BuildCondition
  <1>6. \A q \in Handles : stale'[q] = IF own[q] = PrimaryKey(row) /\ q # r
                             THEN stale[q] \cup (changed[r] \ changed[q]) ELSE stale[q]
    BY <1>1, <1>3 DEF MarkStale
  <1>7. \A q \in Handles \ {r} : changed'[q] = changed[q]
    BY <1>0, <1>1 DEF ClsEditFlag
  <1> HIDE DEF New
  <1>8. ASSUME NEW q \in Handles, NEW o \in table', own[q] = PrimaryKey(o),
               NEW f \in Fields \ (changed'[q] \cup stale'[q])
        PROVE  val[q][f] = o[f]
    <2>1. CASE o = New(row)
      <3>1. own[q] = PrimaryKey(row) BY <1>4, <1>8, <2>1
      <3>2. f \notin changed[q] \cup stale[q] => val[q][f] = row[f]
        BY <1>5, <3>1 DEF IInv, Synced
      <3>3. CASE q = r
        BY <1>4, <1>6, <1>8, <2>1, <3>2, <3>3
      <3>4. CASE q # r
        <4>1. f \notin changed[q] \cup stale[q] /\ f \notin changed[r]
          BY <1>6, <1>7, <1>8, <3>1, <3>4
        <4> QED BY <1>4, <2>1, <3>2, <4>1
      <3> QED BY <3>3, <3>4
    <2>2. CASE o # New(row)
      <3>1. o \in table /\ o # row BY <1>1, <1>8, <2>2
      <3>2. q # r
        <4> SUFFICES ASSUME q = r PROVE FALSE
          OBVIOUS
        <4>1. o \in BuildCondition(r) BY <1>8, <3>1, OwnRow DEF BuildCondition
        <4> QED BY <1>2, <3>1, <4>1, OneRowFound
      <3>3. f \notin changed[q] \cup stale[q] BY <1>6, <1>7, <1>8, <3>2
      <3> QED BY <1>8, <3>1, <3>3 DEF IInv, Synced
    <2> QED BY <2>1, <2>2
  <1> QED BY <1>0, <1>8, SyncedAgain

\* What a step does to a record, it does to the row or tells the others.
LEMMA SyncedStep == IInv /\ [Next]_vars => Synced'
  <1> SUFFICES ASSUME IInv, [Next]_vars PROVE Synced'
    OBVIOUS
  <1>0. /\ schema' = schema
        /\ val \in [Handles -> Row] /\ changed \in [Handles -> SUBSET Fields]
        /\ own \in [Handles -> OwnKeys] /\ stale \in [Handles -> SUBSET Fields]
        /\ \A q \in Handles, o \in table :
             own[q] = PrimaryKey(o) =>
                 \A f \in Fields \ (changed[q] \cup stale[q]) : val[q][f] = o[f]
    BY SchemaStays DEF IInv, TypeOK, OwnKeys, Synced
  <1>1. CASE UNCHANGED vars
    BY <1>0, <1>1, SyncedAgain DEF vars
  <1>2. ASSUME NEW r \in Handles, MakeDefRecord(r) PROVE Synced'
    <2>1. /\ table' = table /\ own'[r] = NoRow
          /\ \A q \in Handles \ {r} :
               UNCHANGED <<val[q], changed[q], own[q], stale[q]>>
      BY <1>0, <1>2 DEF MakeDefRecord, Become
    <2>2. \A o \in table : PrimaryKey(o) # NoRow BY NoRowIsNoKey DEF IInv
    <2> QED BY <1>0, <2>1, <2>2, SyncedAgain
  <1>3. ASSUME NEW r \in Handles, NEW m \in {"read", "edit"}, Query(r, m) PROVE Synced'
    <2>1. PICK row \in table : Become(r, m, row, PrimaryKey(row)) BY <1>3 DEF Query
    <2>2. /\ table' = table /\ own'[r] = PrimaryKey(row) /\ val'[r] = row
          /\ \A q \in Handles \ {r} :
               UNCHANGED <<val[q], changed[q], own[q], stale[q]>>
      BY <1>0, <2>1 DEF Become
    <2>3. \A o \in table : PrimaryKey(row) = PrimaryKey(o) => row = o
      BY DEF IInv, UniqueInv
    <2> QED BY <1>0, <2>2, <2>3, SyncedAgain
  <1>4. ASSUME NEW r \in Handles, NEW g \in Fields, NEW v \in Vals, Set(r, g, v)
        PROVE  Synced'
    <2>1. /\ table' = table /\ own' = own
          /\ changed'[r] = changed[r] \cup {g} /\ stale'[r] = stale[r] \ {g}
          /\ \A f \in Fields \ {g} : val'[r][f] = val[r][f]
          /\ \A q \in Handles \ {r} : UNCHANGED <<val[q], changed[q], stale[q]>>
      BY <1>0, <1>4 DEF Set, Row
    <2> QED BY <1>0, <2>1, SyncedAgain
  <1>5. ASSUME NEW r \in Handles, Insert(r) PROVE Synced'
    BY <1>5, InsertSynced
  <1>6. ASSUME NEW r \in Handles, Delete(r) PROVE Synced'
    <2>1. table' \subseteq table /\ UNCHANGED <<val, changed, own, stale>>
      BY <1>6 DEF Delete
    <2> QED BY <1>0, <2>1, SyncedAgain
  <1>7. ASSUME NEW r \in Handles, Update(r) PROVE Synced'
    BY <1>7, UpdateSynced
  <1>8. ASSUME NEW r \in Handles, UpdateNoRow(r) PROVE Synced'
    <2>1. /\ BuildCondition(r) = {} /\ UNCHANGED <<table, val, own, stale>>
          /\ \A q \in Handles \ {r} : changed'[q] = changed[q]
      BY <1>0, <1>8 DEF UpdateNoRow, ClsEditFlag
    <2>2. \A o \in table : own[r] # PrimaryKey(o)
      BY <2>1, OwnRow DEF BuildCondition
    <2> QED BY <1>0, <2>1, <2>2, SyncedAgain
  <1>9. ASSUME NEW r \in Handles, UpdateFails(r) PROVE Synced'
    BY <1>1, <1>9 DEF UpdateFails
  <1> QED BY <1>1, <1>2, <1>3, <1>4, <1>5, <1>6, <1>7, <1>8, <1>9 DEF Next

LEMMA IInvInit == Init /\ NamesRows(schema) => IInv
  BY TypeInit DEF Init, IInv, UniqueInv, OwnInv, Synced, NoRow

LEMMA IInvStep == IInv /\ [Next]_vars => IInv'
  <1> SUFFICES ASSUME IInv, [Next]_vars PROVE IInv'
    OBVIOUS
  <1>1. TypeOK' BY TypeStep DEF IInv
  <1>2. NamesRows(schema)' BY SchemaStays DEF IInv, NamesRows
  <1> QED BY <1>1, <1>2, UniqueStep, OwnStep, SyncedStep DEF IInv

-----------------------------------------------------------------------------
(* The theorems.                                                           *)

\* What one step takes out of the table or changes in it (WritesOwnEditsOnly).
OwnEdit(r, row) ==
    /\ mode[r] = "edit"
    /\ StandsFor(r, row)
    /\ \A new \in table' :
         PrimaryKey(new) = PrimaryKey(row) =>
           \A f \in Fields : new[f] # row[f] => f \in changed[r] /\ new[f] = val[r][f]

OwnEdits == \A row \in table \ table' : \E r \in Handles : OwnEdit(r, row)

\* The record that names a row by its key stands for the row.
LEMMA FoundRowIsOwn ==
    ASSUME IInv, KeyPresent, NEW r \in Handles, mode[r] # "none",
           NEW row \in BuildCondition(r)
    PROVE  StandsFor(r, row)
  <1>1. row[KeyIdx] = val[r][KeyIdx] BY DEF BuildCondition
  <1>2. row \in Row /\ val[r] \in Row BY DEF IInv, TypeOK, BuildCondition
  <1>3. CASE own[r] = NoRow
    BY <1>1, <1>3 DEF StandsFor
  <1>4. CASE own[r] # NoRow
    <2>1. own[r] = PrimaryKey(val[r]) BY <1>4 DEF IInv, OwnInv
    <2>2. PrimaryKey(row) = PrimaryKey(val[r]) BY <1>1, <1>2, SameKey DEF IInv
    <2> QED BY <2>1, <2>2 DEF StandsFor
  <1> QED BY <1>3, <1>4

LEMMA OwnEditsStep == IInv /\ [Next]_vars => OwnEdits
  <1> SUFFICES ASSUME IInv, [Next]_vars PROVE OwnEdits
    OBVIOUS
  <1>1. CASE table \subseteq table'
    BY <1>1 DEF OwnEdits
  <1>2. ASSUME NEW r \in Handles, Delete(r) PROVE OwnEdits
    <2>1. KeyPresent BY <1>2, StatementHasKey DEF Delete, BuildDelSql
    <2>2. PICK row \in BuildCondition(r) : table' = table \ {row} BY <1>2 DEF Delete
    <2>3. mode[r] = "edit" BY <1>2 DEF Delete
    <2>4. StandsFor(r, row) BY <2>1, <2>3, FoundRowIsOwn
    <2>5. row \in table BY DEF BuildCondition
    <2>6. \A new \in table' : PrimaryKey(new) # PrimaryKey(row)
      BY <2>2, <2>5 DEF IInv, UniqueInv
    <2> QED BY <2>2, <2>3, <2>4, <2>6 DEF OwnEdits, OwnEdit
  <1>3. ASSUME NEW r \in Handles, Update(r) PROVE OwnEdits
    <2> DEFINE New(row) == Written(row, BuildOperation(r))
    <2>1. KeyPresent BY <1>3, StatementHasKey DEF Update, MayUpdate, BuildUpdateSql
    <2>2. PICK row \in BuildCondition(r) : table' = (table \ {row}) \cup {New(row)}
      BY <1>3 DEF Update
    <2>3. mode[r] = "edit" BY <1>3 DEF Update, MayUpdate
    <2>4. StandsFor(r, row) BY <2>1, <2>3, FoundRowIsOwn
    <2>5. row \in table BY DEF BuildCondition
    <2>6. /\ \A f \in changed[r] : New(row)[f] = val[r][f]
          /\ \A f \in Fields \ changed[r] : New(row)[f] = row[f]
      BY <2>1, UpdateKeepsKey
    <2> HIDE DEF New
    <2>7. \A new \in table' : PrimaryKey(new) = PrimaryKey(row) => new = New(row)
      BY <2>2, <2>5 DEF IInv, UniqueInv
    <2>8. OwnEdit(r, row) BY <2>3, <2>4, <2>6, <2>7 DEF OwnEdit
    <2> QED BY <2>2, <2>8 DEF OwnEdits
  <1>4. table \subseteq table' \/ \E r \in Handles : Delete(r) \/ Update(r)
    BY DEF Next, vars, MakeDefRecord, Query, Become, Set, Insert, UpdateNoRow, UpdateFails
  <1> QED BY <1>1, <1>2, <1>3, <1>4

\* The invariant holds throughout every use of Insert, Update, Delete and Set, for a table whose key BuildCondition names.
THEOREM Invariance == Spec /\ NamesRows(schema) => []IInv
  BY IInvInit, IInvStep, PTL DEF Spec

\* Of a table that has a primary key of one column, or none, a record never
\* forgets a change: a field whose flag ClsEditFlag has cleared, or Set has not
\* set, has the value of the row unless another has written it since.
THEOREM ChangesKept == Spec /\ NamesRows(schema) => []Synced
  BY Invariance, PTL DEF IInv

\* And BuildUpdateSql and BuildDelSql hit the row the record is about, and
\* change in it the columns that the program has set, to what it has set.
THEOREM OwnEditsOnly == Spec /\ NamesRows(schema) => WritesOwnEditsOnly
  <1>1. IInv /\ [Next]_vars => [OwnEdits]_vars
    BY OwnEditsStep
  <1> QED BY <1>1, Invariance, PTL DEF Spec, WritesOwnEditsOnly, OwnEdits, OwnEdit
=============================================================================
