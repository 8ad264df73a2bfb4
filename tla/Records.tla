------------------------------ MODULE Records -------------------------------
(***************************************************************************)
(* Records and the table they come from (comps/database/src: Record,       *)
(* SqlUtil, and the Insert, Update and Delete of MysqlDB).  A record is a   *)
(* copy of a row with a flag per field that says the program has set it;   *)
(* SqlUtil turns the flagged fields into `set f=v, ...` and one key field   *)
(* into `where k=v limit 1`, and the server executes that.                 *)
(*                                                                         *)
(* Several records may stand for one row: they are the copies that other   *)
(* calls, callbacks and processes hold, and the statements the program     *)
(* builds with BuildUpdateSql and sends later are those of such a record.  *)
(* A statement can also fail before or after the server has executed it.   *)
(* Calls that return without having done anything (a MODE_READ record, no  *)
(* key, nothing set) have no action.                                       *)
(*                                                                         *)
(* Definitions marked (mutant) are no part of the model: each is the       *)
(* definition that follows it with a mistake in it.                        *)
(***************************************************************************)
EXTENDS Integers, FiniteSetsExt, Functions

CONSTANTS
    NumFields,   \* the columns are 1..NumFields, in the order of the result
    MaxVal,      \* the values of a field: 0 (0 or "") and 1..MaxVal
    Handles,     \* the records the program holds at a time
    Schemas      \* the tables: which fields have PRI_KEY and AUTO_INCREMENT

Fields == 1..NumFields
Vals == 0..MaxVal
Row == [Fields -> Vals]
None == -1                     \* the sint32 index of no field

ASSUME ConstantsAssumption ==
    /\ NumFields \in Nat \ {0} /\ MaxVal \in Nat /\ None \notin Handles
    /\ Schemas \subseteq [pri : SUBSET Fields, auto : Fields \cup {None}]

VARIABLES
    schema,   \* the table's keys
    table,    \* the rows on the server, a set: the primary key tells them apart
    mode,     \* each record's _mode, "none" for no record
    val,      \* the values of its fields
    changed,  \* the fields whose _changed is set
    own,      \* history: the primary key of the row it was read or inserted as
    stale     \* history: the other fields, if others have written them since

vars == <<schema, table, mode, val, changed, own, stale>>

PrimaryKey(row) == Restrict(row, schema.pri)
NoRow == [f \in {None} |-> 0]              \* no row's primary key

Init ==
    /\ schema \in Schemas
    /\ table = {}
    /\ mode = [r \in Handles |-> "none"]
    /\ val = [r \in Handles |-> [f \in Fields |-> 0]]
    /\ changed = [r \in Handles |-> {}]
    /\ own = [r \in Handles |-> NoRow]
    /\ stale = [r \in Handles |-> {}]

-----------------------------------------------------------------------------
(* Reading.                                                                *)

Become(r, m, fields, key) ==
    /\ mode' = [mode EXCEPT ![r] = m]
    /\ val' = [val EXCEPT ![r] = fields]
    /\ changed' = [changed EXCEPT ![r] = {}]
    /\ own' = [own EXCEPT ![r] = key]
    /\ stale' = [stale EXCEPT ![r] = {}]
    /\ UNCHANGED <<schema, table>>

\* MakeDefRecord: `limit 0` describes the columns, and the defaults that
\* MYSQL_FIELD could carry are null.
MakeDefRecord(r) == Become(r, "edit", [f \in Fields |-> 0], NoRow)

\* A row of a Query; WriteField puts column i into field i.
QueryShifted(r, m) ==                                      \* (mutant)
    \E row \in table : Become(r, m, [f \in 2..NumFields + 1 |-> row[f - 1]],
                               PrimaryKey(row))
Query(r, m) == \E row \in table : Become(r, m, row, PrimaryKey(row))

\* SetInt, SetDouble, SetStr, SetBlob.  The mode is not looked at.  The program
\* is assumed to leave the primary key of an existing row alone.
Set(r, f, v) ==
    /\ mode[r] # "none"
    /\ own[r] = NoRow \/ f \notin schema.pri
    /\ val' = [val EXCEPT ![r][f] = v]
    /\ changed' = [changed EXCEPT ![r] = @ \cup {f}]
    /\ stale' = [stale EXCEPT ![r] = @ \ {f}]
    /\ UNCHANGED <<schema, table, mode, own>>

-----------------------------------------------------------------------------
(* SqlUtil.                                                                *)

\* SetKeyIdx is called for every column of the primary key: the last remains.
KeyIdx == IF schema.auto # None THEN schema.auto
          ELSE IF schema.pri # {} THEN Max(schema.pri) ELSE None

\* BuildOperation: `set f=v, ...`; the statement is not sent when this is empty.
SetEveryField(r) == val[r]                                 \* (mutant)
BuildOperation(r) == Restrict(val[r], changed[r])

\* BuildCondition: the rows that `where k=v` matches.
BuildCondition(r) == {row \in table : row[KeyIdx] = val[r][KeyIdx]}

\* Whether there is a statement to send: a table without a key has none.
BuildInsertSql(r) == KeyIdx # None /\ changed[r] # {}
BuildUpdateSql(r) == KeyIdx # None /\ changed[r] # {}
BuildDelSql(r) == KeyIdx # None

-----------------------------------------------------------------------------
(* The server.                                                             *)

\* A row after `set` of the given fields.
Written(row, set) == [f \in Fields |-> IF f \in DOMAIN set THEN set[f] ELSE row[f]]

\* A new row: the columns not set get their default, 0, and the automatic one
\* any number not in use.
NewRow(set) ==
    {row \in Row :
       /\ \A f \in Fields \ {schema.auto} :
            row[f] = IF f \in DOMAIN set THEN set[f] ELSE 0
       /\ schema.auto # None =>
            /\ row[schema.auto] # 0
            /\ schema.auto \in DOMAIN set => set[schema.auto] \in {0, row[schema.auto]}}

Unique(row, others) == \A o \in others : PrimaryKey(o) # PrimaryKey(row)

\* Somebody other than r has written fields S of the row with this key.
MarkStale(key, S, r) ==
    stale' = [q \in Handles |-> IF own[q] = key /\ q # r
                                THEN stale[q] \cup (S \ changed[q]) ELSE stale[q]]

-----------------------------------------------------------------------------
(* Insert, Update, Delete.                                                 *)

\* The record keeps its flags and does not learn the id the server has given.
\* answered is FALSE when the connection breaks before the answer arrives.
Insert(r) ==
    /\ mode[r] # "none" /\ BuildInsertSql(r)
    /\ \E row \in NewRow(BuildOperation(r)), answered \in BOOLEAN :
         /\ Unique(row, table)
         /\ table' = table \cup {row}
         /\ IF answered /\ row[KeyIdx] = val[r][KeyIdx]
              THEN /\ own' = [own EXCEPT ![r] = PrimaryKey(row)]
                   /\ stale' = [q \in Handles |->
                                  IF q = r THEN Fields \ changed[r]
                                  ELSE IF own[q] = PrimaryKey(row)
                                    THEN Fields \ changed[q] ELSE stale[q]]
              ELSE UNCHANGED own /\ MarkStale(PrimaryKey(row), Fields, None)
    /\ UNCHANGED <<schema, mode, val, changed>>

ClsEditFlag(r) == changed' = [changed EXCEPT ![r] = {}]
MayUpdate(r) == mode[r] = "edit" /\ BuildUpdateSql(r)

\* `limit 1`: the server takes any one of the rows that match.
Update(r) ==
    /\ MayUpdate(r)
    /\ \E row \in BuildCondition(r), answered \in BOOLEAN :
         LET new == Written(row, BuildOperation(r)) IN
         /\ Unique(new, table \ {row})
         /\ table' = (table \ {row}) \cup {new}
         /\ MarkStale(PrimaryKey(row), DOMAIN BuildOperation(r), r)
         /\ IF answered THEN ClsEditFlag(r) ELSE UNCHANGED changed
    /\ UNCHANGED <<schema, mode, val, own>>

\* No row matches: the statement is a success all the same.
UpdateNoRow(r) ==
    /\ MayUpdate(r)
    /\ BuildCondition(r) = {}
    /\ ClsEditFlag(r)
    /\ UNCHANGED <<schema, table, mode, val, own, stale>>

\* The statement never gets to the server, or is refused: the flags stay.
UpdateFailsCleared(r) ==                                   \* (mutant)
    /\ MayUpdate(r)
    /\ ClsEditFlag(r)
    /\ UNCHANGED <<schema, table, mode, val, own, stale>>
UpdateFails(r) == MayUpdate(r) /\ UNCHANGED vars

Delete(r) ==
    /\ mode[r] = "edit" /\ BuildDelSql(r)
    /\ \E row \in BuildCondition(r) : table' = table \ {row}
    /\ UNCHANGED <<schema, mode, val, changed, own, stale>>

-----------------------------------------------------------------------------

Next ==
    \E r \in Handles :
      \/ MakeDefRecord(r)
      \/ \E m \in {"read", "edit"} : Query(r, m)
      \/ \E f \in Fields, v \in Vals : Set(r, f, v)
      \/ Insert(r) \/ Delete(r)
      \/ Update(r) \/ UpdateNoRow(r) \/ UpdateFails(r)

Spec == Init /\ [][Next]_vars

-----------------------------------------------------------------------------
(* Properties.                                                             *)

\* Every variable has its type.
TypeOK ==
    /\ schema \in Schemas
    /\ table \subseteq Row
    /\ mode \in [Handles -> {"none", "read", "edit"}]
    /\ val \in [Handles -> Row]
    /\ changed \in [Handles -> SUBSET Fields]
    /\ own \in [Handles -> {PrimaryKey(row) : row \in Row} \cup {NoRow}]
    /\ stale \in [Handles -> SUBSET Fields]

\* A change is never forgotten: a field that is not flagged has the value of the
\* row, unless somebody else has written it there since, through any sequence
\* of sets, updates, failed updates, lost answers and repeated ones.
Synced ==
    \A r \in Handles, row \in table :
        own[r] = PrimaryKey(row) =>
            \A f \in Fields \ (changed[r] \cup stale[r]) : val[r][f] = row[f]

\* Record r is the program's copy of the row, or names it by a key of its own.
StandsFor(r, row) ==
    \/ own[r] = PrimaryKey(row)
    \/ own[r] = NoRow /\ mode[r] # "none" /\ val[r][KeyIdx] = row[KeyIdx]

\* RecordManipulator.h:39, "sync update record.": what changes in a row is what
\* the program has set in a record that stands for it.  Two programs that edit
\* different fields of one row do not undo each other's work, and no statement
\* hits a row that the record is not about.
WritesOwnEditsOnly ==
    [][\A row \in table \ table' :
         \E r \in Handles :
            /\ mode[r] = "edit"
            /\ StandsFor(r, row)
            /\ \A new \in table' :
                 PrimaryKey(new) = PrimaryKey(row) =>
                   \A f \in Fields : new[f] # row[f] =>
                                       f \in changed[r] /\ new[f] = val[r][f]]_vars
=============================================================================
