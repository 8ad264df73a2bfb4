---------------------------- MODULE MysqlConnect ----------------------------
(***************************************************************************)
(* The connections of one database (comps/database/src: MysqlConnect,      *)
(* Recordset, the fields, and MysqlDB's field-info cache).  A connection    *)
(* is used by one thread at a time: the first one by the service's thread, *)
(* the others by a worker each.  A call sends a statement, stores the       *)
(* result, and turns it into records row by row and field by field; each   *)
(* field refers to the DBFieldInfo of its column, which all connections     *)
(* share and look up under MysqlDB's _fieldLock.                            *)
(*                                                                         *)
(* A value is a text, as the server sends it.  The client library and the  *)
(* server are external.  The program drops a result before it calls again  *)
(* on the connection, and all results before the database is destroyed     *)
(* (their infos go with it).  The keys of a record are in Records.          *)
(*                                                                         *)
(* Definitions marked (mutant) are no part of the model: each is the       *)
(* definition that follows it with a mistake in it.                        *)
(***************************************************************************)
EXTENDS Fields, Sequences, FiniteSetsExt, Functions

CONSTANTS
    Conns,       \* the connections
    Columns,     \* the columns a statement may ask for, expressions included
    KeyOf,       \* the lower-case `org_table.org_name` of a column
    Definitions, \* what the server may say of a column: type and UNSIGNED_FLAG
    Selections,  \* the statements with a result: the columns each asks for
    MaxRows,     \* rows of a result
    MaxInfos,    \* DBFieldInfo objects for one key at a time
    Texts,       \* the texts the server may send
    Null,        \* no text: a NULL pointer in MYSQL_ROW
    Empty,       \* the text ""
    Holds,       \* the texts that a column with a definition may hold
    LeadingInt,  \* the integer a text begins with, 0 when there is none
    LengthOf     \* the length of a text

ASSUME ConstantsAssumption ==
    /\ MaxRows \in Nat /\ MaxInfos \in Nat
    /\ Columns = DOMAIN KeyOf
    /\ Definitions \in [Columns -> SUBSET [type : STRING, unsigned : BOOLEAN]]
    /\ \A col \in Columns : Definitions[col] # {}
    /\ Selections \subseteq Seq(Columns) \ {<<>>}
    /\ LeadingInt \in [Texts \cup {Null} -> Int] /\ LeadingInt[Null] = 0
    /\ LengthOf \in [Texts \cup {Null} -> Nat] /\ LengthOf[Null] = 0
    /\ Empty \in Texts /\ LeadingInt[Empty] = 0 /\ LengthOf[Empty] = 0
    /\ \A col \in Columns : \A d \in Definitions[col] :
         d \in DOMAIN Holds /\ Holds[d] \subseteq Texts \cup {Null}

\* The server sends of a column of integers what its type can be.
ASSUME HoldsAssumption ==
    \A col \in Columns : \A d \in Definitions[col] : \A text \in Holds[d] :
        d.type \in IntTypes => LeadingInt[text] \in RangeOf(d)

VARIABLES
    def,       \* the server: the definition of each column
    status,    \* the library: "closed", "ready", or "result" for one to be read
    stored,    \* the MYSQL_RES of each connection is allocated
    pc,        \* where each connection's thread is
    job,       \* what it makes records of
    recs,      \* the records it has made, the last one perhaps unfinished
    found,     \* the DBFieldInfo it has got for the next field
    info,      \* the DBFieldInfo objects that exist
    cache,     \* _fieldInfos: the object of a key
    lock,      \* the connection whose thread has _fieldLock, if any
    altered,   \* history: columns altered since the database was opened
    misused    \* history: connections given a selection by the boolean Query

serverVars == <<def, altered>>
cacheVars == <<info, cache, lock>>
threadVars == <<pc, job, recs, found>>
connVars == <<status, stored, misused>>
vars == <<serverVars, cacheVars, threadVars, connVars>>

NoInfo == <<>>
Infos == Range(KeyOf) \X (1..MaxInfos)      \* the objects, told apart by number
NoJob == [cols |-> <<>>, meta |-> <<>>, rows |-> <<>>]

Init ==
    /\ def \in [Columns -> UNION Range(Definitions)]
    /\ \A col \in Columns : def[col] \in Definitions[col]
    /\ status = [c \in Conns |-> "closed"]
    /\ stored = [c \in Conns |-> FALSE]
    /\ pc = [c \in Conns |-> "idle"]
    /\ job = [c \in Conns |-> NoJob]
    /\ recs = [c \in Conns |-> <<>>]
    /\ found = [c \in Conns |-> NoInfo]
    /\ info = <<>> /\ cache = <<>> /\ lock = {}
    /\ altered = {} /\ misused = {}

-----------------------------------------------------------------------------
(* Fields.                                                                 *)

\* A NULL becomes 0 or "".
Read(text) == IF text = Null THEN Empty ELSE text

\* What SetValue leaves in a field of each class: a number, that of atof's told by its
\* text, or a text and how many bytes of whatever follows it in memory have been
\* copied with it.  A decimal goes through atoll into a double.
SetValue(d, text, len) ==
    LET n == Atoll(LeadingInt[Read(text)])
        number(v) == [num |-> v, text |-> Empty, extra |-> 0]
    IN
    IF d.type \in IntTypes THEN number(Cast(n, d))
    ELSE IF d.type = "NEWDECIMAL" THEN number(ToDouble(n))
    ELSE [num |-> 0, text |-> Read(text),
          extra |-> IF d.type \in FloatTypes \/ text = Null THEN 0 ELSE len - LengthOf[text]]

-----------------------------------------------------------------------------
(* The server and the life of a connection.                                *)

\* ALTER TABLE, by anybody.
Alter(col) ==
    /\ \E d \in Definitions[col] \ {def[col]} : def' = [def EXCEPT ![col] = d]
    /\ altered' = altered \cup {col}
    /\ UNCHANGED <<cacheVars, threadVars, connVars>>

\* MysqlDB::Init opens every connection; one that fails is in MysqlDB's model.
Connect ==
    /\ \A c \in Conns : status[c] = "closed"
    /\ status' = [c \in Conns |-> "ready"]
    /\ altered' = {}
    /\ UNCHANGED <<def, stored, misused, cacheVars, threadVars>>

\* MysqlDB::Destroy, once the workers have been joined: every connection
\* is closed, and the infos in the map are deleted.
Disconnect ==
    /\ \A c \in Conns : status[c] # "closed" /\ pc[c] = "idle"
    /\ status' = [c \in Conns |-> "closed"]
    /\ misused' = {}
    /\ info' = [i \in (DOMAIN info) \ Range(cache) |-> info[i]]
    /\ cache' = <<>>
    /\ UNCHANGED <<serverVars, stored, lock, threadVars>>

-----------------------------------------------------------------------------
(* Statements.                                                             *)

\* Nothing comes of a call: the connection is closed or out of step with the
\* server, the statement fails, or it has no result (null, or true).
NoResult(c) == pc[c] = "idle" /\ UNCHANGED vars

\* The boolean Query with a statement that has a result: nobody reads it, and
\* the library refuses every later statement.
QuerySql(c) ==
    /\ pc[c] = "idle" /\ status[c] = "ready"
    /\ status' = [status EXCEPT ![c] = "result"]
    /\ misused' = misused \cup {c}
    /\ UNCHANGED <<stored, serverVars, cacheVars, threadVars>>

\* The results a statement may have now.
RowsOf(cols) ==
    LET texts(i) == Holds[def[cols[i]]] IN
    {row \in [DOMAIN cols -> UNION {texts(i) : i \in DOMAIN cols}] :
       \A i \in DOMAIN cols : row[i] \in texts(i)}
ResultsOf(cols) == UNION {[1..n -> RowsOf(cols)] : n \in 0..MaxRows}

\* mysql_store_result has read it all; records are made of the rows.
Start(c, cols, rows) ==
    /\ pc[c] = "idle" /\ status[c] = "ready"
    /\ job' = [job EXCEPT ![c] = [cols |-> cols, meta |-> [i \in DOMAIN cols |-> def[cols[i]]],
                                  rows |-> rows]]
    /\ stored' = [stored EXCEPT ![c] = rows # <<>>]
    /\ recs' = [recs EXCEPT ![c] = IF rows = <<>> THEN <<>> ELSE <<<<>>>>]
    /\ pc' = [pc EXCEPT ![c] = IF rows = <<>> THEN "returned" ELSE "lock"]
    /\ UNCHANGED <<found, status, misused, serverVars, cacheVars>>

Query(c) == \E cols \in Selections : \E rows \in ResultsOf(cols) : Start(c, cols, rows)

\* `select * ... limit 0`: one record, of no row.
MakeDefRecord(c) ==
    \E cols \in Selections : Start(c, cols, <<[i \in DOMAIN cols |-> Null]>>)

-----------------------------------------------------------------------------
(* Records.                                                                *)

RowIdx(c) == Len(recs[c])
FieldIdx(c) == Len(recs[c][RowIdx(c)]) + 1
NextKey(c) == KeyOf[job[c].cols[FieldIdx(c)]]
NextMeta(c) == job[c].meta[FieldIdx(c)]

\* mysql_fetch_lengths has been called when there was no current row, so that
\* CreateRecord takes max_length, the largest in the result.
FirstRowLength(c) == LengthOf[job[c].rows[1][FieldIdx(c)]]     \* (mutant)
ColLength(c) ==
    Max({LengthOf[job[c].rows[r][FieldIdx(c)]] : r \in DOMAIN job[c].rows})

\* QueryDBFieldInfo: lock_guard, find, and insert when there is none.
LockFieldsUnlocked(c) ==                                   \* (mutant)
    /\ pc[c] = "lock"
    /\ pc' = [pc EXCEPT ![c] = "find"]
    /\ UNCHANGED <<lock, info, cache, job, recs, found, serverVars, connVars>>
LockFields(c) ==
    /\ pc[c] = "lock" /\ lock = {}
    /\ lock' = {c}
    /\ pc' = [pc EXCEPT ![c] = "find"]
    /\ UNCHANGED <<info, cache, job, recs, found, serverVars, connVars>>

FindInfoRefreshed(c) ==                                    \* (mutant)
    /\ pc[c] = "find" /\ NextKey(c) \in DOMAIN cache
    /\ found' = [found EXCEPT ![c] = cache[NextKey(c)]]
    /\ info' = [info EXCEPT ![cache[NextKey(c)]] = NextMeta(c)]
    /\ lock' = {}
    /\ pc' = [pc EXCEPT ![c] = "create"]
    /\ UNCHANGED <<cache, job, recs, serverVars, connVars>>
FindInfo(c) ==
    /\ pc[c] = "find" /\ NextKey(c) \in DOMAIN cache
    /\ found' = [found EXCEPT ![c] = cache[NextKey(c)]]
    /\ lock' = {}
    /\ pc' = [pc EXCEPT ![c] = "create"]
    /\ UNCHANGED <<info, cache, job, recs, serverVars, connVars>>

NewInfo(c) ==
    /\ pc[c] = "find" /\ NextKey(c) \notin DOMAIN cache
    /\ \E n \in 1..MaxInfos :
         LET i == <<NextKey(c), n>> IN
         /\ \A m \in 1..n : <<NextKey(c), m>> \in DOMAIN info <=> m < n
         /\ info' = [j \in (DOMAIN info) \cup {i} |-> IF j = i THEN NextMeta(c) ELSE info[j]]
         /\ found' = [found EXCEPT ![c] = i]
    /\ pc' = [pc EXCEPT ![c] = "insert"]
    /\ UNCHANGED <<cache, lock, job, recs, serverVars, connVars>>

\* map::insert leaves an entry that is there alone.
InsertInfo(c) ==
    /\ pc[c] = "insert"
    /\ cache' = [k \in (DOMAIN cache) \cup {NextKey(c)} |->
                   IF k \in DOMAIN cache THEN cache[k] ELSE found[c]]
    /\ lock' = {}
    /\ pc' = [pc EXCEPT ![c] = "create"]
    /\ UNCHANGED <<info, job, recs, found, serverVars, connVars>>

\* The class and the conversion are those of the info, not of the result.
CreateField(c) ==
    LET i == FieldIdx(c)
        r == RowIdx(c)
        field == [info |-> found[c],
                  val |-> SetValue(info[found[c]], job[c].rows[r][i], ColLength(c))]
        written == [recs[c] EXCEPT ![r] = Append(@, field)]
        rowDone == i = Len(job[c].cols)
        done == rowDone /\ r = Len(job[c].rows)
    IN
    /\ pc[c] = "create" /\ Creatable(info[found[c]])
    /\ recs' = [recs EXCEPT ![c] = IF rowDone /\ ~done THEN Append(written, <<>>) ELSE written]
    /\ pc' = [pc EXCEPT ![c] = IF done THEN "returned" ELSE "lock"]
    /\ stored' = [stored EXCEPT ![c] = ~done]
    /\ found' = [found EXCEPT ![c] = NoInfo]
    /\ UNCHANGED <<job, status, misused, serverVars, cacheVars>>

\* The call returns null, and the guards free the records and the result.
ReleaseKeepingRecords(c) ==                                \* (mutant)
    /\ pc' = [pc EXCEPT ![c] = "idle"]
    /\ job' = [job EXCEPT ![c] = NoJob]
    /\ found' = [found EXCEPT ![c] = NoInfo]
    /\ UNCHANGED <<recs, status, misused, serverVars, cacheVars>>
Release(c) ==
    /\ pc' = [pc EXCEPT ![c] = "idle"]
    /\ job' = [job EXCEPT ![c] = NoJob]
    /\ recs' = [recs EXCEPT ![c] = <<>>]
    /\ found' = [found EXCEPT ![c] = NoInfo]
    /\ UNCHANGED <<status, misused, serverVars, cacheVars>>

CreateFailsLeaking(c) ==                                   \* (mutant)
    pc[c] = "create" /\ ~Creatable(info[found[c]]) /\ Release(c) /\ UNCHANGED stored
CreateFails(c) ==
    /\ pc[c] = "create" /\ ~Creatable(info[found[c]])
    /\ Release(c)
    /\ stored' = [stored EXCEPT ![c] = FALSE]

\* The program deletes what it was given.
Discard(c) == pc[c] = "returned" /\ Release(c) /\ UNCHANGED stored

-----------------------------------------------------------------------------

Next ==
    \/ Connect \/ Disconnect
    \/ \E col \in Columns : Alter(col)
    \/ \E c \in Conns :
         \/ NoResult(c) \/ QuerySql(c) \/ Query(c) \/ MakeDefRecord(c)
         \/ LockFields(c) \/ FindInfo(c) \/ NewInfo(c) \/ InsertInfo(c)
         \/ CreateField(c) \/ CreateFails(c) \/ Discard(c)

Spec == Init /\ [][Next]_vars

-----------------------------------------------------------------------------
(* Properties.                                                             *)

\* Every variable has its type.
TypeOK ==
    /\ def \in [Columns -> UNION Range(Definitions)]
    /\ status \in [Conns -> {"closed", "ready", "result"}]
    /\ stored \in [Conns -> BOOLEAN]
    /\ pc \in [Conns -> {"idle", "lock", "find", "insert", "create", "returned"}]
    /\ \A c \in Conns : job[c] = NoJob \/ job[c].cols \in Selections
    /\ DOMAIN recs = Conns /\ \A c \in Conns : Len(recs[c]) <= Len(job[c].rows)
    /\ found \in [Conns -> Infos \cup {NoInfo}]
    /\ DOMAIN info \subseteq Infos /\ DOMAIN cache \subseteq Range(KeyOf)
    /\ lock \subseteq Conns /\ Cardinality(lock) <= 1
    /\ altered \subseteq Columns /\ misused \subseteq Conns

\* The cache owns every info (Database.cpp:138 deletes no other): none is lost
\* when several connections meet a new column together, and every field of a
\* record refers to the one that the cache has.
InfoOwned ==
    /\ \A i \in (DOMAIN info) \ Range(cache) :
         \E c \in Conns : pc[c] = "insert" /\ found[c] = i
    /\ \A c \in Conns : \A r \in DOMAIN recs[c] : \A i \in DOMAIN recs[c][r] :
         cache[KeyOf[job[c].cols[i]]] = recs[c][r][i].info

\* BaseField's _info is a const reference, read without the lock: an info does not
\* change, whatever other connections learn of its column.
InfoNeverChanges ==
    [][\A i \in (DOMAIN info) \cap (DOMAIN info') : info'[i] = info[i]]_vars

\* Between two calls a connection has no result in memory, however the last call
\* ended, and can be used again unless a selection went through the boolean Query.
BetweenCalls ==
    \A c \in Conns : pc[c] \in {"idle", "returned"} =>
        /\ ~stored[c]
        /\ status[c] = "result" => c \in misused

\* The columns that share their key with no other (expressions have no names, so
\* all share one), and those of them that nothing has redefined since the
\* database was opened.
Named == {col \in Columns : \A o \in Columns : KeyOf[o] = KeyOf[col] => o = col}
Settled == Named \ altered

\* A field of type d stands for the text: the integer it begins with (all of it but
\* for decimals and timestamps) if a sint64 can be it, and of a decimal if a double can
\* be it as well; the floating-point number; or a string that up to its first NUL is
\* the text.  A NULL is not told from 0 or an empty string.
StandsFor(val, d, text) ==
    LET n == LeadingInt[Read(text)] IN
    CASE d.type \in IntTypes -> n \in Sint64 => val.num = n
      [] d.type = "NEWDECIMAL" ->
           (n \in Sint64 /\ n \in -(2^Mantissa)..2^Mantissa) => val.num = n
      [] OTHER -> val.text = Read(text) /\ val.extra >= 0

\* A result has a record for each row with a field for each column, and every field
\* of a settled one stands for what the server sent, whichever connection met it first.
ReadsBack ==
    \A c \in Conns :
      /\ pc[c] = "returned" =>
           /\ Len(recs[c]) = Len(job[c].rows)
           /\ \A r \in DOMAIN recs[c] : Len(recs[c][r]) = Len(job[c].cols)
      /\ \A r \in DOMAIN recs[c] : \A i \in DOMAIN recs[c][r] :
           job[c].cols[i] \in Settled =>
             StandsFor(recs[c][r][i].val, job[c].meta[i], job[c].rows[r][i])

\* LogicComp.cpp:118, `ASSERT(varstrType == varstr)`: the string that is read is
\* the string that was written.
StringsReadBack ==
    \A c \in Conns : \A r \in DOMAIN recs[c] : \A i \in DOMAIN recs[c][r] :
        job[c].cols[i] \in Settled => recs[c][r][i].val.extra = 0
=============================================================================
