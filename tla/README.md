# Formal models of llbc_comps

llbc_comps is a library of pluggable components for the llbc service framework. Its one substantial
component is `comps/database`: an asynchronous MySQL access layer with worker threads, per-key
ordering, a barrier (Flush), a shutdown protocol and an object-record layer on top. This directory
holds TLA+ models of it, the TLC runs that check them and TLAPS proofs of every safety property the passing
runs check.

Paths below are relative to the repository; `Database.cpp` and the like are in
`comps/database/src`.

## 1. Inventory

### 1.1 The asynchronous engine, `MysqlDB` (Database.cpp, AsyncTask.h)

*State.* `_inited`, `_asyncConnNum`, the atomics `_stoping`, `_flushing`, `_stopedNum` and one
`_flushFlag` per worker; per worker a connection, a thread and an `AsyncTaskQueue`; one finish queue
under `_finishLock`; the field-info cache under `_fieldLock`.

*Operations.* On the service's thread: `Init`, `QueryAsync`, `OnUpdate`, `Flush`, `Destroy`, the
synchronous `Query`, `Insert`, `Update`, `Delete`. On each worker: `AsyncWorkFunc`, a loop of
"pop everything with a 50 ms timeout, execute it, put it on the finish queue, look at the flags".

*Interaction.* User code calls `QueryAsync(key, ...)`; the task goes to queue `key % _asyncConnNum`;
the worker executes it; `OnUpdate` swaps the finish queue out and invokes the callbacks, which may call
anything of the above again. `Flush` resets the flags, raises `_flushing` and sleeps until every worker
has raised its flag. `Destroy` flushes, raises `_stoping` and sleeps until all workers have counted
themselves out.

*What is hard.* Four kinds of atomics and two kinds of locked queues, read and written in an order that
matters; a queue whose `Empty()` is always true (`AsyncTaskQueue::_count` is never written); a counter
reset after the flag that lets others increment it; a worker that read `_flushing` before one Flush
returned and writes its flag in the next; callbacks that re-enter the engine.

*What makes it correct.* Each statement is executed at most once and called back at most once, after
it; the requests of one key are executed and called back in order; Flush is a barrier for what it
claims; Destroy loses no statement and frees nothing that a worker still uses; Flush and Destroy
return; every request is executed and called back in the end.

### 1.2 The task queue, `AsyncTaskQueue` (AsyncTaskQueue.cpp)

*State.* `_tasks` under `_lock`, a condition variable `_cv`, the unused `_count`. *Operations.* `Push`
(which notifies after it has unlocked), `TimePop`, `TryPop`, `PopAll`, `TimePopAll`, `Empty`, `Size`.
*Hard:* the notification outside the lock, timeouts and spurious wakeups racing with pushes and with
other consumers. *Correct* when it is an atomic FIFO and no wakeup is lost.

### 1.3 The registry, `DBMgr` (DBMgr.cpp)

*State.* `_databases`, a map of owned objects, and `_defaultDB`, a bare pointer into it. *Operations.*
The framework's `OnInitialize`, `OnUpdate`, `OnDestroy`; for users `CreateDatabase`, `DestroyDatabase`,
`GetDatabase`, `GetDefaultDatabase`, `Flush`. *Hard:* an initialisation with several ways to fail half
way, callbacks that insert into the map while `OnUpdate` loops over it, objects whose deletion with
running threads would end the process. *Correct* when what runs is owned, the configured databases and the
default stay those of the ini file until user code takes one down, and every frame serves every database.

### 1.4 Records (Record.cpp, SqlUtil.cpp, RecordManipulator.cpp; Insert, Update, Delete of Database.cpp)

*State.* A record: a value and a "changed" flag per field, the index of the key, a mode. *Operations.*
Reading, `MakeDefRecord`, the setters, `Insert`, `Update`, `Delete`, the `Build...Sql` functions.
*Hard:* several records stand for one row; a statement fails before or after it was executed; `where`
uses one key field; the text of a statement is made in buffers whose sizes one loop works out and another
relies on, through signed and unsigned lengths, escapes and six kinds of printf. *Correct* when no edit is
forgotten, no record undoes another's edit, a statement touches only the record's own row, and says what
the program has set.

### 1.5 Connections, results and fields (MysqlConnect.cpp, Recordset.cpp, FieldFactory.cpp, FieldTemplate.inl; QueryDBFieldInfo of Database.cpp)

*State.* Per connection a library handle, which is ready or has a result to be read, and the result a call
is working on; shared by all connections of a database, under `_fieldLock`, the map from lower-case
`table.column` to a `DBFieldInfo`. *Operations.* Connect, Disconnect, the Queries, MakeDefRecord,
CreateRecord, QueryDBFieldInfo, CreateField, SetValue. *Hard:* workers meet a new column together; fields
keep references into the map; a column is altered while its info is cached; a call fails after some rows;
a result nobody reads; lengths and integer widths. *Correct* when a column has one info that never
changes, a call leaves nothing in the library, and a field stands for the text the server sent.

### 1.6 The rest

The factory and export macros; `apps/gameapp`, a
demonstration that registers the component and runs one sequence of calls; `comps/example`, an empty
template; `3rds/mysql`, vendored client library. `PROJECT.json` lists each with its status.

## 2. Modules

| module | what it is |
|---|---|
| `AsyncDB` | what the engine promises: requests Submitted, Executed in key order, Notified; Flush as the barrier it really is; Close |
| `MysqlDB` | the engine, one action per access to shared state |
| `MysqlDBInvariant` | its inductive invariant, in named parts |
| `MysqlDBProofs` | TLAPS: the invariant and the safety properties |
| `MysqlDBRefinement` | TLAPS: MysqlDB implements AsyncDB |
| `TaskQueue` | an atomic FIFO queue |
| `AsyncTaskQueue` | the queue with its mutex, condition variable, timeouts and spurious wakeups |
| `AsyncTaskQueueProofs` | TLAPS: its invariant, no lost wakeup, AsyncTaskQueue implements TaskQueue |
| `DBMgr` | the registry and its loop over the map |
| `DBMgrProofs` | TLAPS: its invariant and its safety properties |
| `Records` | records, their statements, and the table they read and write |
| `RecordsProofs` | TLAPS: its types for every table, its properties where the key has one column |
| `Fields` | the class of a column, and the numbers a field of it can hold; shared by `SqlUtil` and `MysqlConnect` |
| `FieldsProofs` | TLAPS: lemmas about powers of 2, %, \div, the casts between widths, the digits of a number and the integers that a double can be |
| `SqlUtil` | the text of statements: conditions, buffers, what is printed of each field |
| `SqlUtilProofs` | TLAPS: its invariant and its safety properties |
| `MysqlConnect` | the connections of a database, their results, the shared field infos, the conversions |
| `MysqlConnectProofs` | TLAPS: its invariant and its safety properties |
| `MC...` | values of the constants for TLC |

Definitions marked `(mutant)` are wrong versions of the definition after them. They are no part of a
specification; PROJECT.json pairs each with the property that notices the mistake.

### 2.1 MysqlDB and the code

A step is what one thread does between two accesses to state another thread uses. The service's thread
is `mainpc`; `InitConnect`, `InitFail`, `StartThread`, `InitReturn` are Init; `QueryAsync`,
`OnUpdate` (the swap), `Invoke`, `CallbackReturn`, `UpdateReturn`; `Flush`, `FlushReset` (one flag at a
time), `FlushRaise`, `FlushSeen`, `FlushReturn`; `Destroy`, `SetStoping`, `ResetStopedNum`,
`AwaitStoped`, `JoinAndClear`. A worker is `wpc`: `WorkerPop`, `WorkerExec`, `WorkerFinish`,
`WorkerCheck` (reads `_flushing` and the queue's `Empty`), `WorkerSetFlag`, `WorkerCheckStop`,
`WorkerCount`. User code runs in states `idle` and `callback` and may do anything it can. A flag made by
`new std::atomic_bool` has no defined first value: it is either. The text of a statement and what the
server answers are abstracted; a request is executed when the connection's call returns. History
variables (`ticket`, `execs`, `called`, `newer`, `older`, `taken`) record what the properties speak of.

`MysqlDB` sees a queue as a sequence whose operations are atomic: that is what `AsyncTaskQueue`, checked
to implement `TaskQueue`, entitles it to. `AsyncDB` has no failed state: while Init runs, and after it has
failed, its database is open and nobody submits anything, so the refinement says nothing about failures of
Init. `DBMgr` sees a database as an object that has threads and a
number of finished tasks: what it needs of `MysqlDB` is that Destroy joins the threads
(`DestroyNeverEarly`) and that OnUpdate takes the finish queue as it is at one moment.

### 2.2 AsyncTaskQueue and the code

`PushLock`, `PushTask` (push and unlock), `NotifyOne` are Push. The four pops share their steps:
`Call`, `Lock`, `Block` (wait_for gives up the lock), `WakeByItself` (timeout, or for no reason),
`CopyFront` and `PopFront` (one round of the loop), `FindNothing`, `Leave`. The engine uses one producer,
one consumer and TimePopAll; the class is modelled for any callers.

### 2.3 DBMgr and the code

`SectionFails`, `SecondDefault`, `LoadSection`, `NoDefault`, `Initialized` are OnInitialize, one
section at a time; `CreateDatabase` and `DestroyDatabase` are possible wherever user code runs, between
frames and inside callbacks; `OnUpdate`, `UpdateNext`, `Invoke`, `BatchDone`, `UpdateReturn` are the
loop, which goes on to the name `Following` its place in the map as it is by then; `OnDestroy`,
`DestroyNext`, `Clear` the end. `Complete` stands for the workers. Objects are numbered as they are made;
the history variable `closed` has those that DestroyDatabase was called for, which is what ConfigInForce
excepts: user code may take a configured database down, so the property does not depend on the inverted test
of finding 3. DestroyDatabase of an unknown name goes through `end()`: the model stops there, in state `undefined`. After an OnInitialize
that returned false the framework may or may not call OnDestroy: it is part of llbc, not of this
repository, and both are allowed.

### 2.4 Records and the code

A record is `mode`, `val`, `changed`; the table is a set of rows told apart by the primary key; `schema`
says which columns are PRI_KEY and AUTO_INCREMENT and is chosen at the start. `KeyIdx`,
`BuildCondition`, `BuildOperation` are SqlUtil; `Insert`, `Update`, `UpdateNoRow`, `UpdateFails`,
`Delete` are one call each, statement and effect at the server together, with `answered` false when the
connection breaks between the two. A record held by another process, or a statement built with
BuildUpdateSql and sent later, is one more record. History: `own` (the row a record stands for) and
`stale` (what others have written there since). Assumed of the program: it does not set the primary key
of a record it has read. The server (`Written`, `NewRow`, `Unique`) is external.

A record read in MODE_READ can be set and inserted (the mode is looked at by Update and Delete only).

### 2.5 SqlUtil and the code

`Build` is the call of one of the three Build...Sql functions, `BuildCondition` the `where`, `Collect` and
`CollectDone` the first loop of BuildOperation and the sizing of its buffer, `Format`, `FormatAsserts` and
`FormatDone` the second with BuildFormatSql, `Return` what Update, Insert and Delete do afterwards with the
answer. `maxLen` is the sint32 `maxFeildStrLen`; `LengthAfter` keeps the conversions between it and the
uint32 lengths (`Wrapped`, `Sint32`, `Uint32`).

`SetInt` and `SetDouble` cast to the type the field keeps, whichever number it is; a double out of an integer's
range may become any value of the type, as the cast is undefined. `SetText` takes a text of any size, since
SetStr and SetBlob compare it with nothing. A setter of texts for a number, or of numbers for a text, fails
its assertion: it is not an action. `val` is what the field keeps, the history variable `given` what its last
setter was given. A text is its size and how many of its characters are to be escaped; a double is a multiple
of 1/`Unit`, a decimal finer than "%f" prints (10^-7 in the code); a name is a length.

`out` has one entry per assignment: what it says, the bytes it needs (`Needed`), and the bytes written behind
a buffer (`Beyond`). What it says is `<<value>>` when the text is whole and `<<>>` when snprintf has cut it;
after a write behind a buffer, either (`Printed`). `cond` is the key that the condition names, or `<<>>`;
GetInt of a floating-point key beyond a sint64 may be any sint64 (`Named`). An assertion either ends the program
(`asserted`) or, with NDEBUG, lets the code go on with an empty text. External: a server that takes no
list with an empty member for a statement. `Records` has the same statements with their effect and without
their text.

### 2.6 MysqlConnect and the code

`pc` is where a connection's thread is in a call: `lock`, `find`, `insert` are QueryDBFieldInfo for the
next field, `create` is CreateField and SetValue, `returned` is a result the program has not deleted yet.
`job` is the stored result (columns, their definitions when the statement ran, rows of texts), `recs` the
records made of it so far, `info` the DBFieldInfo objects and `cache` the map. `Query` and `MakeDefRecord`
are the calls; everything between the statement and the first field is one step of one thread that touches
nothing shared. `NoResult` stands for every call that ends without a result. An object's name (its key and
a number) stands for its address. The conversions: `Cast` and `Atoll` use the widths in `Width`, and a decimal
goes through atoll into a double (`ToDouble`), which is exact up to 2^`Mantissa` and takes the nearest multiple of
a power of two beyond; a NULL is read as 0 or the empty string (`Read`); a string is the text and the number of
bytes copied behind it. What is external: the server (`Alter`, `RowsOf`) and
the library: `mysql_fetch_lengths` returns null while there is no current row, `max_length` is the longest
value in a stored result, each value in a row ends in a NUL, and a column of an integer type holds integers of
that type (`HoldsAssumption`). Assumed of the program: one result per
connection at a time, and no record used after Destroy, which deletes the infos. History: `altered`,
`misused`.

## 3. Runs

All passing runs explore the whole state space of their instance.

| run | instance | shows |
|---|---|---|
| `mysqldb_safety` | 3 requests, two of one key, 2 connections; 1.15 M states | TypeOK, AtMostOnce, KeyOrder, FlushTakenDone, SecondFlushCovers, DestroyDrains, DestroyNeverEarly, the inductive invariant IInv, and the refinement of AsyncDB |
| `mysqldb_liveness` | 2 requests of one key, 2 connections | EveryRequestExecuted, EveryCallback, FlushReturns, CleanDestroyReturns |
| `mysqldb_flush_doc` | 2 requests | FlushWaitsAll is violated (finding 1) |
| `mysqldb_destroy_doc` | 2 requests | DestroyReturns is violated (finding 2) |
| `task_queue` | 2 tasks, 2 producers, 2 consumers, all four pops | TypeOK, NoLostWakeup, atomicity (ImplementsTaskQueue), TaskServed; no deadlock |
| `dbmgr_lifecycle` | every ini file of at most 2 sections, 3 names, 4 objects, 2 finished tasks each; 359 k states | TypeOK, ConfigInForce, RunningIsOwned, FrameServesAll, CallbackOwnerLives, EveryDatabaseUpdated |
| `dbmgr_destroy_doc` | one database | DestroyDatabaseDestroys is violated (finding 3) |
| `records_sync` | 2 records, 3 fields of 2 values, key plain, automatic or none | TypeOK, Synced, WritesOwnEditsOnly |
| `records_composite_key` | key of two columns | WritesOwnEditsOnly is violated (finding 4) |
| `sql_util` | 13 tables (one, with a YEAR, gives no record): growing and falling lengths, numbers first and last, unbounded and unprintable columns, keys of each kind; integers of 2 to 5 bits, a uint32 of 8, doubles of 3 bits and one printed decimal; 900 k states | TypeOK, BufferHolds, AllChanged, SavedIsSet, ConditionNamesKey, AssertsOnlyKnown |
| `mysql_connect` | 2 connections, 6 columns (one altered, one without a class, decimals beyond a double's precision and beyond every integer type, two unnamed), up to 2 rows, integers of 3 to 6 bits, doubles of 4; 529 k states | TypeOK, InfoOwned, InfoNeverChanges, BetweenCalls, ReadsBack |
| `mysql_strings` | 1 connection, a string column | StringsReadBack is violated (finding 5) |

*Why the bounds are enough.* Engine: two requests of one key and a third in another lane show every
order of push, batch, poll and flag within a lane and across two; Flush may be called any number of
times, from user code, from callbacks and by Destroy, so a flag left over from one Flush can meet the
next; the proofs remove the bounds altogether for safety. Queue: two producers and two consumers are the
smallest in which a notification can go to the wrong thread and a task to a third. Registry: three names
let a callback insert before and after the loop's place; four objects let a name be created that was in
the ini file or not; two finished tasks let one be left over. Records: two records and two data fields
let two programs edit the same and different fields; with an automatic key the instance has room for one
row. Statements: the tables have two or three columns that matter, the least in which a
length comes before, after or between others; the texts are empty, as long as a column, almost and wholly
escaped, longer than any column's declared length (so that strings are cut and blobs written behind the buffer),
and keys that just fit and just do not; the numbers are at both ends of every type and beyond, one is no
double, and one double is cut by the buffer of a number. The model's texts that are cut, written behind the
buffer or out of range are reached, and excepted by name (`Moderate`, `Fits`). Connections: two are enough to meet a new column together, two rows to have a longest and a shorter
string, and the texts include one that needs the sign, one beyond the largest integer, one beyond its
column's old type and a decimal whose integer is no double. `CHECK_DEADLOCK FALSE` is set where the object is gone after Destroy (engine, registry) or an
assertion may have ended the program (statements); the queue, the records and the connections are checked
for deadlock.

*Fairness.* Engine: weak fairness of each worker and of the main thread inside a library call (threads
are scheduled; the sleeps and the 50 ms timeout end), strong fairness of OnUpdate (the service loop calls
it every frame, whatever user code does in between) and of a callback's return. No fairness for user
code's own calls. Registry: weak fairness of OnUpdate, which the llbc service calls every frame of a
started component, and of the loop's own steps (callbacks return). EveryDatabaseUpdated is what the
engine's fairness of OnUpdate stands on: the run shows that the frame reaches every database, also those
that callbacks insert. Queue: a thread inside the class goes on, and a free mutex is given to one of those
that want it, to whichever; no fairness for timeouts and spurious wakeups, so TaskServed does not lean
on the 50 ms.

## 4. Findings

1. `FlushWaitsAll` (Database.cpp:343): Flush returns while requests are still queued, since
   `taskQueue->Empty()` is always true. IDBMgr.h:36 says "flush all async tasks and wait tasks finish."
   What the code does guarantee is proved: `FlushTakenDone` and, for two Flushes, `SecondFlushCovers`.
2. `DestroyReturns` (Database.cpp:113): `_stopedNum` is reset after `_stoping` is set; a worker that
   counts itself out in between is lost and Destroy waits for ever. It returns when no count is lost
   (`CleanDestroyReturns`), and it never goes on too early (`DestroyNeverEarly`).
3. `DestroyDatabaseDestroys` (DBMgr.cpp:137): the test is inverted; a registered database is reported
   missing and stays. The obvious repair needs care: with it, a callback that destroys its own database
   frees what OnUpdate stands in (`CallbackOwnerLives` fails with the mutant `DestroyRegistered`).
4. `WritesOwnEditsOnly` with a composite key (SqlUtil.cpp:42): `where` names the last key column only,
   so an update or a delete hits another row.
5. `StringsReadBack` (MysqlConnect.cpp:172): `mysql_fetch_lengths` is called before the first row is
   fetched, so every string and blob is copied with the length of the column's longest value in the
   result, shorter ones with the bytes behind them. `ReadsBack` says what is left: up to its first NUL the
   string is right. LogicComp.cpp:118 compares a string read with the one written, on a result of one row.

Seen while modelling and stated as exceptions of a property, since no text promises otherwise: a statement
with a result that goes through the boolean Query makes its connection useless (`BetweenCalls`); a column
altered after it was first read keeps its old field class, and all unnamed expressions (`count(*)`, ...)
share the class of the first one read (`Settled` in `ReadsBack`); an unsigned 64-bit value above the
largest sint64, a decimal outside the sint64s, a decimal's fraction and all of a timestamp but its year are
lost, and so are the digits of a decimal above 2^53, which is kept in a double, and the difference between NULL
and 0 or the empty string (`StandsFor`). OnInitialize leaves the database it has opened for a second default to
nobody (`LeftBehind` in `RunningIsOwned`). In the text of statements: the room for escapes depends on the order of the columns, so that a value with more of them
than Slack (128 bytes less name and quotes) is cut short, or, of a blob, written past the buffer; the setters
compare no text with the declared length, so the same happens to one that is longer (a blob of 700 bytes in a
TINYBLOB, whose buffer has 638), and a double of many digits is cut by the buffer of a number and says
another; a string whose every character is escaped lacks a byte for its NUL (all in `Moderate`, in `BufferHolds`
and `SavedIsSet`); the length of a LONGTEXT or LONGBLOB, doubled, is -2 (`Unbounded`); a TIMESTAMP and a
NEWDECIMAL have a field class but no format (`AssertsOnlyKnown`, `AllChanged`). A setter casts what is out of
its field's range, so that the statement says something else (`Fits` in `SavedIsSet`); a double keeps six
decimals, and an unsigned 64-bit value above 2^63-1 is written rightly and not read back. A condition misses its
row when the key is such a value, is floating-point and has a fraction or is out of a sint64's range, is a text
with something to escape, or too long for 1024 bytes (`ConditionNamesKey`).

## 5. Proofs

`MysqlDBProofs` proves `Spec => []IInv` and from it TypeOK, AtMostOnce, KeyOrder, FlushTakenDone,
SecondFlushCovers, DestroyDrains and DestroyNeverEarly; `MysqlDBRefinement` proves
`Spec => ImplementsAsyncDB`. Both hold for every finite set of requests, every assignment of keys and
every configured connection number: the assumptions are the three named ASSUMEs of MysqlDB.

*The argument.* None of the properties is inductive. A request moves down a pipeline: the queue of its
lane, the worker's batch, the finish queue, OnUpdate's local queue, its callback. `TicketInv`,
`QueueInv`, `BatchInv` and `FinishInv` say what is in each place and that each is sorted by submission
within a lane; `AheadInv` says that what is further down is older, lane by lane; `CoverInv` that nothing
is lost between places. AtMostOnce and KeyOrder (as `LaneOrder`) are then kept by every step, because
only the head of a place moves on. For the barrier, `Passed(i)` says that worker i has nothing left to do
for the Flush in progress, and `BarrierInv` relates the worker's place in its loop to what may still be
in its queue: away from `pop` nothing of `older` is queued, and once passed nothing of `newer`. A flag
written late by a worker of the previous Flush can only concern what that worker had popped before, which
is why one Flush covers what was taken and two cover what was submitted. For shutdown `StopInv` says that
the Flush at the start of Destroy makes `newer` all there is, that a worker in `count` or `done` has an
empty queue, and that the counter never exceeds the workers that are done, whatever the late reset does:
hence DestroyDrains and DestroyNeverEarly. `StartInv` takes care of the workers that run during Init.

`DBMgrProofs` proves TypeOK, ConfigInForce, RunningIsOwned, FrameServesAll and CallbackOwnerLives for every
set of ini files, any number of names, objects and finished tasks. Its invariant adds to TypeOK: `Owned`
(the map has each object once, its entries' threads run until OnDestroy has passed them, and no other
object's do, in every state, a second default left behind excepted), `Loaded` (the i-th section dealt with has
the i-th object, the default if it says so: what ConfigInForce says, for a prefix of the file; as the code never
takes an entry out before the end, it holds of closed objects too) and `Frame`. That
last one is why a loop that callbacks insert into misses nobody: a callback owed to this frame is due at a
database ahead of the loop's place, or in the batch being run, and an insertion, ahead or behind, brings an
object to which nothing is owed.

`SqlUtilProofs` proves TypeOK, BufferHolds, AllChanged and AssertsOnlyKnown for every set of tables, values
and texts, every width of a sint32 and every size of the buffers that the named assumptions allow. The two
loops are tied by `LengthInv` and `ListInv`: while every collected field is bounded, maxFeildStrLen is at
least the length of each (`LengthGrows`), and once Slack has been added there is room for any of them
with its name and quotes (`ModerateFits`); the fields in `out` and then those in `fields` are the set
fields below `idx`, in order. An unbounded length makes maxFeildStrLen -2 for good, which BufferHolds
excepts. `CondInv` says that the condition is that of the record as it is, since nothing is set while a
statement is built.

What a statement says is proved too (SavedIsSet, ConditionNamesKey), for texts and numbers of any size and
every width of the integers. It takes two invariants about each field that is set: `SaysInv` keeps what has been
printed among what BuildFormatSql may print of the field as it is, cut or whole, and `GivenInv` says that a
field holds exactly what its setter was given if the field can hold that (`Fits`), which is where the setters'
casts, from integers and from doubles, come in (`SetterKeeps`). For a moderate value BufferHolds then says that
nothing has been cut. The rest is arithmetic about one field: a cast from one width to another keeps a number that
the target can hold, the digits of a number read back as it, an unsigned 64-bit number comes out of the detour
through a sint64 unchanged, rounding a double to millionths moves it by half of one at most, and an
integer up to 2^Mantissa is a double (`ToDoubleType`). `FieldsProofs` has the lemmas. Since a
power of 2 is only known to the provers by its definition, and induction on the exponent is out of reach
(below), 2^n is brought in as the number of subsets of a set of n members, of which the library's theorems
say what happens when the set grows by one. `WidthAssumption` asks that a TINY and a SHORT are no wider than
a LONG, which the code stores them in, and a LONGLONG wider than all; SqlUtil's assumption that a C `long` is
at least as wide as a LONG.

`AsyncTaskQueueProofs` proves TypeOK, NoLostWakeup and `Spec => ImplementsTaskQueue` for every set of tasks
and any finite number of producers and consumers. `ControlInv` ties the places in the code to the owner of
the mutex; `CopyInv` says what a consumer has copied while it has the mutex: a call that takes one task has at
most one, and a copy not yet popped is of the front. No wakeup is lost by counting: while a consumer is
blocked, the tasks in the queue are no more than the threads that will look or notify. Every step that adds a
task makes one such thread (the producer, until it has notified), and one that uses up such a thread takes a
task, wakes another, or finds the queue empty or nobody blocked; it is a statement about cardinalities, so the proof moves one
member at a time. For the refinement, a pop takes effect when its thread gives up the mutex, and until then
its copies count as still queued: `Moved` says that copying the front and popping it leaves that queue as it
was.

`MysqlConnectProofs` proves TypeOK, InfoOwned, InfoNeverChanges, BetweenCalls and ReadsBack for any number of
connections, every set of columns and selections, any texts, every width and every precision of a double. `LockInv` says that at most one
connection is in QueryDBFieldInfo; `PlaceInv` that a busy one is at a row and column of its result, with full
records before it; `CacheInv` and `FoundInv` that the map has an info of its own key under each key, that the
only info outside it is that of the connection about to insert it, whose key is still missing, and that each
field refers to the map's. InfoOwned and InfoNeverChanges follow from these. `StatusInv` says that a call has
a stored result exactly while it makes records, hence BetweenCalls. ReadsBack needs `SettledInv` (what is
known of a column that nobody has altered and that shares its key with no other is its definition, in every info and every result at hand) and the arithmetic of `FieldsProofs`: `CellInv` is then
kept by the one step that sets a value.

`RecordsProofs` proves TypeOK for every table, and Synced and WritesOwnEditsOnly for every table whose primary
key has one column, automatic or not, or which has none (`NamesRows`), for any number of records, columns and
values. Tables with a key of more columns are excepted because there the property is false (finding 4).
`OwnInv` says that a record which stands for a row has the row's key among its values and `UniqueInv` that rows
differ in their keys; so `where k=v limit 1` names one row, the record's own, an update leaves it its key
(`UpdateKeepsKey`), and a record that stands for a row is never told that no row matched.

*Only model-checked.* The liveness properties EveryRequestExecuted, EveryCallback, FlushReturns,
CleanDestroyReturns, TaskServed and EveryDatabaseUpdated: temporal reasoning from fairness needs ENABLED, which
the prover does not support. Nothing here rests on induction over data: no theorem of the library with an
operator as a parameter can be used, which is why `FieldsProofs` counts subsets.

## 6. Not modelled, and the plan

Written first because it is the heart of the component: MysqlDB, AsyncDB, the proofs; then the queue, the
registry, the records and the connections; then the text of statements; then the proofs about each. In the order of the plan, next:

1. Proofs: what an update of a table with a key of several columns does guarantee; the promise of the engine
   (AsyncDB) with its liveness stated as an abstract specification.
2. What becomes of results: the one a finished task holds, and records taken out of a set with PopRecord.
   Both are questions of who deletes an object; PopRecord leaves it to the program.
3. A component that uses the registry while the framework takes components down, which depends on llbc's
   order of calls.

Left out for good, and why:

- Ping, which nothing calls, and the last error, which is only logged.
- The options that Connect sets after mysql_real_connect, and the library's reconnect: what they do is the
  library's, and a statement whose answer is lost is in Records.
- LogicComp and GameServer: one straight sequence of calls, each of which the models allow user code
  anyway; what it asserts of strings is finding 5.
- Registration with the llbc framework, component names, macros and build files (no state), and the example
  component (empty).
- The vendored client library under `3rds/mysql`, which is most of the lines of the repository: headers of
  third-party code, of whose behaviour the models contain, marked external, what this code relies on.
