------------------------------- MODULE DBMgr --------------------------------
(***************************************************************************)
(* DBMgr (comps/database/src/DBMgr.cpp): the component that owns the       *)
(* databases.  It opens those of the ini file when the service starts,     *)
(* lets user code open and close others, calls OnUpdate of each database   *)
(* every frame, in the order of the map, and destroys them at the end.     *)
(*                                                                         *)
(* All of it runs on the service's thread; user code calls back in from    *)
(* the callbacks that a database's OnUpdate invokes, in the middle of the  *)
(* loop over the map.  The only other actors are the workers of the        *)
(* databases, seen here as Complete (their own model is MysqlDB).          *)
(*                                                                         *)
(* A call that only reports an error (CreateDatabase of a name in use or   *)
(* with no connection) changes nothing and has no action.  Flush and the   *)
(* getters change none of this state either.                               *)
(*                                                                         *)
(* Definitions marked (mutant) are no part of the model: each is the       *)
(* definition that follows it with a mistake in it.                        *)
(***************************************************************************)
EXTENDS Naturals, Sequences

CONSTANTS
    NumNames,     \* how many names there are; 1..NumNames is the map's order
    MaxObjects,   \* bound: how many MysqlDB objects are ever made
    MaxDue,       \* bound: the finished tasks waiting at one database
    Configs       \* the ini files: sequences of sections, see Section

Names == 1..NumNames
Objects == 1..MaxObjects
NoDB == 0                                \* nullptr, or no entry in the map

\* GetSection finds nothing, or the keys of it that DBMgr itself looks at.
Missing == [name |-> 0, default |-> FALSE]
Section == {Missing} \cup [name : Names, default : BOOLEAN]

ASSUME ConstantsAssumption ==
    /\ NumNames \in Nat /\ MaxObjects \in Nat /\ MaxDue \in Nat
    /\ Configs \subseteq Seq(Section)

VARIABLES
    config,     \* the ini file
    section,    \* OnInitialize: how many sections it has dealt with
    databases,  \* _databases, NoDB for a name that is not in it
    defaultDB,  \* _defaultDB
    threads,    \* each object's threads: "unborn", "running", "joined"
    due,        \* each object's finished tasks (_finishTasks)
    pc,         \* what the service's thread is doing
    pos,        \* the name the loop over the map has come to
    batch,      \* MysqlDB::OnUpdate: the tasks it has still to Invoke
    started,    \* history: OnInitialize returned true
    owed,       \* history: the callbacks this OnUpdate found due, not yet run
    closed      \* history: the objects that DestroyDatabase was called for

vars == <<config, section, databases, defaultDB, threads, due, pc, pos, batch,
          started, owed, closed>>

Registered == {databases[n] : n \in Names} \ {NoDB}
Made == {d \in Objects : threads[d] # "unborn"}

\* The names that a loop over the map has still to come to, were it at n, and the
\* one that it comes to next.
Ahead(n) == {m \in Names : m > n /\ databases[m] # NoDB}
Following(m) == m \in Ahead(pos) /\ \A k \in Ahead(pos) : m <= k

Init ==
    /\ config \in Configs
    /\ section = 0
    /\ databases = [n \in Names |-> NoDB]
    /\ defaultDB = NoDB
    /\ threads = [d \in Objects |-> "unborn"]
    /\ due = [d \in Objects |-> 0]
    /\ pc = "init" /\ pos = 0 /\ batch = 0
    /\ started = FALSE
    /\ owed = [d \in Objects |-> 0]
    /\ closed = {}

GoTo(where) == pc' = where

-----------------------------------------------------------------------------
(* OnInitialize.                                                           *)

\* CreateMysqlDB: a new object whose Init succeeds and starts its threads.
\* (When Init fails there are no threads yet and the object is deleted.)
Fresh(d) == d \in Objects /\ \A e \in Objects : e < d <=> e \in Made
CreateMysqlDB(d) == Fresh(d) /\ threads' = [threads EXCEPT ![d] = "running"]

InSection == pc = "init" /\ section < Len(config)
Current == config[section + 1]

InitFails ==
    /\ GoTo("failed")
    /\ UNCHANGED <<config, section, databases, defaultDB, due, pos, batch,
                   started, owed, closed>>

\* The section is missing, its name is taken, or the database does not open.
SectionFails == InSection /\ InitFails /\ UNCHANGED threads

\* A second default database: it has been opened already and is left behind.
SecondDefault ==
    /\ InSection /\ Current # Missing
    /\ databases[Current.name] = NoDB
    /\ Current.default /\ defaultDB # NoDB
    /\ \E d \in Objects : CreateMysqlDB(d)
    /\ InitFails

LoadSection ==
    /\ InSection /\ Current # Missing
    /\ databases[Current.name] = NoDB
    /\ Current.default => defaultDB = NoDB
    /\ \E d \in Objects :
         /\ CreateMysqlDB(d)
         /\ defaultDB' = IF Current.default THEN d ELSE defaultDB
         /\ databases' = [databases EXCEPT ![Current.name] = d]
    /\ section' = section + 1
    /\ UNCHANGED <<config, due, pc, pos, batch, started, owed, closed>>

NoDefault ==
    /\ pc = "init" /\ section = Len(config)
    /\ config # <<>> /\ defaultDB = NoDB
    /\ InitFails /\ UNCHANGED threads

\* `num` is 0, or all sections are loaded and one of them is the default.
Initialized ==
    /\ pc = "init" /\ section = Len(config)
    /\ config = <<>> \/ defaultDB # NoDB
    /\ started' = TRUE
    /\ GoTo("idle")
    /\ UNCHANGED <<config, section, databases, defaultDB, threads, due, pos,
                   batch, owed, closed>>

-----------------------------------------------------------------------------
(* What user code may call, between two frames and from a callback.        *)

InUserCode == pc \in {"idle", "callback"}

CreateUnchecked(n) ==                                      \* (mutant)
    /\ InUserCode
    /\ \E d \in Objects : /\ CreateMysqlDB(d)
                          /\ databases' = [databases EXCEPT ![n] = d]
    /\ UNCHANGED <<config, section, defaultDB, due, pc, pos, batch, started, owed,
                   closed>>
CreateDatabase(n) ==
    /\ InUserCode
    /\ databases[n] = NoDB
    /\ \E d \in Objects : /\ CreateMysqlDB(d)
                          /\ databases' = [databases EXCEPT ![n] = d]
    /\ UNCHANGED <<config, section, defaultDB, due, pc, pos, batch, started, owed,
                   closed>>

\* The test is the wrong way round.  A name that is registered gets the error
\* message and stays; one that is not makes the code go through end().
DestroyRegistered(n) ==                                    \* (mutant)
    /\ InUserCode
    /\ databases[n] # NoDB
    /\ threads' = [threads EXCEPT ![databases[n]] = "joined"]
    /\ due' = [due EXCEPT ![databases[n]] = 0]
    /\ databases' = [databases EXCEPT ![n] = NoDB]
    /\ closed' = closed \cup {databases[n]}
    /\ UNCHANGED <<config, section, defaultDB, pc, pos, batch, started, owed>>
DestroyDatabase(n) ==
    /\ InUserCode
    /\ IF databases[n] # NoDB
         THEN closed' = closed \cup {databases[n]} /\ UNCHANGED pc
         ELSE GoTo("undefined") /\ UNCHANGED closed
    /\ UNCHANGED <<config, section, databases, defaultDB, threads, due, pos,
                   batch, started, owed>>

\* A worker of a registered database finishes a task that user code submitted.
Complete(d) ==
    /\ started /\ d \in Registered /\ threads[d] = "running"
    /\ due[d] < MaxDue
    /\ due' = [due EXCEPT ![d] = @ + 1]
    /\ UNCHANGED <<config, section, databases, defaultDB, threads, pc, pos,
                   batch, started, owed, closed>>

-----------------------------------------------------------------------------
(* OnUpdate: `for (auto& db : _databases) db.second->OnUpdate();`          *)

OnUpdate ==
    /\ pc = "idle"
    /\ pos' = 0
    /\ owed' = due
    /\ GoTo("update")
    /\ UNCHANGED <<config, section, databases, defaultDB, threads, due, batch,
                   started, closed>>

\* The next database: its OnUpdate takes what is finished, if anything is.
UpdateStopsAtQuiet ==                                      \* (mutant)
    /\ pc = "update"
    /\ \E n \in Names :
         /\ Following(n)
         /\ pos' = n
         /\ batch' = due[databases[n]]
         /\ due' = [due EXCEPT ![databases[n]] = 0]
         /\ GoTo(IF due[databases[n]] = 0 THEN "idle" ELSE "callback")
    /\ UNCHANGED <<config, section, databases, defaultDB, threads, started, owed,
                   closed>>
UpdateNext ==
    /\ pc = "update"
    /\ \E n \in Names :
         /\ Following(n)
         /\ pos' = n
         /\ batch' = due[databases[n]]
         /\ due' = [due EXCEPT ![databases[n]] = 0]
         /\ GoTo(IF due[databases[n]] = 0 THEN "update" ELSE "callback")
    /\ UNCHANGED <<config, section, databases, defaultDB, threads, started, owed,
                   closed>>

\* One Invoke.  What the callback itself does are the actions of user code.
InvokeUnchecked ==                                         \* (mutant)
    /\ pc = "callback"
    /\ owed' = [owed EXCEPT ![databases[pos]] = IF @ = 0 THEN 0 ELSE @ - 1]
    /\ batch' = batch - 1
    /\ UNCHANGED <<config, section, databases, defaultDB, threads, due, pc, pos,
                   started, closed>>
Invoke ==
    /\ pc = "callback" /\ batch > 0
    /\ owed' = [owed EXCEPT ![databases[pos]] = IF @ = 0 THEN 0 ELSE @ - 1]
    /\ batch' = batch - 1
    /\ UNCHANGED <<config, section, databases, defaultDB, threads, due, pc, pos,
                   started, closed>>

BatchDone ==
    /\ pc = "callback" /\ batch = 0
    /\ GoTo("update")
    /\ UNCHANGED <<config, section, databases, defaultDB, threads, due, pos,
                   batch, started, owed, closed>>

UpdateReturn ==
    /\ pc = "update" /\ Ahead(pos) = {}
    /\ GoTo("idle")
    /\ UNCHANGED <<config, section, databases, defaultDB, threads, due, pos,
                   batch, started, owed, closed>>

-----------------------------------------------------------------------------
(* OnDestroy.                                                              *)

OnDestroy ==
    /\ pc \in {"idle", "failed"}
    /\ pos' = 0
    /\ GoTo("destroy")
    /\ UNCHANGED <<config, section, databases, defaultDB, threads, due, batch,
                   started, owed, closed>>

\* MysqlDB::Destroy of the next one: its threads are joined, and the callbacks
\* still due are dropped.
DestroyNext ==
    /\ pc = "destroy"
    /\ \E n \in Names :
         /\ Following(n)
         /\ pos' = n
         /\ threads' = [threads EXCEPT ![databases[n]] = "joined"]
         /\ due' = [due EXCEPT ![databases[n]] = 0]
    /\ UNCHANGED <<config, section, databases, defaultDB, pc, batch, started, owed,
                   closed>>

\* The map is cleared, which deletes the objects; _defaultDB keeps its value.
ClearEarly ==                                              \* (mutant)
    /\ pc = "destroy"
    /\ databases' = [n \in Names |-> NoDB]
    /\ GoTo("destroyed")
    /\ UNCHANGED <<config, section, defaultDB, threads, due, pos, batch, started,
                   owed, closed>>
Clear ==
    /\ pc = "destroy" /\ Ahead(pos) = {}
    /\ databases' = [n \in Names |-> NoDB]
    /\ GoTo("destroyed")
    /\ UNCHANGED <<config, section, defaultDB, threads, due, pos, batch, started,
                   owed, closed>>

-----------------------------------------------------------------------------

Next ==
    \/ SectionFails \/ SecondDefault \/ LoadSection \/ NoDefault \/ Initialized
    \/ \E n \in Names : CreateDatabase(n) \/ DestroyDatabase(n)
    \/ \E d \in Objects : Complete(d)
    \/ OnUpdate \/ UpdateNext \/ Invoke \/ BatchDone \/ UpdateReturn
    \/ OnDestroy \/ DestroyNext \/ Clear

Spec == Init /\ [][Next]_vars

\* The service's thread ends a frame that it has begun (callbacks return), and
\* begins the next one: LLBC's service calls OnUpdate of its components every frame.
FairSpec ==
    /\ Spec
    /\ WF_vars(OnUpdate)
    /\ WF_vars(UpdateNext \/ Invoke \/ BatchDone \/ UpdateReturn)

-----------------------------------------------------------------------------
(* Properties.                                                             *)

\* Every variable has its type.
TypeOK ==
    /\ config \in Configs /\ section \in 0..Len(config)
    /\ databases \in [Names -> Objects \cup {NoDB}]
    /\ defaultDB \in Objects \cup {NoDB}
    /\ threads \in [Objects -> {"unborn", "running", "joined"}]
    /\ due \in [Objects -> 0..MaxDue]
    /\ pc \in {"init", "failed", "idle", "update", "callback", "destroy",
               "destroyed", "undefined"}
    /\ pos \in 0..NumNames
    /\ batch \in 0..MaxDue
    /\ started \in BOOLEAN
    /\ owed \in [Objects -> 0..MaxDue]
    /\ closed \in SUBSET Objects

\* What OnInitialize set up is in force until user code takes it down: unless
\* DestroyDatabase was called for it, the database of a section is the very object
\* opened for that section, under the section's name, and GetDefaultDatabase returns
\* it if and only if the section says so, whatever else has been created since.
\* (Objects are numbered as they are made, so the i-th section's is number i.)
ConfigInForce ==
    (started /\ pc # "destroyed") =>
        \A i \in 1..Len(config) :
            i \notin closed =>
                /\ databases[config[i].name] = i
                /\ config[i].default <=> defaultDB = i

\* An OnInitialize that failed at a second default left the database that it had
\* just opened for it to nobody.
LeftBehind(d) ==
    /\ ~started /\ pc # "init"
    /\ section < Len(config) /\ d = section + 1 /\ config[d].default

\* An object's threads run only while the map owns it: reset(newDB) and clear()
\* never delete an object with threads (std::thread's destructor would end the
\* process), and none is left running when OnDestroy has returned, of a service
\* that has started or one that has not.  The one exception is a second default.
RunningIsOwned ==
    \A d \in Objects : threads[d] = "running" => d \in Registered \/ LeftBehind(d)

\* OnUpdate loops over the map while callbacks of the databases insert into it:
\* no callback that was due when the frame began is left to a later one.
FrameServesAll == pc = "idle" => \A d \in Objects : owed[d] = 0

\* The database whose callbacks are being run is alive while they run, whatever
\* they call: OnUpdate of it and the loop over the map return into it.
CallbackOwnerLives ==
    pc = "callback" =>
        databases[pos] # NoDB /\ threads[databases[pos]] = "running"

\* Every database in the map gets its OnUpdate, again and again until the service
\* is destroyed, those that a callback has inserted included: this is the frame
\* that MysqlDB's fairness counts on.
EveryDatabaseUpdated ==
    \A n \in Names :
        (started /\ databases[n] # NoDB) ~>
            \/ pos = n /\ pc \in {"update", "callback"}
            \/ pc \in {"destroy", "destroyed", "undefined"}

\* IDBMgr.h:44, "destroy database obj.": a database that DestroyDatabase was
\* called for is no longer there.
DestroyDatabaseDestroys == closed \cap Registered = {}
=============================================================================
